----------------------- MODULE TelemetryCodec_proofs -----------------------
(***************************************************************************)
(* What UnmarshalJSON makes of a payload and GetTelemetry of the document, *)
(* for any payload and any values.                                         *)
(*                                                                         *)
(* What it rests on: the live telemetry is normalised, and normalising is  *)
(* idempotent; preferredField takes no notice of a key that holds null.    *)
(***************************************************************************)
EXTENDS TelemetryCodec, TLAPS

Fields == DOMAIN TelemetryFields

Struct == DOMAIN Tags

(* The fields with a part of their own in decoding.                        *)
LEMMA NamedFields ==
  /\ {"Mode", "GprsStatus", "SystemStatus", "SystemEnabled", "DeviceID", "UpdatedAt",
      "PowerOn", "RelaysOn", "RelaysActive", "ActiveStage", "StageNumber", "Stages"}
       \subseteq Fields
  /\ TelemetryFields["PowerOn"] = Aliases("int", <<"po", "powerOn">>)
  /\ TelemetryFields["RelaysOn"] = Aliases("int", <<"relaysOn", "powerOn">>)
  /\ TelemetryFields["RelaysActive"] = Aliases("int", <<"relaysActive", "relaysOn", "powerOn">>)
  /\ TelemetryFields["ActiveStage"] = Aliases("int", <<"stg", "activeStage", "stageNumber">>)
  /\ TelemetryFields["StageNumber"] = Aliases("int", <<"stg", "stageNumber", "activeStage">>)
  /\ TelemetryFields["SystemEnabled"] = Aliases("bool", <<"en", "systemEnabled">>)
<1>1. \A g \in FieldGroups : DOMAIN g \subseteq Fields
  BY DEF Fields, TelemetryFields
<1>2. {DeviceFields, RelayFields, ProgressFields} \subseteq FieldGroups
  BY DEF FieldGroups
<1>3. /\ {"Mode", "GprsStatus", "SystemStatus", "SystemEnabled", "DeviceID", "UpdatedAt"}
           \subseteq DOMAIN DeviceFields
      /\ {"PowerOn", "RelaysOn", "RelaysActive"} \subseteq DOMAIN RelayFields
      /\ {"ActiveStage", "StageNumber", "Stages"} \subseteq DOMAIN ProgressFields
  BY DEF DeviceFields, RelayFields, ProgressFields
<1> DEFINE relays == {"PowerOn", "RelaysOn", "RelaysActive"}
           stage  == {"ActiveStage", "StageNumber"}
<1>4. ASSUME NEW g \in FieldGroups, NEW n \in DOMAIN g,
             \A h \in FieldGroups : n \in DOMAIN h => h = g
      PROVE  TelemetryFields[n] = g[n]
  <2>1. (CHOOSE h \in FieldGroups : n \in DOMAIN h) = g
    BY <1>4
  <2> QED
    BY <2>1 DEF TelemetryFields
<1>5. \A n \in relays \cup stage \cup {"SystemEnabled"} :
        n \notin DOMAIN ThresholdFields /\ n \notin DOMAIN AirFields
  BY DEF ThresholdFields, AirFields
<1>6. \A n \in relays \cup stage : n \notin DOMAIN DeviceFields
  BY DEF DeviceFields
<1>7. \A n \in relays \cup {"SystemEnabled"} : n \notin DOMAIN ProgressFields
  BY DEF ProgressFields
<1>8. \A n \in stage \cup {"SystemEnabled"} : n \notin DOMAIN RelayFields
  BY DEF RelayFields
<1>9. \A n \in relays : TelemetryFields[n] = RelayFields[n]
  BY <1>2, <1>3, <1>4, <1>5, <1>6, <1>7 DEF FieldGroups
<1>10. \A n \in stage : TelemetryFields[n] = ProgressFields[n]
  BY <1>2, <1>3, <1>4, <1>5, <1>6, <1>8 DEF FieldGroups
<1>11. TelemetryFields["SystemEnabled"] = DeviceFields["SystemEnabled"]
  BY <1>2, <1>3, <1>4, <1>5, <1>7, <1>8 DEF FieldGroups
<1>12. /\ RelayFields["PowerOn"] = Aliases("int", <<"po", "powerOn">>)
       /\ RelayFields["RelaysOn"] = Aliases("int", <<"relaysOn", "powerOn">>)
       /\ RelayFields["RelaysActive"] = Aliases("int", <<"relaysActive", "relaysOn", "powerOn">>)
  BY DEF RelayFields
<1>13. /\ ProgressFields["ActiveStage"] = Aliases("int", <<"stg", "activeStage", "stageNumber">>)
       /\ ProgressFields["StageNumber"] = Aliases("int", <<"stg", "stageNumber", "activeStage">>)
       /\ DeviceFields["SystemEnabled"] = Aliases("bool", <<"en", "systemEnabled">>)
  BY DEF ProgressFields, DeviceFields
<1> QED
  BY <1>1, <1>2, <1>3, <1>9, <1>10, <1>11, <1>12, <1>13

(* The fields of the struct are those UnmarshalJSON reads, and ID.         *)
LEMMA StructFields == Struct = Fields \cup {"ID"} /\ "ID" \notin Fields
<1>1. Fields = DOMAIN DeviceFields \cup DOMAIN RelayFields \cup DOMAIN ProgressFields
                 \cup DOMAIN ThresholdFields \cup DOMAIN AirFields
  BY DEF Fields, TelemetryFields, FieldGroups
<1> QED
  BY <1>1, SMTT(60) DEF Struct, Tags, DeviceFields, RelayFields, ProgressFields, ThresholdFields,
       AirFields

(* $set has each of them under the key it is read from, but for the ID,    *)
(* which is the database's, and the time.                                  *)
LEMMA EachFieldIsSet ==
  /\ \A n \in Struct \ {"ID", "UpdatedAt"} :
       Tags[n] \in DOMAIN SetFields /\ SetFields[Tags[n]] = n
  /\ "ID" \in Struct /\ Tags["ID"] = "_id" /\ "_id" \notin DOMAIN SetFields
  /\ "UpdatedAt" \in Struct /\ Tags["UpdatedAt"] = "updatedAt"
  /\ "updatedAt" \notin DOMAIN SetFields
<1>1. \A n \in Struct \ {"ID", "UpdatedAt"} :
        Tags[n] \in DOMAIN SetFields /\ SetFields[Tags[n]] = n
  BY SMTT(60) DEF Struct, Tags, SetFields
<1>2. "ID" \in Struct /\ Tags["ID"] = "_id" /\ "UpdatedAt" \in Struct /\ Tags["UpdatedAt"] = "updatedAt"
  BY DEF Struct, Tags
<1>3. "_id" \notin DOMAIN SetFields /\ "updatedAt" \notin DOMAIN SetFields
  BY DEF SetFields
<1> QED
  BY <1>1, <1>2, <1>3

-----------------------------------------------------------------------------
(* Normalising.                                                            *)
LEMMA NormalizeTwice ==
  ASSUME NEW s
  PROVE  /\ NormalizeMode(NormalizeMode(s)) = NormalizeMode(s)
         /\ NormalizeGprsStatus(NormalizeGprsStatus(s)) = NormalizeGprsStatus(s)
         /\ NormalizeSystemStatus(NormalizeSystemStatus(s)) = NormalizeSystemStatus(s)
         /\ \A e : NormalizeSystemStatus(StatusOf(e)) = StatusOf(e) /\ StatusOf(e) # ""
<1>1. NormalizeMode(NormalizeMode(s)) = NormalizeMode(s)
  BY CodecAssumption DEF NormalizeMode, Normalize
<1>2. NormalizeGprsStatus(NormalizeGprsStatus(s)) = NormalizeGprsStatus(s)
  BY CodecAssumption DEF NormalizeGprsStatus, Normalize
<1>3. NormalizeSystemStatus(NormalizeSystemStatus(s)) = NormalizeSystemStatus(s)
  BY CodecAssumption DEF NormalizeSystemStatus, Normalize
<1>4. \A e : NormalizeSystemStatus(StatusOf(e)) = StatusOf(e) /\ StatusOf(e) # ""
  BY CodecAssumption DEF NormalizeSystemStatus, Normalize, StatusOf
<1> QED
  BY <1>1, <1>2, <1>3, <1>4

IsTelemetry(t) == t = [n \in Struct |-> t[n]]

(* Normalised but for a status that may still be missing.                  *)
IsNormal(t) ==
  /\ NormalizeMode(t.Mode) = t.Mode
  /\ NormalizeGprsStatus(t.GprsStatus) = t.GprsStatus
  /\ t.SystemStatus # "" => NormalizeSystemStatus(t.SystemStatus) = t.SystemStatus

LEMMA NormalizedFields ==
  ASSUME NEW t, IsTelemetry(t), NEW status
  PROVE  LET u == Normalized(t, status)
             s == NormalizeSystemStatus(t.SystemStatus)
         IN  /\ IsTelemetry(u)
             /\ u.Mode = NormalizeMode(t.Mode)
             /\ u.GprsStatus = NormalizeGprsStatus(t.GprsStatus)
             /\ u.SystemStatus = IF s = "" THEN status ELSE s
             /\ \A n \in Struct \ {"Mode", "GprsStatus", "SystemStatus"} : u[n] = t[n]
<1>1. DOMAIN t = Struct /\ {"Mode", "GprsStatus", "SystemStatus"} \subseteq Struct
  BY NamedFields, StructFields DEF IsTelemetry
<1> QED
  BY <1>1 DEF Normalized, IsTelemetry

LEMMA NormalStays ==
  ASSUME NEW t, IsTelemetry(t), IsNormal(t), t.SystemStatus # "", NEW status
  PROVE  Normalized(t, status) = t
<1> DEFINE u == Normalized(t, status)
<1>1. IsTelemetry(u) /\ u.Mode = t.Mode /\ u.GprsStatus = t.GprsStatus /\ u.SystemStatus = t.SystemStatus
      /\ \A n \in Struct \ {"Mode", "GprsStatus", "SystemStatus"} : u[n] = t[n]
  BY NormalizedFields DEF IsNormal
<1>2. \A n \in Struct : u[n] = t[n]
  BY <1>1
<1> HIDE DEF u
<1>3. u = t
  BY <1>1, <1>2 DEF IsTelemetry
<1> QED
  BY <1>3 DEF u

LEMMA LiveIsNormal ==
  ASSUME NEW p
  PROVE  IsTelemetry(UnmarshalJSON(p)) /\ IsNormal(UnmarshalJSON(p))
<1> DEFINE t == Decode(p)
           status == IF PreferredKey(p, <<"en", "systemEnabled">>) THEN StatusOf(t.SystemEnabled) ELSE ""
<1>1. IsTelemetry(t)
  BY DEF Decode, IsTelemetry, Struct
<1>2. status = "" \/ \E e : status = StatusOf(e)
  OBVIOUS
<1>3. UnmarshalJSON(p) = Normalized(t, status)
  BY DEF UnmarshalJSON
<1> DEFINE u == UnmarshalJSON(p)
           s == NormalizeSystemStatus(t.SystemStatus)
<1> HIDE DEF t, status
<1>4. /\ IsTelemetry(u)
      /\ u.Mode = NormalizeMode(t.Mode) /\ u.GprsStatus = NormalizeGprsStatus(t.GprsStatus)
      /\ u.SystemStatus = IF s = "" THEN status ELSE s
  BY <1>1, <1>3, NormalizedFields
<1>5. NormalizeSystemStatus(s) = s /\ (status # "" => NormalizeSystemStatus(status) = status)
  BY <1>2, NormalizeTwice
<1>6. u.SystemStatus # "" => NormalizeSystemStatus(u.SystemStatus) = u.SystemStatus
  BY <1>4, <1>5
<1> QED
  BY <1>4, <1>6, NormalizeTwice DEF IsNormal

-----------------------------------------------------------------------------
(* UnmarshalJSON leaves the ID as it finds it.                             *)
LEMMA NilUntilRead ==
  ASSUME NEW p
  PROVE  UnmarshalJSON(p)["ID"] = NilObjectID
<1> DEFINE t == Decode(p)
<1>1. IsTelemetry(t)
  BY DEF Decode, IsTelemetry, Struct
<1>2. t["ID"] = NilObjectID
  BY EachFieldIsSet DEF Decode, Struct
<1>3. PICK status : UnmarshalJSON(p) = Normalized(t, status)
  BY DEF UnmarshalJSON
<1> HIDE DEF t
<1>4. \A n \in Struct \ {"Mode", "GprsStatus", "SystemStatus"} : UnmarshalJSON(p)[n] = t[n]
  BY <1>1, <1>3, NormalizedFields
<1> QED
  BY <1>2, <1>4, EachFieldIsSet

(* The document holds the telemetry t, under an ID and the time of the     *)
(* write.                                                                  *)
Holds(doc, t) ==
  /\ \A n \in Struct \ {"ID", "UpdatedAt"} :
       Tags[n] \in DOMAIN doc /\ doc[Tags[n]] = t[n]
  /\ "_id" \in DOMAIN doc /\ doc["_id"] # NilObjectID
  /\ "updatedAt" \in DOMAIN doc /\ doc["updatedAt"] = "now"

(* The list of $set is complete, whatever document was there before.       *)
LEMMA UpsertHolds ==
  ASSUME NEW doc \in Earlier, NEW t
  PROVE  Holds(Upsert(doc, UpdateFields(t)), t)
<1> DEFINE set == UpdateFields(t)
           new == Upsert(doc, set)
<1>1. /\ DOMAIN set = DOMAIN SetFields \cup {"updatedAt"} /\ set["updatedAt"] = "now"
      /\ \A k \in DOMAIN SetFields : set[k] = t[SetFields[k]]
  BY EachFieldIsSet DEF UpdateFields
<1> HIDE DEF set
<1>2. /\ DOMAIN new = DOMAIN set \cup DOMAIN doc \cup {"_id"}
      /\ \A k \in DOMAIN set : new[k] = set[k]
      /\ "_id" \notin DOMAIN set =>
           new["_id"] = IF "_id" \in DOMAIN doc THEN doc["_id"] ELSE NewObjectID
  BY DEF Upsert
<1>3. new["_id"] # NilObjectID
  BY <1>1, <1>2, EachFieldIsSet, EarlierAssumption DEF NewObjectID, NilObjectID
<1> HIDE DEF new
<1>4. Holds(new, t)
  BY <1>1, <1>2, <1>3, EachFieldIsSet DEF Holds
<1> QED
  BY <1>4 DEF new, set

(* What each phase knows of the ones before.                               *)
CodecInv ==
  /\ phase \in {"received", "rejected", "decoded", "stored", "read"}
  /\ phase \in {"received", "decoded"} => document \in Earlier
  /\ phase \in {"decoded", "stored", "read"} => live = UnmarshalJSON(received)
  /\ phase \in {"stored", "read"} => Holds(document, live)
  /\ phase = "read" => snapshot = GetTelemetry(document)

LEMMA CodecStep ==
  ASSUME CodecInv, [Next]_codecVars
  PROVE  CodecInv'
<1>1. CASE Reject
  BY <1>1 DEF CodecInv, Reject
<1>2. CASE Accept
  BY <1>2 DEF CodecInv, Accept
<1>3. CASE Store
  <2>1. Holds(document', live)
    BY <1>3, UpsertHolds DEF CodecInv, Store
  <2> QED
    BY <1>3, <2>1 DEF Store, CodecInv
<1>4. CASE Read
  BY <1>4 DEF CodecInv, Read
<1>5. CASE UNCHANGED codecVars
  BY <1>5 DEF CodecInv, codecVars
<1> QED
  BY <1>1, <1>2, <1>3, <1>4, <1>5 DEF Next, Finished

LEMMA CodecCorrect == Spec => []CodecInv
<1>1. Init => CodecInv
  BY DEF Init, CodecInv
<1> QED
  BY <1>1, CodecStep, PTL DEF Spec

(* GetTelemetry decodes the document into what was live, and an ID.        *)
LEMMA DecodedDocument ==
  ASSUME NEW doc, NEW t, IsTelemetry(t), Holds(doc, t)
  PROVE  LET d == [n \in Struct |-> IF Tags[n] \in DOMAIN doc THEN doc[Tags[n]] ELSE ZeroOf(n)]
         IN  /\ d = [t EXCEPT !["UpdatedAt"] = "now", !["ID"] = doc["_id"]]
             /\ GetTelemetry(doc) = Normalized(d, StatusOf(d.SystemEnabled))
<1> DEFINE d == [n \in Struct |-> IF Tags[n] \in DOMAIN doc THEN doc[Tags[n]] ELSE ZeroOf(n)]
<1>1. \A n \in Struct : d[n] = IF n = "UpdatedAt" THEN "now"
                               ELSE IF n = "ID" THEN doc["_id"] ELSE t[n]
  BY EachFieldIsSet DEF Holds
<1>2. d = [t EXCEPT !["UpdatedAt"] = "now", !["ID"] = doc["_id"]]
  BY <1>1 DEF IsTelemetry
<1> QED
  BY <1>2 DEF GetTelemetry, Struct

(* What each phase holds is a telemetry.                                   *)
LEMMA TelemetryThroughout ==
  ASSUME CodecInv
  PROVE  /\ phase \in {"decoded", "stored", "read"} => IsTelemetry(live) /\ IsNormal(live)
         /\ phase = "read" => IsTelemetry(snapshot)
<1>1. phase \in {"decoded", "stored", "read"} => IsTelemetry(live) /\ IsNormal(live)
  BY LiveIsNormal DEF CodecInv
<1>2. ASSUME phase = "read"
      PROVE  IsTelemetry(snapshot)
  <2>1. PICK d : /\ d = [live EXCEPT !["UpdatedAt"] = "now", !["ID"] = document["_id"]]
                 /\ snapshot = Normalized(d, StatusOf(d.SystemEnabled))
    BY <1>1, <1>2, DecodedDocument DEF CodecInv
  <2>2. IsTelemetry(d)
    BY <1>1, <1>2, <2>1 DEF IsTelemetry
  <2> QED
    BY <2>1, <2>2, NormalizedFields
<1> QED
  BY <1>1, <1>2

(* The telemetry and what is read from the document have the fields of the *)
(* struct, and the document has a key for each, whatever it was before:    *)
(* the list of $set is complete.                                           *)
THEOREM CodecTypeCorrect == Spec => []TypeOK
<1>1. CodecInv => TypeOK
  <2> SUFFICES ASSUME CodecInv
               PROVE  TypeOK
    OBVIOUS
  <2>1. ASSUME phase \in {"stored", "read"}
        PROVE  Range(Tags) \subseteq DOMAIN document
    <3>1. Holds(document, live)
      BY <2>1 DEF CodecInv
    <3>2. \A n \in Struct : Tags[n] \in DOMAIN document
      BY <3>1, EachFieldIsSet DEF Holds
    <3> QED
      BY <3>2 DEF Range, Struct
  <2> QED
    BY <2>1, TelemetryThroughout DEF CodecInv, TypeOK, IsTelemetry, Struct
<1> QED
  BY <1>1, CodecCorrect, PTL

(* UpsetTelemetry and GetTelemetry: what is read back is what was shown    *)
(* live, but for the ID and the time of the update, whatever spelling the  *)
(* device uses and whatever document was there before.                     *)
THEOREM SnapshotIsLive == Spec => []SnapshotShowsLive
<1>1. CodecInv => SnapshotShowsLive
  <2> SUFFICES ASSUME CodecInv, phase = "read", live.SystemStatus # ""
               PROVE  /\ snapshot = [live EXCEPT !["UpdatedAt"] = "now", !["ID"] = document["_id"]]
                      /\ live["ID"] = NilObjectID /\ snapshot["ID"] # NilObjectID
    BY DEF SnapshotShowsLive
  <2>1. IsTelemetry(live) /\ IsNormal(live) /\ Holds(document, live)
    BY TelemetryThroughout DEF CodecInv
  <2>2. PICK d : /\ d = [live EXCEPT !["UpdatedAt"] = "now", !["ID"] = document["_id"]]
                 /\ snapshot = Normalized(d, StatusOf(d.SystemEnabled))
    BY <2>1, DecodedDocument DEF CodecInv
  <2>3. IsTelemetry(d) /\ \A n \in Struct \ {"ID", "UpdatedAt"} : d[n] = live[n]
    BY <2>1, <2>2 DEF IsTelemetry
  <2>4. d.Mode = live.Mode /\ d.GprsStatus = live.GprsStatus /\ d.SystemStatus = live.SystemStatus
    BY <2>3, NamedFields, StructFields
  <2>5. IsNormal(d) /\ d.SystemStatus # ""
    BY <2>1, <2>4 DEF IsNormal
  <2>6. snapshot = d
    BY <2>2, <2>3, <2>5, NormalStays
  <2>7. d["ID"] = document["_id"]
    BY <2>1, <2>2, EachFieldIsSet DEF IsTelemetry
  <2>8. live["ID"] = NilObjectID
    BY NilUntilRead, EachFieldIsSet DEF CodecInv
  <2> QED
    BY <2>1, <2>2, <2>6, <2>7, <2>8 DEF Holds
<1> QED
  BY <1>1, CodecCorrect, PTL

-----------------------------------------------------------------------------
(* preferredField of keys of which the first holds nothing.                *)
LEMMA SecondKey ==
  ASSUME NEW fields, NEW k1, NEW k2, NEW k3, Present(fields, <<k1>>) = {}
  PROVE  /\ Present(fields, <<k1, k2, k3>>) = {} <=> Present(fields, <<k2, k3>>) = {}
         /\ Present(fields, <<k2, k3>>) # {} =>
              PreferredField(fields, <<k1, k2, k3>>) = PreferredField(fields, <<k2, k3>>)
<1> DEFINE Said(k) == k \in DOMAIN fields /\ Kind(fields[k]) # "null"
<1>1. Present(fields, <<k1>>) = {i \in {1} : Said(k1)}
  BY DEF Present
<1>2. ~Said(k1)
  BY <1>1
<1>3. Present(fields, <<k2, k3>>) = {i \in {1, 2} : (i = 1 /\ Said(k2)) \/ (i = 2 /\ Said(k3))}
  BY DEF Present
<1>4. Present(fields, <<k1, k2, k3>>) =
        {i \in {1, 2, 3} : (i = 2 /\ Said(k2)) \/ (i = 3 /\ Said(k3))}
  BY <1>2 DEF Present
<1> HIDE DEF Said
<1>5. CASE Said(k2)
  <2>1. (CHOOSE i \in Present(fields, <<k2, k3>>) : \A j \in Present(fields, <<k2, k3>>) : i <= j) = 1
    BY <1>3, <1>5
  <2>2. (CHOOSE i \in Present(fields, <<k1, k2, k3>>) :
           \A j \in Present(fields, <<k1, k2, k3>>) : i <= j) = 2
    BY <1>4, <1>5
  <2> QED
    BY <1>3, <1>4, <1>5, <2>1, <2>2 DEF PreferredField
<1>6. CASE ~Said(k2) /\ Said(k3)
  <2>1. (CHOOSE i \in Present(fields, <<k2, k3>>) : \A j \in Present(fields, <<k2, k3>>) : i <= j) = 2
    BY <1>3, <1>6
  <2>2. (CHOOSE i \in Present(fields, <<k1, k2, k3>>) :
           \A j \in Present(fields, <<k1, k2, k3>>) : i <= j) = 3
    BY <1>4, <1>6
  <2> QED
    BY <1>3, <1>4, <1>6, <2>1, <2>2 DEF PreferredField
<1>7. CASE ~Said(k2) /\ ~Said(k3)
  BY <1>3, <1>4, <1>7
<1> QED
  BY <1>5, <1>6, <1>7

(* What UnmarshalJSON leaves as Decode made it.                            *)
LEMMA DecodedStays ==
  ASSUME NEW p, NEW n \in Fields \ {"Mode", "GprsStatus", "SystemStatus"}
  PROVE  /\ UnmarshalJSON(p)[n] = Decode(p)[n]
         /\ n # "Stages" => UnmarshalJSON(p)[n] = PlainValue(p, TelemetryFields[n])
<1> DEFINE t == Decode(p)
<1>1. IsTelemetry(t) /\ n \in Struct /\ (n # "Stages" => t[n] = PlainValue(p, TelemetryFields[n]))
  BY StructFields DEF Decode, IsTelemetry, Struct
<1>2. PICK status : UnmarshalJSON(p) = Normalized(t, status)
  BY DEF UnmarshalJSON
<1> HIDE DEF t
<1>3. \A m \in Struct \ {"Mode", "GprsStatus", "SystemStatus"} : UnmarshalJSON(p)[m] = t[m]
  BY <1>1, <1>2, NormalizedFields
<1> QED
  BY <1>1, <1>3 DEF t

(* Telemetry.UnmarshalJSON: RelaysActive is RelaysOn, unless the firmware  *)
(* counts active relays apart.                                             *)
THEOREM RelaysInAgreement == Spec => []RelaysAgree
<1>1. CodecInv => RelaysAgree
  <2> SUFFICES ASSUME CodecInv, phase = "decoded", Present(received, <<"relaysActive">>) = {}
               PROVE  live["RelaysActive"] = live["RelaysOn"]
    BY DEF RelaysAgree
  <2> DEFINE active == Aliases("int", <<"relaysActive", "relaysOn", "powerOn">>)
             on == Aliases("int", <<"relaysOn", "powerOn">>)
  <2>1. live["RelaysActive"] = PlainValue(received, active) /\ live["RelaysOn"] = PlainValue(received, on)
    BY NamedFields, DecodedStays DEF CodecInv
  <2>2. /\ active.type = "int" /\ active.keys = <<"relaysActive", "relaysOn", "powerOn">>
        /\ on.type = "int" /\ on.keys = <<"relaysOn", "powerOn">>
    BY DEF Aliases
  <2> HIDE DEF active, on
  <2>3. PlainValue(received, active) = PlainValue(received, on)
    BY <2>2, SecondKey DEF PlainValue
  <2> QED
    BY <2>1, <2>3
<1> QED
  BY <1>1, CodecCorrect, PTL

-----------------------------------------------------------------------------
(* What an object says.                                                    *)
Said(fields) == [k \in {j \in DOMAIN fields : Kind(fields[j]) # "null"} |-> fields[k]]

(* No field has more than three keys.                                      *)
LEMMA FewKeys ==
  /\ \A n \in Fields : DOMAIN TelemetryFields[n].keys \subseteq {1, 2, 3}
  /\ \A n \in DOMAIN StageFields : DOMAIN StageFields[n].keys \subseteq {1, 2, 3}
<1>1. \A n \in DOMAIN DeviceFields : DOMAIN DeviceFields[n].keys \subseteq {1, 2, 3}
  BY DEF DeviceFields, Aliases
<1>2. \A n \in DOMAIN RelayFields : DOMAIN RelayFields[n].keys \subseteq {1, 2, 3}
  BY DEF RelayFields, Aliases
<1>3. \A n \in DOMAIN ProgressFields : DOMAIN ProgressFields[n].keys \subseteq {1, 2, 3}
  BY DEF ProgressFields, Aliases
<1>4. \A n \in DOMAIN ThresholdFields : DOMAIN ThresholdFields[n].keys \subseteq {1, 2, 3}
  BY DEF ThresholdFields, Aliases
<1>5. \A n \in DOMAIN AirFields : DOMAIN AirFields[n].keys \subseteq {1, 2, 3}
  BY DEF AirFields, Aliases
<1>6. \A n \in DOMAIN StageFields : DOMAIN StageFields[n].keys \subseteq {1, 2, 3}
  BY DEF StageFields, Aliases
<1>7. \A g \in FieldGroups : \A n \in DOMAIN g : DOMAIN g[n].keys \subseteq {1, 2, 3}
  BY <1>1, <1>2, <1>3, <1>4, <1>5 DEF FieldGroups
<1>8. \A n \in Fields : \E g \in FieldGroups : n \in DOMAIN g /\ TelemetryFields[n] = g[n]
  BY DEF Fields, TelemetryFields
<1> QED
  BY <1>6, <1>7, <1>8

(* The place of the key preferredField takes.                              *)
First(fields, keys) ==
  CHOOSE i \in Present(fields, keys) : \A j \in Present(fields, keys) : i <= j

LEMMA FirstIsPresent ==
  ASSUME NEW fields, NEW keys, DOMAIN keys \subseteq {1, 2, 3}, Present(fields, keys) # {}
  PROVE  /\ First(fields, keys) \in Present(fields, keys)
         /\ PreferredField(fields, keys) = fields[keys[First(fields, keys)]]
<1> DEFINE found == Present(fields, keys)
<1>1. found \subseteq {1, 2, 3} /\ found # {}
  BY DEF Present
<1>2. \E i \in found : \A j \in found : i <= j
  <2> HIDE DEF found
  <2>1. CASE 1 \in found
    BY <1>1, <2>1
  <2>2. CASE 1 \notin found /\ 2 \in found
    BY <1>1, <2>2
  <2>3. CASE 1 \notin found /\ 2 \notin found
    <3>1. found = {3}
      BY <1>1, <2>3
    <3> QED
      BY <3>1
  <2> QED
    BY <2>1, <2>2, <2>3
<1> QED
  BY <1>2 DEF First, PreferredField

LEMMA SaidIsPreferred ==
  ASSUME NEW fields, NEW keys, DOMAIN keys \subseteq {1, 2, 3}
  PROVE  /\ Present(Said(fields), keys) = Present(fields, keys)
         /\ Present(fields, keys) # {} =>
              PreferredField(Said(fields), keys) = PreferredField(fields, keys)
<1>1. Present(Said(fields), keys) = Present(fields, keys)
  BY DEF Present, Said
<1>2. ASSUME Present(fields, keys) # {}
      PROVE  PreferredField(Said(fields), keys) = PreferredField(fields, keys)
  <2> DEFINE k == keys[First(fields, keys)]
  <2>1. PreferredField(fields, keys) = fields[k] /\ k \in DOMAIN fields /\ Kind(fields[k]) # "null"
    BY <1>2, FirstIsPresent DEF Present
  <2>2. PreferredField(Said(fields), keys) = Said(fields)[k]
    BY <1>1 DEF PreferredField, First
  <2> QED
    BY <2>1, <2>2 DEF Said
<1> QED
  BY <1>1, <1>2

LEMMA SaidDecodes ==
  ASSUME NEW fields
  PROVE  /\ Fails(Said(fields)) <=> Fails(fields)
         /\ Decode(Said(fields)) = Decode(fields)
<1>1. \A n \in Fields :
        /\ PlainFails(Said(fields), TelemetryFields[n]) <=> PlainFails(fields, TelemetryFields[n])
        /\ PlainValue(Said(fields), TelemetryFields[n]) = PlainValue(fields, TelemetryFields[n])
  BY FewKeys, SaidIsPreferred DEF PlainFails, PlainValue
<1>2. StageObjects(Said(fields)) = StageObjects(fields)
  BY NamedFields, FewKeys, SaidIsPreferred DEF StageObjects
<1>3. Fails(Said(fields)) <=> Fails(fields)
  BY <1>1, <1>2 DEF Fails, Fields
<1>4. Decode(Said(fields)) = Decode(fields)
  BY <1>1, <1>2, StructFields DEF Decode, Fields, Struct
<1> QED
  BY <1>3, <1>4

(* The decoders pass over null: but for SystemStatus, a telemetry is what  *)
(* it would be without the keys that hold it.                              *)
THEOREM NullIsPassedOver == Spec => []NullSaysNothing
<1>1. NullSaysNothing
  <2>1. ASSUME NEW n \in Fields \ {"SystemStatus"}
        PROVE  UnmarshalJSON(received)[n] = UnmarshalJSON(Said(received))[n]
    <3> DEFINE t == Decode(received)
    <3>1. PICK s1 : UnmarshalJSON(received) = Normalized(t, s1)
      BY DEF UnmarshalJSON
    <3>2. PICK s2 : UnmarshalJSON(Said(received)) = Normalized(t, s2)
      BY SaidDecodes DEF UnmarshalJSON
    <3>3. IsTelemetry(t)
      BY DEF Decode, IsTelemetry, Struct
    <3> HIDE DEF t
    <3>4. Normalized(t, s1)[n] = Normalized(t, s2)[n]
      <4>1. \A s : /\ Normalized(t, s).Mode = NormalizeMode(t.Mode)
                   /\ Normalized(t, s).GprsStatus = NormalizeGprsStatus(t.GprsStatus)
        BY <3>3, NormalizedFields
      <4>2. \A s : \A m \in Struct \ {"Mode", "GprsStatus", "SystemStatus"} :
              Normalized(t, s)[m] = t[m]
        BY <3>3, NormalizedFields
      <4> QED
        BY <4>1, <4>2, StructFields
    <3> QED
      BY <3>1, <3>2, <3>4
  <2> QED
    BY <2>1, SaidDecodes DEF NullSaysNothing, Said, Fields
<1> QED
  BY <1>1, PTL

-----------------------------------------------------------------------------
(* The keys of a field, and the keys of the fields of each group.          *)
Keys(n) == ToSet(TelemetryFields[n].keys)

DeviceKeys ==
  {"t", "temperature", "h", "humidity", "m", "motor", "f", "fan", "ht", "heater", "sp", "spare",
   "gprs", "gprsStatus", "id", "deviceId", "up", "uptime", "senFail", "sensorFailure", "tim",
   "timer", "mode", "ver", "firmwareVersion", "en", "systemEnabled", "systemStatus", "dehAct",
   "dehumidifierActive", "updatedAt"}

RelayKeys == {"po", "powerOn", "relaysOn", "relaysActive"}

ProgressKeys ==
  {"stg", "activeStage", "stageNumber", "dur", "stageDurationHours", "elap",
   "stageElapsedHours", "rem", "stageRemainingHours", "s", "stages", "lastTelemetryTimestamp",
   "prodDone", "productionCompleted"}

ThresholdKeys ==
  {"ftMin", "fanTempMin", "ftMax", "fanTempMax", "mhMin", "motorHumMin", "mhMax",
   "motorHumMax", "htMin", "heaterTempMin", "htMax", "heaterTempMax", "fon", "fanOnDuration",
   "foff", "fanOffDuration", "dehum", "dehumidifierHum"}

AirKeys ==
  {"co2", "co2Raw", "co2Pct", "co2st", "co2Status", "co2Warn", "nh3", "nh3Raw", "nh3Pct",
   "nh3Rs", "nh3Ratio", "nh3Warn", "tOff", "tempOffset", "hOff", "humOffset", "co2Off",
   "co2Offset", "nh3Off", "nh3Offset", "co2Set", "co2WarnPPM", "nh3Set", "nh3WarnPPM",
   "co2Min", "co2MinPct", "co2Max", "co2MaxPct", "nh3Min", "nh3MinPct", "nh3Max", "nh3MaxPct",
   "co2Ovr", "co2FanOverride", "nh3Ovr", "nh3FanOverride", "airOvr", "airOverride"}

KeysWithin(g, S) == \A n \in DOMAIN g : \A i \in DOMAIN g[n].keys : g[n].keys[i] \in S

LEMMA GroupKeys ==
  /\ KeysWithin(DeviceFields, DeviceKeys) /\ KeysWithin(RelayFields, RelayKeys)
  /\ KeysWithin(ProgressFields, ProgressKeys) /\ KeysWithin(ThresholdFields, ThresholdKeys)
  /\ KeysWithin(AirFields, AirKeys)
<1>1. KeysWithin(DeviceFields, DeviceKeys)
  BY DEF KeysWithin, DeviceFields, DeviceKeys, Aliases
<1>2. KeysWithin(RelayFields, RelayKeys)
  BY DEF KeysWithin, RelayFields, RelayKeys, Aliases
<1>3. KeysWithin(ProgressFields, ProgressKeys)
  BY DEF KeysWithin, ProgressFields, ProgressKeys, Aliases
<1>4. KeysWithin(ThresholdFields, ThresholdKeys)
  BY DEF KeysWithin, ThresholdFields, ThresholdKeys, Aliases
<1>5. KeysWithin(AirFields, AirKeys)
  BY DEF KeysWithin, AirFields, AirKeys, Aliases
<1> QED
  BY <1>1, <1>2, <1>3, <1>4, <1>5

LEMMA GroupsApart ==
  /\ \A k \in DeviceKeys : k \notin RelayKeys \cup ProgressKeys \cup ThresholdKeys \cup AirKeys
  /\ \A k \in RelayKeys : k \notin ProgressKeys \cup ThresholdKeys \cup AirKeys
  /\ \A k \in ProgressKeys : k \notin ThresholdKeys \cup AirKeys
  /\ \A k \in ThresholdKeys : k \notin AirKeys
<1>1. \A k \in DeviceKeys : k \notin RelayKeys \cup ProgressKeys
  BY DEF DeviceKeys, RelayKeys, ProgressKeys
<1>2. \A k \in DeviceKeys : k \notin ThresholdKeys
  BY DEF DeviceKeys, ThresholdKeys
<1>3. \A k \in DeviceKeys : k \notin AirKeys
  BY DEF DeviceKeys, AirKeys
<1>4. \A k \in RelayKeys : k \notin ProgressKeys \cup ThresholdKeys \cup AirKeys
  BY DEF RelayKeys, ProgressKeys, ThresholdKeys, AirKeys
<1>5. \A k \in ProgressKeys : k \notin ThresholdKeys
  BY DEF ProgressKeys, ThresholdKeys
<1>6. \A k \in ProgressKeys : k \notin AirKeys
  BY DEF ProgressKeys, AirKeys
<1>7. \A k \in ThresholdKeys : k \notin AirKeys
  BY DEF ThresholdKeys, AirKeys
<1> QED
  BY <1>1, <1>2, <1>3, <1>4, <1>5, <1>6, <1>7

Relays   == {"PowerOn", "RelaysOn", "RelaysActive"}
Counters == {"ActiveStage", "StageNumber"}

(* Two fields of a group have a key in common only if they are the same,   *)
(* or in the set S.                                                        *)
ApartBut(g, S) ==
  \A n \in DOMAIN g : \A m \in DOMAIN g :
    \A i \in DOMAIN g[n].keys : \A j \in DOMAIN g[m].keys :
      g[n].keys[i] = g[m].keys[j] => n = m \/ (n \in S /\ m \in S)

LEMMA FieldsApart ==
  /\ ApartBut(DeviceFields, {}) /\ ApartBut(RelayFields, Relays)
  /\ ApartBut(ProgressFields, Counters) /\ ApartBut(ThresholdFields, {})
  /\ ApartBut(AirFields, {})
<1>1. ApartBut(DeviceFields, {})
  BY SMTT(60) DEF ApartBut, DeviceFields, Aliases
<1>2. ApartBut(RelayFields, Relays)
  BY DEF ApartBut, RelayFields, Relays
<1>3. ApartBut(ProgressFields, Counters)
  BY SMTT(60) DEF ApartBut, ProgressFields, Counters, Aliases
<1>4. ApartBut(ThresholdFields, {})
  BY SMTT(60) DEF ApartBut, ThresholdFields, Aliases
<1>5. ApartBut(AirFields, {})
  BY SMTT(120) DEF ApartBut, AirFields, Aliases
<1> QED
  BY <1>1, <1>2, <1>3, <1>4, <1>5

LEMMA KeysApart ==
  ASSUME NEW n \in Fields, NEW m \in Fields, NEW k \in Keys(n) \cap Keys(m)
  PROVE  n = m \/ {n, m} \subseteq Relays \/ {n, m} \subseteq Counters
<1>1. \A x \in Fields : \E g \in FieldGroups : x \in DOMAIN g /\ TelemetryFields[x] = g[x]
  BY DEF Fields, TelemetryFields
<1>2. PICK g \in FieldGroups : n \in DOMAIN g /\ TelemetryFields[n] = g[n]
  BY <1>1
<1>3. PICK h \in FieldGroups : m \in DOMAIN h /\ TelemetryFields[m] = h[m]
  BY <1>1
<1>4. PICK i \in DOMAIN g[n].keys : g[n].keys[i] = k
  BY <1>2 DEF Keys, ToSet
<1>5. PICK j \in DOMAIN h[m].keys : h[m].keys[j] = k
  BY <1>3 DEF Keys, ToSet
<1>6. \A S : (KeysWithin(g, S) => k \in S) /\ (KeysWithin(h, S) => k \in S)
  BY <1>2, <1>3, <1>4, <1>5 DEF KeysWithin
<1>7. g = h
  BY <1>6, GroupKeys, GroupsApart DEF FieldGroups
<1>8. \A S : ApartBut(g, S) => n = m \/ {n, m} \subseteq S
  BY <1>2, <1>3, <1>4, <1>5, <1>7 DEF ApartBut
<1> QED
  BY <1>8, FieldsApart DEF FieldGroups

LEMMA SharedKeys ==
  /\ \A n \in Relays : Keys(n) \ {"po"} \subseteq FullKeys
  /\ \A n, m \in Counters : Keys(n) = Keys(m)
  /\ \A n \in Fields : Last(TelemetryFields[n].keys) \in Keys(n)
  /\ Keys("SystemEnabled") = {"en", "systemEnabled"}
<1>1. \A g \in FieldGroups : \A n \in DOMAIN g : Len(g[n].keys) \in DOMAIN g[n].keys
  <2>1. \A n \in DOMAIN DeviceFields : Len(DeviceFields[n].keys) \in DOMAIN DeviceFields[n].keys
    BY DEF DeviceFields, Aliases
  <2>2. \A n \in DOMAIN RelayFields : Len(RelayFields[n].keys) \in DOMAIN RelayFields[n].keys
    BY DEF RelayFields, Aliases
  <2>3. \A n \in DOMAIN ProgressFields :
          Len(ProgressFields[n].keys) \in DOMAIN ProgressFields[n].keys
    <3>1. DOMAIN ProgressFields =
            {"ActiveStage", "StageNumber", "StageDurationHours", "StageElapsedHours",
             "StageRemainingHours", "Stages", "LastTelemetryTimestamp",
             "ProductionCompleted"}
      BY DEF ProgressFields
    <3>2. /\ ProgressFields["ActiveStage"].keys = <<"stg", "activeStage", "stageNumber">>
          /\ ProgressFields["StageNumber"].keys = <<"stg", "stageNumber", "activeStage">>
          /\ ProgressFields["StageDurationHours"].keys = <<"dur", "stageDurationHours">>
          /\ ProgressFields["StageElapsedHours"].keys = <<"elap", "stageElapsedHours">>
      BY DEF ProgressFields, Aliases
    <3>3. /\ ProgressFields["StageRemainingHours"].keys = <<"rem", "stageRemainingHours">>
          /\ ProgressFields["Stages"].keys = <<"s", "stages">>
          /\ ProgressFields["LastTelemetryTimestamp"].keys = <<"lastTelemetryTimestamp">>
          /\ ProgressFields["ProductionCompleted"].keys =
               <<"prodDone", "productionCompleted">>
      BY DEF ProgressFields, Aliases
    <3>4. \A n \in {"ActiveStage", "StageNumber", "StageDurationHours",
                    "StageElapsedHours"} :
            Len(ProgressFields[n].keys) \in DOMAIN ProgressFields[n].keys
      BY <3>2
    <3>5. \A n \in {"StageRemainingHours", "Stages", "ProductionCompleted"} :
            Len(ProgressFields[n].keys) \in DOMAIN ProgressFields[n].keys
      BY <3>3
    <3>6. Len(ProgressFields["LastTelemetryTimestamp"].keys)
            \in DOMAIN ProgressFields["LastTelemetryTimestamp"].keys
      BY <3>3
    <3> QED
      BY <3>1, <3>4, <3>5, <3>6
  <2>4. \A n \in DOMAIN ThresholdFields :
          Len(ThresholdFields[n].keys) \in DOMAIN ThresholdFields[n].keys
    BY DEF ThresholdFields, Aliases
  <2>5. \A n \in DOMAIN AirFields : Len(AirFields[n].keys) \in DOMAIN AirFields[n].keys
    BY DEF AirFields, Aliases
  <2> QED
    BY <2>1, <2>2, <2>3, <2>4, <2>5 DEF FieldGroups
<1>2. \A n \in Fields : Last(TelemetryFields[n].keys) \in Keys(n)
  <2>1. \A n \in Fields : \E g \in FieldGroups : n \in DOMAIN g /\ TelemetryFields[n] = g[n]
    BY DEF Fields, TelemetryFields
  <2> QED
    BY <1>1, <2>1 DEF Keys, ToSet, Last
<1>3. /\ TelemetryFields["PowerOn"].keys = <<"po", "powerOn">>
      /\ TelemetryFields["RelaysOn"].keys = <<"relaysOn", "powerOn">>
      /\ TelemetryFields["RelaysActive"].keys = <<"relaysActive", "relaysOn", "powerOn">>
  BY NamedFields DEF Aliases
<1>4. \A n \in Relays : Keys(n) \ {"po"} \subseteq FullKeys
  <2>1. Last(TelemetryFields["PowerOn"].keys) = "powerOn"
    BY <1>3 DEF Last
  <2>2. {"powerOn", "relaysOn", "relaysActive"} \subseteq FullKeys
    BY <2>1, NamedFields DEF FullKeys, Fields
  <2>3. \A n \in Relays : Keys(n) \subseteq {"po", "powerOn", "relaysOn", "relaysActive"}
    BY <1>3 DEF Keys, ToSet, Relays
  <2> QED
    BY <2>2, <2>3
<1>5. /\ TelemetryFields["ActiveStage"].keys = <<"stg", "activeStage", "stageNumber">>
      /\ TelemetryFields["StageNumber"].keys = <<"stg", "stageNumber", "activeStage">>
      /\ TelemetryFields["SystemEnabled"].keys = <<"en", "systemEnabled">>
  BY NamedFields DEF Aliases
<1>6. \A n, m \in Counters : Keys(n) = Keys(m)
  BY <1>5 DEF Keys, ToSet, Counters
<1>7. Keys("SystemEnabled") = {"en", "systemEnabled"}
  BY <1>5 DEF Keys, ToSet
<1> QED
  BY <1>2, <1>4, <1>6, <1>7

(* A full key stands for a key in the fields that have the key, and in no  *)
(* others: but for po, of which powerOn says more.                         *)
LEMMA FullKeyStands ==
  ASSUME NEW n \in Fields, NEW k, k # "po"
  PROVE  FullKey(k) \in Keys(n) <=> k \in Keys(n)
<1>1. CASE k \in FullKeys \/ \A f \in Range(TelemetryFields) : k \notin ToSet(f.keys)
  BY <1>1 DEF FullKey
<1>2. CASE k \notin FullKeys /\ \E f \in Range(TelemetryFields) : k \in ToSet(f.keys)
  <2> DEFINE owner == CHOOSE f \in Range(TelemetryFields) : k \in ToSet(f.keys)
  <2>1. owner \in Range(TelemetryFields) /\ k \in ToSet(owner.keys)
    BY <1>2
  <2>2. FullKey(k) = Last(owner.keys)
    BY <1>2 DEF FullKey
  <2> HIDE DEF owner
  <2>3. PICK m \in Fields : owner = TelemetryFields[m]
    BY <2>1 DEF Range, Fields
  <2>4. k \in Keys(m) /\ FullKey(k) \in Keys(m)
    BY <2>1, <2>2, <2>3, SharedKeys DEF Keys
  <2>5. m \notin Relays
    BY <1>2, <2>4, SharedKeys
  <2>6. ASSUME NEW l \in Keys(n) \cap Keys(m)
        PROVE  Keys(n) = Keys(m)
    BY <2>5, KeysApart, SharedKeys
  <2> QED
    BY <2>4, <2>6
<1> QED
  BY <1>1, <1>2

LEMMA WidenedField ==
  ASSUME Widens, "po" \notin DOMAIN received, NEW n \in Fields
  PROVE  LET keys == TelemetryFields[n].keys
         IN  /\ Present(Widened, keys) = {} <=> Present(received, keys) = {}
             /\ Present(received, keys) # {} =>
                  PreferredField(Widened, keys) = PreferredField(received, keys)
             /\ PreferredKey(Widened, keys) <=> PreferredKey(received, keys)
<1> DEFINE keys == TelemetryFields[n].keys
           given == Keys(n) \cap DOMAIN received
           wide == Keys(n) \cap DOMAIN Widened
<1>1. DOMAIN keys \subseteq {1, 2, 3}
  BY FewKeys
<1>2. DOMAIN Widened = {FullKey(k) : k \in DOMAIN received}
  BY DEF Widened
<1>3. \A k \in DOMAIN received : FullKey(k) \in Keys(n) <=> k \in Keys(n)
  BY FullKeyStands
<1>4. wide = {FullKey(k) : k \in given}
  BY <1>2, <1>3
<1>5. given \subseteq FullKeys \/ \E k \in given : given = {k}
  BY DEF Widens, Fields, Keys, Range
<1>6. \A k \in FullKeys : FullKey(k) = k
  BY DEF FullKey
<1>7. \A k \in given : Widened[FullKey(k)] = received[k]
  <2> SUFFICES ASSUME NEW k \in given
               PROVE  Widened[FullKey(k)] = received[k]
    OBVIOUS
  <2> DEFINE j == CHOOSE j \in DOMAIN received : FullKey(j) = FullKey(k)
  <2>1. Widened[FullKey(k)] = received[j]
    BY <1>2 DEF Widened
  <2>2. j \in DOMAIN received /\ FullKey(j) = FullKey(k)
    OBVIOUS
  <2> HIDE DEF j
  <2>3. j \in given
    BY <1>3, <2>2
  <2>4. j = k
    BY <1>5, <1>6, <2>2, <2>3
  <2> QED
    BY <2>1, <2>4
<1>8. PreferredKey(Widened, keys) <=> PreferredKey(received, keys)
  BY <1>4 DEF PreferredKey, Keys
<1> HIDE DEF keys, given, wide
<1>9. \A i \in DOMAIN keys : keys[i] \in Keys(n)
  BY DEF keys, Keys, ToSet
<1>10. \A i \in DOMAIN keys : /\ keys[i] \in DOMAIN received <=> keys[i] \in given
                              /\ keys[i] \in DOMAIN Widened <=> keys[i] \in wide
  BY <1>9 DEF given, wide
<1>11. CASE given \subseteq FullKeys
  <2>1. wide = given /\ \A k \in given : Widened[k] = received[k]
    BY <1>4, <1>6, <1>7, <1>11
  <2>2. Present(Widened, keys) = Present(received, keys)
    BY <1>10, <2>1 DEF Present
  <2>3. ASSUME Present(received, keys) # {}
        PROVE  PreferredField(Widened, keys) = PreferredField(received, keys)
    <3>1. First(received, keys) \in Present(received, keys)
      BY <1>1, <2>3, FirstIsPresent
    <3>2. keys[First(received, keys)] \in given
      BY <1>10, <3>1 DEF Present
    <3>3. First(Widened, keys) = First(received, keys)
      BY <2>2 DEF First
    <3> QED
      BY <1>1, <2>1, <2>2, <2>3, <3>2, <3>3, FirstIsPresent
  <2> QED
    BY <1>8, <2>2, <2>3 DEF keys
<1>12. CASE \E k \in given : given = {k}
  <2>1. PICK k \in given : given = {k}
    BY <1>12
  <2>2. wide = {FullKey(k)} /\ Widened[FullKey(k)] = received[k]
    BY <1>4, <1>7, <2>1
  <2>3. /\ \A i \in Present(received, keys) : keys[i] = k
        /\ \A i \in Present(Widened, keys) : keys[i] = FullKey(k)
    BY <1>10, <2>1, <2>2 DEF Present
  <2>4. /\ \E i \in DOMAIN keys : keys[i] = k
        /\ \E i \in DOMAIN keys : keys[i] = FullKey(k)
    BY <2>1, <2>2 DEF given, wide, keys, Keys, ToSet
  <2>5. /\ Present(received, keys) # {} <=> Kind(received[k]) # "null"
        /\ Present(Widened, keys) # {} <=> Kind(received[k]) # "null"
    BY <1>10, <2>1, <2>2, <2>3, <2>4 DEF Present
  <2>6. ASSUME Present(received, keys) # {}
        PROVE  PreferredField(Widened, keys) = PreferredField(received, keys)
    BY <1>1, <2>2, <2>3, <2>5, <2>6, FirstIsPresent
  <2> QED
    BY <1>8, <2>5, <2>6 DEF keys
<1> QED
  BY <1>5, <1>11, <1>12

(* "UnmarshalJSON accepts both full-size firmware keys and compact         *)
(* firmware keys": for every payload without po, whatever it holds.        *)
THEOREM OldAndCompactInAgreement == Spec => []OldAndCompactAgreeButPo
<1>1. OldAndCompactAgreeButPo
  <2> SUFFICES ASSUME Widens, "po" \notin DOMAIN received
               PROVE  SameTelemetry(received, Widened)
    BY DEF OldAndCompactAgreeButPo
  <2>1. \A n \in Fields :
          /\ PlainFails(Widened, TelemetryFields[n]) <=> PlainFails(received, TelemetryFields[n])
          /\ PlainValue(Widened, TelemetryFields[n]) = PlainValue(received, TelemetryFields[n])
    BY WidenedField DEF PlainFails, PlainValue
  <2>2. StageObjects(Widened) = StageObjects(received)
    BY NamedFields, WidenedField DEF StageObjects
  <2>3. Fails(Widened) <=> Fails(received)
    BY <2>1, <2>2 DEF Fails, Fields
  <2>4. Decode(Widened) = Decode(received)
    BY <2>1, <2>2, StructFields DEF Decode, Fields, Struct
  <2>5. PreferredKey(Widened, <<"en", "systemEnabled">>)
          <=> PreferredKey(received, <<"en", "systemEnabled">>)
    BY NamedFields, WidenedField DEF Aliases
  <2>6. UnmarshalJSON(Widened) = UnmarshalJSON(received)
    BY <2>4, <2>5 DEF UnmarshalJSON
  <2> QED
    BY <2>3, <2>6 DEF SameTelemetry
<1> QED
  BY <1>1, PTL
=============================================================================
