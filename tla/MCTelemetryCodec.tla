-------------------------- MODULE MCTelemetryCodec --------------------------
(***************************************************************************)
(* TelemetryCodec for TLC: objects with keys of one field and of the       *)
(* fields it shares keys with, holding every kind of value, next to the    *)
(* device ID that every accepted payload has.                              *)
(***************************************************************************)
EXTENDS TelemetryCodec

(* The spellings that occur, folded by hand.                               *)
MCFold(s) ==
  CASE s = " on" -> "ON" [] s = "online" -> "ONLINE" [] s = "a" -> "A"
    [] OTHER -> s

Int1    == <<"int", "1">>
Float   == <<"float", "2.5">>
Word    == <<"string", "x">>
Empty   == <<"string", "">>
True    == <<"bool", "true">>
Logical == {True, <<"bool", "false">>, Int1, <<"int", "0">>}
Spelled == {<<"string", w>> : w \in {" on", "online", "a", "0"}}

(* All objects over some of the keys in the sequence K with values in V.   *)
Objects(K, V) == UNION {[D -> V] : D \in SUBSET ToSet(K)}

(* What is tried as the value of a field of a type.                        *)
Tried ==
  [ float |-> {Int1, Float, Word, Null}, int |-> {Int1, Float, Word, Null},
    string |-> Spelled \cup {Word, Int1, Null}, time |-> {<<"time", "noon">>, Word, Null},
    text |-> Spelled \cup {Word, Int1, Float, True, Null}, bool |-> Logical \cup {Float, Word, Null},
    array |-> {Float, Null} ]

Plain == UNION {Objects(f.keys, Tried[f.type]) : f \in Range(TelemetryFields) \ {TelemetryFields.DeviceID}}

Relays == Objects(<<"po", "powerOn", "relaysOn", "relaysActive">>,
                  {Int1, <<"int", "0">>, Word, Null})
Status == Objects(<<"en", "systemEnabled", "systemStatus">>,
                  Logical \cup Spelled \cup {Empty, Null})
Stages == UNION {Objects(f.keys, {Int1, Float, Null}) : f \in Range(StageFields)}

MCPayloads ==
  {o @@ ("id" :> <<"string", "dev">>) :
     o \in Plain \cup Relays \cup Status \cup {("s" :> <<"array", <<o>> >>) : o \in Stages}}
    \cup Objects(<<"id", "deviceId">>, {Word, Empty, Int1, Null})

(* No document yet, and one that an earlier message has left.              *)
MCEarlier == {<<>>, [k \in Range(Tags) |-> IF k = "stages" THEN <<>> ELSE "earlier"]}
=============================================================================
