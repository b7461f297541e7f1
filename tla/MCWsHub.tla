------------------------------ MODULE MCWsHub ------------------------------
(***************************************************************************)
(* WsHub for TLC: at most two clients, all watching one device.            *)
(***************************************************************************)
EXTENDS WsHub, TLC

CONSTANTS c1, c2, d1, b1, b2, b3, t1

MCDeviceOf == [c \in Clients |-> d1]
MCTopicOf  == [b \in Broadcasts |-> d1]

(* c1 and c2 differ in nothing, and neither do b1, b2, b3.                 *)
MCSymmetry == Permutations({c1, c2}) \cup Permutations({b1, b2, b3})
=============================================================================
