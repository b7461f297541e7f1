------------------------ MODULE MCTelemetryPipeline ------------------------
(***************************************************************************)
(* TelemetryPipeline for TLC: clients that watch d1 (c3: d2), messages of  *)
(* d1 (m4: of d2).                                                         *)
(***************************************************************************)
EXTENDS TelemetryPipeline, TLC

CONSTANTS c1, c3, d1, d2, m1, m2, m4

MCDeviceOf == [c \in Clients |-> IF c = c3 THEN d2 ELSE d1]
MCTopicOf  == [m \in Broadcasts |-> IF m = m4 THEN d2 ELSE d1]

(* The messages of d1 differ in nothing.                                   *)
MCSymmetry == Permutations({m1, m2})
=============================================================================
