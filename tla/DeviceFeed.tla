----------------------------- MODULE DeviceFeed -----------------------------
(***************************************************************************)
(* What the WebSocket hub promises, without channels, locks or goroutines: *)
(* a client is a member of its device's feed from the moment it joins      *)
(* until it leaves, once and for all; a published telemetry is owed to     *)
(* every member of the device; a publication is over only when no member   *)
(* is owed it any more.  A slow member may be made to leave, but never to  *)
(* miss a telemetry and stay.                                              *)
(***************************************************************************)
EXTENDS Naturals, Sequences

CONSTANTS
  Clients, Devices, DeviceOf, Publications, TopicOf,
  Snapshots    \* stored telemetries a client may be given

VARIABLES
  member,      \* member[c]: "new", "in" or "out"
  feed,        \* feed[c]: the messages given to c, oldest first
  call,        \* call[p]: "idle", "open" or "returned"
  owed         \* owed[p]: the members p still has to reach

feedVars == <<member, feed, call, owed>>

Members(d) == {c \in Clients : member[c] = "in" /\ DeviceOf[c] = d}

Init ==
  /\ member = [c \in Clients |-> "new"]
  /\ feed   = [c \in Clients |-> <<>>]
  /\ call   = [p \in Publications |-> "idle"]
  /\ owed   = [p \in Publications |-> {}]

Join(c) ==
  /\ member[c] = "new"
  /\ member' = [member EXCEPT ![c] = "in"]
  /\ UNCHANGED <<feed, call, owed>>

(* Nothing is owed to a client that has left, whatever made it leave.      *)
Leave(c) ==
  /\ member[c] = "in"
  /\ member' = [member EXCEPT ![c] = "out"]
  /\ owed' = [p \in Publications |-> owed[p] \ {c}]
  /\ UNCHANGED <<feed, call>>

GiveSnapshot(c, t) ==
  /\ member[c] = "in"
  /\ feed' = [feed EXCEPT ![c] = Append(@, <<"stored", t>>)]
  /\ UNCHANGED <<member, call, owed>>

Publish(p) ==
  /\ call[p] = "idle"
  /\ call' = [call EXCEPT ![p] = IF Members(TopicOf[p]) = {} THEN "returned"
                                                             ELSE "open"]
  /\ owed' = [owed EXCEPT ![p] = Members(TopicOf[p])]
  /\ UNCHANGED <<member, feed>>

Deliver(p, c) ==
  /\ c \in owed[p]
  /\ feed' = [feed EXCEPT ![c] = Append(@, <<"live", p>>)]
  /\ owed' = [owed EXCEPT ![p] = @ \ {c}]
  /\ UNCHANGED <<member, call>>

Return(p) ==
  /\ call[p] = "open"
  /\ owed[p] = {}
  /\ call' = [call EXCEPT ![p] = "returned"]
  /\ UNCHANGED <<member, feed, owed>>

Next ==
  \/ \E c \in Clients : Join(c) \/ Leave(c) \/ \E t \in Snapshots : GiveSnapshot(c, t)
  \/ \E p \in Publications : Publish(p) \/ Return(p) \/ \E c \in Clients : Deliver(p, c)

Spec == Init /\ [][Next]_feedVars
=============================================================================
