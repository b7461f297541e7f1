--------------------------- MODULE Notifications ---------------------------
(***************************************************************************)
(* A notification on its way from a device to the phones: the broker hands *)
(* it to NotificationHandler, sendNotification looks up a user of the      *)
(* device and sends to the user's Firebase token, and saveNotification     *)
(* records it, in a goroutine of its own (mqtt/mqtt.go).  Meanwhile users  *)
(* are created, changed, deleted and logged out (controller/user.go,       *)
(* service/user.go).  Composed with the MQTT session, which must be up and *)
(* subscribed for a notification to arrive.                                *)
(*                                                                         *)
(* Of a user only the device and the token count here; several users may   *)
(* have one device.  A call of the database that fails may have had its    *)
(* effect or not; either is a behaviour of the model.                      *)
(***************************************************************************)
EXTENDS MqttSession

CONSTANTS
  Notes,     \* the notifications that devices publish
  UserIds,   \* the users there can be
  Tokens,    \* Firebase tokens
  Unborn,    \* a user not yet created
  Gone       \* a user that has been deleted

ASSUME NoteAssumption ==
  /\ None \notin Devices \cup Tokens
  /\ Unborn # Gone

VARIABLES
  users,   \* users[u]: the document of the user, Unborn or Gone
  note,    \* note[n]: where the goroutine sendNotification stands
  row      \* row[n]: where the goroutine saveNotification stands: at its "start", in
           \* the call "insert", or after it

noteVars    == <<users, note, row>>
backendVars == <<sessionVars, noteVars>>

(* A user without a token has None.                                        *)
Docs == [device : Devices, token : Tokens \cup {None}]

Unsent == [at |-> "unsent", device |-> None, token |-> None, held |-> {}]

NoteInit ==
  /\ SessionInit
  /\ users = [u \in UserIds |-> Unborn]
  /\ note = [n \in Notes |-> Unsent]
  /\ row = [n \in Notes |-> "none"]

(* The users FindOne and UpdateOne can match with a filter on the device.  *)
UsersOf(d) == {u \in UserIds : users[u] \in Docs /\ users[u].device = d}

(* For the properties: the tokens the device's users have, and, noted as   *)
(* they change, those they have had since a notification arrived.          *)
TokensOf(us, d) == {us[u].token : u \in {v \in UserIds : us[v] \in Docs /\ us[v].device = d}}

Arrived(n) == note[n].at \notin {"unsent", "lost", "refused"}

ChangeUsers(us) ==
  /\ users' = us
  /\ note' = [n \in Notes |->
       IF Arrived(n) THEN [note[n] EXCEPT !.held = @ \cup TokensOf(us, note[n].device)]
       ELSE note[n]]
  /\ UNCHANGED <<row, sessionVars>>

-----------------------------------------------------------------------------
(* The users.                                                              *)

(* CreateUser inserts what it is given.                                    *)
CreateUser(u, doc) ==
  /\ users[u] = Unborn
  /\ ChangeUsers([users EXCEPT ![u] = doc])

(* UpdateOne sets the fields that are not empty in the request: a token    *)
(* can be replaced but not taken away.  Without a match nothing happens.   *)
Given(old, new) == IF new = None THEN old ELSE new

UpdateUser(u, d, t) ==
  /\ users[u] \in Docs
  /\ ChangeUsers([users EXCEPT ![u] = [device |-> Given(@.device, d),
                                       token  |-> Given(@.token, t)]])

DeleteUser(u) ==
  /\ users[u] \in Docs
  /\ ChangeUsers([users EXCEPT ![u] = Gone])

(* LogOut names the device, and empties the token of one of its users.     *)
LogOut(d) ==
  \E u \in UsersOf(d) : ChangeUsers([users EXCEPT ![u].token = None])

-----------------------------------------------------------------------------
(* The notification.                                                       *)

(* A device publishes; the client is connected and subscribed, or not, and *)
(* at QoS 0 the broker keeps nothing.  NotificationHandler refuses what    *)
(* does not parse or names no device, and starts both goroutines for the   *)
(* rest (sendNotification starts saveNotification before all else).        *)
NotificationHandler(n, d) ==
  /\ note[n].at = "unsent"
  /\ client = "up" /\ "/notification/+" \in subs
  /\ IF d = None
       THEN /\ note' = [note EXCEPT ![n].at = "refused"]
            /\ UNCHANGED row
       ELSE /\ note' = [note EXCEPT ![n] = [at |-> "lookup", device |-> d, token |-> None,
                                            held |-> TokensOf(users, d)]]
            /\ row' = [row EXCEPT ![n] = "start"]
  /\ UNCHANGED <<users, sessionVars>>

NotificationLost(n) ==
  /\ note[n].at = "unsent"
  /\ ~(client = "up" /\ "/notification/+" \in subs)
  /\ note' = [note EXCEPT ![n].at = "lost"]
  /\ UNCHANGED <<users, row, sessionVars>>

GetUserByAnyID(n) ==   \* slip: the filter on the device is left out
  /\ note[n].at = "lookup"
  /\ \E u \in UserIds :
       /\ users[u] \in Docs
       /\ note' = [note EXCEPT ![n].at = IF users[u].token = None THEN "done" ELSE "push",
                               ![n].token = users[u].token]
  /\ UNCHANGED <<users, row, sessionVars>>

GetUserWithoutToken(n) ==   \* slip: the token is not looked at before it is used
  /\ note[n].at = "lookup"
  /\ \E u \in UsersOf(note[n].device) :
       note' = [note EXCEPT ![n].at = "push", ![n].token = users[u].token]
  /\ UNCHANGED <<users, row, sessionVars>>

(* GetUserByDeviceID finds one of the users of the device; without a token *)
(* there is nobody to send to.                                             *)
GetUserByDeviceID(n) ==
  /\ note[n].at = "lookup"
  /\ \E u \in UsersOf(note[n].device) :
       note' = [note EXCEPT ![n].at = IF users[u].token = None THEN "done" ELSE "push",
                            ![n].token = users[u].token]
  /\ UNCHANGED <<users, row, sessionVars>>

(* It finds none, or the database fails.                                   *)
LookupFails(n) ==
  /\ note[n].at = "lookup"
  /\ note' = [note EXCEPT ![n].at = "done"]
  /\ UNCHANGED <<users, row, sessionVars>>

(* SendFirebaseNotification: Firebase sends to the token, or refuses.      *)
SendFirebaseNotification(n) ==
  /\ note[n].at = "push"
  /\ \E end \in {"pushed", "done"} : note' = [note EXCEPT ![n].at = end]
  /\ UNCHANGED <<users, row, sessionVars>>

SaveAfterPush(n) ==   \* slip: saved at the end, in place of go saveNotification
  /\ row[n] = "start"
  /\ note[n].at \in {"pushed", "done"}
  /\ row' = [row EXCEPT ![n] = "insert"]
  /\ UNCHANGED <<users, note, sessionVars>>

(* saveNotification calls InsertOne ...                                    *)
SaveNotification(n) ==
  /\ row[n] = "start"
  /\ row' = [row EXCEPT ![n] = "insert"]
  /\ UNCHANGED <<users, note, sessionVars>>

(* ... which succeeds or fails, or, without a deadline, never ends.        *)
InsertEnds(n) ==
  /\ row[n] = "insert"
  /\ \E end \in {"saved", "failed"} : row' = [row EXCEPT ![n] = end]
  /\ UNCHANGED <<users, note, sessionVars>>

(* The process stops: its goroutines are no more.                          *)
Stop ==
  /\ Restart
  /\ note' = [n \in Notes |-> IF note[n].at \in {"lookup", "push"}
                              THEN [note[n] EXCEPT !.at = "cut"] ELSE note[n]]
  /\ row' = [n \in Notes |-> IF row[n] \in {"start", "insert"} THEN "cut" ELSE row[n]]
  /\ UNCHANGED users

-----------------------------------------------------------------------------
NoteStep(n) ==
  \/ \E d \in Devices \cup {None} : NotificationHandler(n, d)
  \/ NotificationLost(n) \/ GetUserByDeviceID(n) \/ LookupFails(n)
  \/ SendFirebaseNotification(n) \/ SaveNotification(n) \/ InsertEnds(n)

UserStep ==
  \/ \E u \in UserIds : DeleteUser(u)
  \/ \E u \in UserIds, doc \in Docs : CreateUser(u, doc)
  \/ \E u \in UserIds, d \in Devices \cup {None}, t \in Tokens \cup {None} : UpdateUser(u, d, t)
  \/ \E d \in Devices : LogOut(d)

NoteNext ==
  \/ (LinkStep \/ CommandStep) /\ UNCHANGED noteVars
  \/ Stop
  \/ \E n \in Notes : NoteStep(n)
  \/ UserStep

(* A goroutine that can go on does.  Nothing is assumed of the database    *)
(* nor of Firebase: the look-up, the sending and the insertion have no     *)
(* deadline, and each may leave its goroutine waiting.                     *)
NoteFairness ==
  /\ SessionFairness
  /\ \A n \in Notes : WF_backendVars(SaveNotification(n))

NoteSpec == NoteInit /\ [][NoteNext]_backendVars /\ NoteFairness

-----------------------------------------------------------------------------
(* Properties.                                                             *)

(* The variables hold values of their types; a notification is recorded    *)
(* exactly if NotificationHandler has accepted it.                         *)
NoteTypeOK ==
  /\ users \in [UserIds -> Docs \cup {Unborn, Gone}]
  /\ \A n \in Notes :
       /\ note[n].at \in {"unsent", "lost", "refused", "lookup", "push", "pushed", "done", "cut"}
       /\ note[n].token \in Tokens \cup {None}
       /\ row[n] \in {"none", "start", "insert", "saved", "failed", "cut"}
       /\ Arrived(n) <=> row[n] # "none"
       /\ Arrived(n) => note[n].device \in Devices
       /\ note[n].at \in {"push", "pushed"} => note[n].token # None

(* A notification is sent to no token that none of the device's users has  *)
(* had since it arrived, however late its goroutine runs: a LogOut, a      *)
(* change or a deletion that returned before the arrival is honoured, one  *)
(* that comes later may be or not.                                         *)
PushedTokenWasHeld ==
  \A n \in Notes : note[n].at \in {"push", "pushed"} => note[n].token \in note[n].held

(* A notification that the handler accepts is recorded, or the failure is  *)
(* logged, if only InsertOne ends: nothing else is waited for, neither the *)
(* look-up nor Firebase, which may never answer, and only the end of the   *)
(* process comes in between.                                               *)
RecordedDespitePush ==
  \A n \in Notes :
    (row[n] = "insert" ~> row[n] # "insert")
      => (Arrived(n) ~> row[n] \in {"saved", "failed", "cut"})

=============================================================================
