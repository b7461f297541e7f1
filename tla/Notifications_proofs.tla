------------------------ MODULE Notifications_proofs ------------------------
(***************************************************************************)
(* A notification is pushed to no token the device's users have not had    *)
(* since it arrived, for any number of users, devices, tokens and          *)
(* notifications, whatever becomes of the MQTT session.                    *)
(*                                                                         *)
(* What it rests on: the tokens a notification may meet at its look-up are *)
(* among those noted for it, from its arrival on, whoever changes a user.  *)
(* Of the session: every step here is a step of it or leaves it alone, so  *)
(* that what is proved of the session alone holds here as well.            *)
(***************************************************************************)
EXTENDS Notifications, MqttSession_proofs, TLAPS

UserState == Docs \cup {Unborn, Gone}

NoteState ==
  [at : {"unsent", "lost", "refused", "lookup", "push", "pushed", "done", "cut"},
   device : Devices \cup {None}, token : Tokens \cup {None}, held : SUBSET (Tokens \cup {None})]

RowState == {"none", "start", "insert", "saved", "failed", "cut"}

Typed ==
  /\ users \in [UserIds -> UserState]
  /\ note \in [Notes -> NoteState]
  /\ row \in [Notes -> RowState]

(* A notification is recorded exactly if it has been accepted, and is of a *)
(* device then.                                                            *)
Accepted ==
  \A n \in Notes :
    /\ Arrived(n) <=> row[n] # "none"
    /\ Arrived(n) => note[n].device \in Devices
    /\ note[n].at \in {"push", "pushed"} => note[n].token # None

(* What a look-up could find now has been noted.                           *)
HeldIsKept ==
  \A n \in Notes : Arrived(n) => TokensOf(users, note[n].device) \subseteq note[n].held

NoteInv == Typed /\ Accepted /\ HeldIsKept /\ PushedTokenWasHeld

-----------------------------------------------------------------------------
LEMMA NoteInitInv ==
  ASSUME NoteInit
  PROVE  NoteInv
<1>1. Unsent \in NoteState /\ Unsent.at = "unsent"
  BY DEF Unsent, NoteState
<1>2. Typed
  BY <1>1 DEF NoteInit, Typed, UserState, RowState
<1>3. \A n \in Notes : note[n].at = "unsent" /\ row[n] = "none"
  BY <1>1 DEF NoteInit
<1> QED
  BY <1>2, <1>3 DEF NoteInv, Accepted, HeldIsKept, PushedTokenWasHeld, Arrived

(* The tokens of a device are tokens, or None.                             *)
LEMMA TokensAreTokens ==
  ASSUME NEW us \in [UserIds -> UserState], NEW d
  PROVE  TokensOf(us, d) \subseteq Tokens \cup {None}
  BY DEF TokensOf, Docs

(* Whoever changes a user notes the tokens for all that have arrived.      *)
LEMMA ChangeKeeps ==
  ASSUME NoteInv, NEW us \in [UserIds -> UserState], ChangeUsers(us)
  PROVE  NoteInv'
<1> USE DEF NoteInv
<1> DEFINE tokens(n) == TokensOf(us, note[n].device)
           more(n) == [note[n] EXCEPT !.held = note[n].held \cup tokens(n)]
<1>1. users' = us /\ row' = row
  BY DEF ChangeUsers
<1>2. \A n \in Notes : note'[n] = IF Arrived(n) THEN more(n) ELSE note[n]
  BY DEF ChangeUsers
<1>3. \A n \in Notes :
        /\ more(n) \in NoteState /\ more(n).at = note[n].at /\ more(n).device = note[n].device
        /\ more(n).token = note[n].token /\ more(n).held = note[n].held \cup tokens(n)
  BY TokensAreTokens DEF Typed, NoteState
<1> HIDE DEF more
<1>4. note' \in [Notes -> NoteState]
  <2>1. note' = [n \in Notes |-> IF Arrived(n) THEN more(n) ELSE note[n]]
    BY DEF ChangeUsers, more
  <2> QED
    BY <1>3, <2>1 DEF Typed
<1>5. \A n \in Notes :
        /\ note'[n].at = note[n].at /\ note'[n].device = note[n].device
        /\ note'[n].token = note[n].token /\ note[n].held \subseteq note'[n].held
        /\ Arrived(n) => tokens(n) \subseteq note'[n].held
  BY <1>2, <1>3
<1>6. \A n \in Notes : Arrived(n)' <=> Arrived(n)
  BY <1>5 DEF Arrived
<1>7. Typed'
  BY <1>1, <1>4 DEF Typed
<1>8. Accepted'
  BY <1>1, <1>5, <1>6 DEF Accepted
<1>9. HeldIsKept'
  BY <1>1, <1>5, <1>6 DEF HeldIsKept
<1>10. PushedTokenWasHeld'
  BY <1>5 DEF PushedTokenWasHeld
<1> QED
  BY <1>7, <1>8, <1>9, <1>10

LEMMA UserKeeps ==
  ASSUME NoteInv, UserStep
  PROVE  NoteInv'
<1> USE DEF NoteInv
<1>1. ASSUME NEW u \in UserIds, NEW s \in UserState, ChangeUsers([users EXCEPT ![u] = s])
      PROVE  NoteInv'
  BY <1>1, ChangeKeeps DEF Typed
<1>2. ASSUME NEW u \in UserIds, DeleteUser(u)
      PROVE  NoteInv'
  BY <1>1, <1>2 DEF DeleteUser, UserState
<1>3. ASSUME NEW u \in UserIds, NEW doc \in Docs, CreateUser(u, doc)
      PROVE  NoteInv'
  BY <1>1, <1>3 DEF CreateUser, UserState
<1>4. ASSUME NEW u \in UserIds, NEW d \in Devices \cup {None}, NEW t \in Tokens \cup {None},
             UpdateUser(u, d, t)
      PROVE  NoteInv'
  <2> DEFINE new == [device |-> Given(users[u].device, d), token |-> Given(users[u].token, t)]
  <2>1. users[u] \in Docs /\ ChangeUsers([users EXCEPT ![u] = new])
    BY <1>4 DEF UpdateUser, Typed
  <2>2. new \in Docs
    BY <2>1 DEF Given, Docs
  <2> HIDE DEF new
  <2> QED
    BY <1>1, <2>1, <2>2 DEF UserState
<1>5. ASSUME NEW d \in Devices, LogOut(d)
      PROVE  NoteInv'
  <2>1. PICK u \in UsersOf(d) : ChangeUsers([users EXCEPT ![u].token = None])
    BY <1>5 DEF LogOut
  <2> DEFINE new == [users[u] EXCEPT !.token = None]
  <2>2. u \in UserIds /\ users[u] \in Docs
    BY DEF UsersOf
  <2>3. new \in Docs
    BY <2>2 DEF Docs
  <2>4. ChangeUsers([users EXCEPT ![u] = new])
    BY <2>1
  <2> HIDE DEF new
  <2> QED
    BY <1>1, <2>2, <2>3, <2>4 DEF UserState
<1> QED
  BY <1>2, <1>3, <1>4, <1>5 DEF UserStep

-----------------------------------------------------------------------------
(* A step of one notification keeps what is noted for the others.          *)
LEMMA OneNoteKeeps ==
  ASSUME NoteInv, NEW n \in Notes, NEW new \in NoteState, NEW end \in RowState,
         users' = users,
         note' = [note EXCEPT ![n] = new], row' = [row EXCEPT ![n] = end],
         LET arrived == new.at \notin {"unsent", "lost", "refused"}
         IN  /\ arrived <=> end # "none"
             /\ arrived => /\ new.device \in Devices
                           /\ TokensOf(users, new.device) \subseteq new.held,
         new.at \in {"push", "pushed"} => new.token # None /\ new.token \in new.held
  PROVE  NoteInv'
<1> USE DEF NoteInv
<1>1. /\ note'[n] = new /\ row'[n] = end
      /\ \A m \in Notes \ {n} : note'[m] = note[m] /\ row'[m] = row[m]
  BY DEF Typed
<1>2. Typed'
  BY DEF Typed
<1>3. \A m \in Notes \ {n} : Arrived(m)' <=> Arrived(m)
  BY <1>1 DEF Arrived
<1>4. Arrived(n)' <=> new.at \notin {"unsent", "lost", "refused"}
  BY <1>1 DEF Arrived
<1>5. Accepted'
  BY <1>1, <1>3, <1>4 DEF Accepted
<1>6. HeldIsKept'
  BY <1>1, <1>3, <1>4 DEF HeldIsKept
<1>7. PushedTokenWasHeld'
  BY <1>1 DEF PushedTokenWasHeld
<1> QED
  BY <1>2, <1>5, <1>6, <1>7

(* A look-up and its end: only where the notification stands changes, and  *)
(* the token it has found.                                                 *)
LEMMA LookupKeeps ==
  ASSUME NoteInv, NEW n \in Notes, NEW at \in {"push", "pushed", "done"},
         NEW token \in Tokens \cup {None},
         note[n].at \in {"lookup", "push"}, UNCHANGED <<users, row>>,
         note' = [note EXCEPT ![n].at = at, ![n].token = token],
         at \in {"push", "pushed"} => token # None /\ token \in note[n].held
  PROVE  NoteInv'
<1> USE DEF NoteInv
<1> DEFINE new == [note[n] EXCEPT !.at = at, !.token = token]
<1>1. note' = [note EXCEPT ![n] = new] /\ row' = [row EXCEPT ![n] = row[n]]
  BY DEF Typed
<1>2. /\ new \in NoteState /\ new.at = at /\ new.token = token
      /\ new.device = note[n].device /\ new.held = note[n].held
  BY DEF Typed, NoteState
<1>3. Arrived(n) /\ row[n] # "none" /\ row[n] \in RowState
  BY DEF Arrived, Accepted, Typed
<1>4. /\ note[n].device \in Devices
      /\ TokensOf(users, note[n].device) \subseteq note[n].held
  BY <1>3 DEF Accepted, HeldIsKept
<1>5. /\ new.at \notin {"unsent", "lost", "refused"}
      /\ new.at \in {"push", "pushed"} => new.token # None /\ new.token \in new.held
      /\ TokensOf(users, new.device) \subseteq new.held /\ users' = users
  BY <1>2, <1>4
<1> DEFINE end == row[n]
<1>6. /\ end \in RowState /\ end # "none" /\ row' = [row EXCEPT ![n] = end]
      /\ new.device \in Devices
  BY <1>1, <1>2, <1>3, <1>4
<1> HIDE DEF new, end
<1> QED
  BY <1>1, <1>2, <1>5, <1>6, OneNoteKeeps

LEMMA NoteStepKeeps ==
  ASSUME NoteInv, NEW n \in Notes, NoteStep(n)
  PROVE  NoteInv'
<1> USE DEF NoteInv
<1>0. note[n] \in NoteState /\ row[n] \in RowState
  BY DEF Typed
<1>1. ASSUME NEW d \in Devices \cup {None}, NotificationHandler(n, d), d # None
      PROVE  NoteInv'
  <2> DEFINE new == [at |-> "lookup", device |-> d, token |-> None, held |-> TokensOf(users, d)]
  <2>1. TokensOf(users, d) \subseteq Tokens \cup {None}
    BY TokensAreTokens DEF Typed
  <2>2. /\ new \in NoteState /\ new.at = "lookup" /\ new.device = d
        /\ new.held = TokensOf(users, d)
    BY <2>1 DEF NoteState
  <2>3. note' = [note EXCEPT ![n] = new] /\ row' = [row EXCEPT ![n] = "start"] /\ users' = users
    BY <1>1 DEF NotificationHandler
  <2> HIDE DEF new
  <2> QED
    BY <1>1, <2>2, <2>3, OneNoteKeeps DEF RowState
<1>2. ASSUME \/ NotificationHandler(n, None)
             \/ NotificationLost(n)
      PROVE  NoteInv'
  <2> DEFINE turned == [note[n] EXCEPT !.at = "refused"]
             lost == [note[n] EXCEPT !.at = "lost"]
  <2>1. /\ turned \in NoteState /\ turned.at = "refused"
        /\ lost \in NoteState /\ lost.at = "lost"
    BY <1>0 DEF NoteState
  <2>2. /\ note[n].at = "unsent" /\ users' = users /\ row' = row
        /\ note' = [note EXCEPT ![n] = turned] \/ note' = [note EXCEPT ![n] = lost]
    BY <1>2 DEF NotificationHandler, NotificationLost
  <2>3. row' = [row EXCEPT ![n] = row[n]] /\ row[n] = "none"
    BY <2>2 DEF Typed, Accepted, Arrived
  <2> HIDE DEF turned, lost
  <2> QED
    BY <1>0, <2>1, <2>2, <2>3, OneNoteKeeps
<1>3. ASSUME GetUserByDeviceID(n)
      PROVE  NoteInv'
  <2>1. PICK u \in UsersOf(note[n].device) :
          note' = [note EXCEPT ![n].at = IF users[u].token = None THEN "done" ELSE "push",
                               ![n].token = users[u].token]
    BY <1>3 DEF GetUserByDeviceID
  <2>2. note[n].at = "lookup" /\ UNCHANGED <<users, row>>
    BY <1>3 DEF GetUserByDeviceID
  <2>3. users[u].token \in TokensOf(users, note[n].device) /\ users[u].token \in Tokens \cup {None}
    BY DEF UsersOf, TokensOf, Docs
  <2>4. users[u].token \in note[n].held
    BY <2>2, <2>3 DEF HeldIsKept, Arrived
  <2> DEFINE at == IF users[u].token = None THEN "done" ELSE "push"
  <2>5. at \in {"push", "pushed", "done"} /\ (at \in {"push", "pushed"} => users[u].token # None)
    OBVIOUS
  <2>6. note' = [note EXCEPT ![n].at = at, ![n].token = users[u].token]
    BY <2>1
  <2> HIDE DEF at
  <2> QED
    BY <2>2, <2>3, <2>4, <2>5, <2>6, LookupKeeps
<1>4. ASSUME LookupFails(n) \/ SendFirebaseNotification(n)
      PROVE  NoteInv'
  <2>1. PICK at \in {"pushed", "done"} :
          note' = [note EXCEPT ![n].at = at] /\ (at = "pushed" => note[n].at = "push")
    BY <1>4 DEF LookupFails, SendFirebaseNotification
  <2>2. note[n].at \in {"lookup", "push"} /\ UNCHANGED <<users, row>>
    BY <1>4 DEF LookupFails, SendFirebaseNotification
  <2>3. note' = [note EXCEPT ![n].at = at, ![n].token = note[n].token]
    BY <1>0, <2>1 DEF Typed, NoteState
  <2>4. note[n].token \in Tokens \cup {None}
    BY <1>0 DEF NoteState
  <2>5. at = "pushed" => note[n].token # None /\ note[n].token \in note[n].held
    BY <2>1 DEF Accepted, PushedTokenWasHeld
  <2> QED
    BY <2>2, <2>3, <2>4, <2>5, LookupKeeps
<1>5. ASSUME SaveNotification(n) \/ InsertEnds(n)
      PROVE  NoteInv'
  <2>1. PICK end \in {"insert", "saved", "failed"} : row' = [row EXCEPT ![n] = end]
    BY <1>5 DEF SaveNotification, InsertEnds
  <2>2. row[n] # "none" /\ users' = users /\ note' = [note EXCEPT ![n] = note[n]]
    BY <1>5 DEF SaveNotification, InsertEnds, Typed
  <2>3. Arrived(n)
    BY <2>2 DEF Accepted
  <2> QED
    BY <1>0, <2>1, <2>2, <2>3, OneNoteKeeps DEF Accepted, HeldIsKept, PushedTokenWasHeld, Arrived, RowState
<1> QED
  BY <1>1, <1>2, <1>3, <1>4, <1>5 DEF NoteStep

(* A restart pushes nothing.                                               *)
LEMMA StopKeeps ==
  ASSUME NoteInv, Stop
  PROVE  NoteInv'
<1> USE DEF NoteInv
<1> DEFINE cut(n) == [note[n] EXCEPT !.at = "cut"]
<1>1. \A n \in Notes :
        /\ cut(n) \in NoteState /\ cut(n).at = "cut" /\ cut(n).device = note[n].device
        /\ cut(n).held = note[n].held
  BY DEF Typed, NoteState
<1>2. /\ note' = [n \in Notes |-> IF note[n].at \in {"lookup", "push"} THEN cut(n) ELSE note[n]]
      /\ row' = [n \in Notes |-> IF row[n] \in {"start", "insert"} THEN "cut" ELSE row[n]]
      /\ users' = users
  BY DEF Stop
<1> HIDE DEF cut
<1>3. \A n \in Notes :
        /\ note'[n] = note[n] \/ (note[n].at \in {"lookup", "push"} /\ note'[n] = cut(n))
        /\ row'[n] # "none" <=> row[n] # "none"
  BY <1>2
<1>4. \A n \in Notes :
        /\ note'[n].device = note[n].device /\ note'[n].held = note[n].held
        /\ note'[n] = note[n] \/ note'[n].at = "cut"
        /\ Arrived(n)' <=> Arrived(n)
  BY <1>1, <1>3 DEF Arrived
<1>5. Typed'
  BY <1>1, <1>2 DEF Typed, RowState
<1>6. Accepted'
  BY <1>3, <1>4 DEF Accepted
<1>7. HeldIsKept'
  BY <1>2, <1>4 DEF HeldIsKept
<1>8. PushedTokenWasHeld'
  BY <1>4 DEF PushedTokenWasHeld
<1> QED
  BY <1>5, <1>6, <1>7, <1>8

LEMMA NoteNextInv ==
  ASSUME NoteInv, [NoteNext]_backendVars
  PROVE  NoteInv'
<1>1. ASSUME UNCHANGED noteVars
      PROVE  NoteInv'
  BY <1>1 DEF noteVars, NoteInv, Typed, Accepted, HeldIsKept, PushedTokenWasHeld, Arrived,
       TokensOf
<1>2. ASSUME UNCHANGED backendVars
      PROVE  NoteInv'
  BY <1>1, <1>2 DEF backendVars
<1> QED
  BY <1>1, <1>2, NoteStepKeeps, UserKeeps, StopKeeps DEF NoteNext

LEMMA NoteCorrect == NoteSpec => []NoteInv
  BY NoteInitInv, NoteNextInv, PTL DEF NoteSpec

-----------------------------------------------------------------------------
(* The variables keep their types, and a notification is recorded exactly  *)
(* if it has been accepted.                                                *)
THEOREM NoteTypeCorrect == NoteSpec => []NoteTypeOK
<1>1. NoteInv => NoteTypeOK
  BY DEF NoteInv, Typed, Accepted, NoteTypeOK, UserState, NoteState, RowState
<1> QED
  BY <1>1, NoteCorrect, PTL

(* A notification is sent to no token that the device's users have not had *)
(* since it arrived, however late its goroutine runs.                      *)
THEOREM PushedToHolders == NoteSpec => []PushedTokenWasHeld
  BY NoteCorrect, PTL DEF NoteInv

-----------------------------------------------------------------------------
(* Notifications leave the session to itself: each step, the end of the    *)
(* process among them, is one of the session or leaves it alone.           *)
LEMMA NoteStepIsSessionStep ==
  ASSUME [NoteNext]_backendVars
  PROVE  [SessionNext]_sessionVars
<1>1. CASE (LinkStep \/ CommandStep) /\ UNCHANGED noteVars
  BY <1>1 DEF SessionNext
<1>2. CASE Stop
  BY <1>2 DEF Stop, SessionNext
<1>3. ASSUME NEW n \in Notes, NoteStep(n)
      PROVE  UNCHANGED sessionVars
  BY <1>3 DEF NoteStep, NotificationHandler, NotificationLost, GetUserByDeviceID, LookupFails,
       SendFirebaseNotification, SaveNotification, InsertEnds
<1>4. CASE UserStep
  BY <1>4 DEF UserStep, DeleteUser, CreateUser, UpdateUser, LogOut, ChangeUsers
<1>5. CASE UNCHANGED backendVars
  BY <1>5 DEF backendVars
<1> QED
  BY <1>1, <1>2, <1>3, <1>4, <1>5 DEF NoteNext

(* With notifications on their way and users changing, the session is      *)
(* still the one of MqttSession.                                           *)
THEOREM SessionUnderNotes == NoteSpec => SessionSteps
<1>1. NoteInit => SessionInit
  BY DEF NoteInit
<1>2. [NoteNext]_backendVars => [SessionNext]_sessionVars
  BY NoteStepIsSessionStep
<1> QED
  BY <1>1, <1>2, PTL DEF NoteSpec, SessionSteps

(* So its commands are in order there too, delivered over a connection     *)
(* that stands, and two requests for one device do not leave it with the   *)
(* mode of one and the stage of the other.                                 *)
THEOREM CommandsUnderNotes ==
  NoteSpec => [](SessionTypeOK /\ SteadyConnectionDelivers /\ SwitchesSerialise)
  BY SessionUnderNotes, SessionTypeCorrect, SteadyDelivery, MixedRequestsSerialise, PTL
=============================================================================
