-------------------------- MODULE UserCache_proofs --------------------------
(***************************************************************************)
(* The user cache, for every number of requests, logins and updates: the   *)
(* variables keep their types, and a cached password that is out of date   *)
(* always has one of the three causes of CachedPasswordExplained.          *)
(***************************************************************************)
EXTENDS UserCache, TLAPS

(* What UpdateOne makes of a user is a user again, with the password of    *)
(* the call if it has one and the old one otherwise.                       *)
LEMMA UpdatedFacts ==
  ASSUME TypeOK, CacheAssumption, NEW u \in Updates, db # Gone
  PROVE  /\ Updated(u) \in Users
         /\ PasswordOf[u] = None => Updated(u).pass = db.pass
<1>1. db \in [name : Names, pass : Passwords]
  BY DEF TypeOK, Users
<1>2. NameOf[u] \in Names \cup {None} /\ PasswordOf[u] \in Passwords \cup {None}
  BY DEF CacheAssumption
<1>3. db.name \in Names /\ db.pass \in Passwords
  BY <1>1
<1>4. (IF NameOf[u] = None THEN db.name ELSE NameOf[u]) \in Names
  BY <1>2, <1>3
<1>5. (IF PasswordOf[u] = None THEN db.pass ELSE PasswordOf[u]) \in Passwords
  BY <1>2, <1>3
<1> QED
  BY <1>4, <1>5 DEF Updated, Users

(* A write of a user keeps the ghost of every request well typed.          *)
LEMMA WriteType ==
  ASSUME TypeOK, NEW user \in Users \cup {Gone}, Write(user), req' = req
  PROVE  /\ db' \in Users \cup {Gone}
         /\ span' \in [Requests -> SUBSET (Users \cup {Gone})]
  BY DEF TypeOK, Write

(* No step of a request puts anything but users into its variables and the *)
(* cache.                                                                  *)
LEMMA RequestType ==
  ASSUME TypeOK, CacheAssumption, NEW r \in Requests, RequestStep(r)
  PROVE  TypeOK'
<1>1. CASE GetHit(r)
  <2>1. cache \in Entry /\ cache.user \in Users
    BY <1>1 DEF GetHit, Fresh, TypeOK, Entry
  <2> QED
    BY <1>1, <2>1 DEF GetHit, TypeOK, RequestPhase, userVars
<1>2. CASE GetMiss(r)
  BY <1>2 DEF GetMiss, TypeOK, RequestPhase, userVars
<1>3. CASE FindUser(r)
  <2>1. db \in Users
    BY <1>3 DEF FindUser, TypeOK
  <2> QED
    BY <1>3, <2>1 DEF FindUser, TypeOK, RequestPhase, userVars
<1>4. CASE FindFails(r)
  BY <1>4 DEF FindFails, TypeOK, RequestPhase, userVars
<1>5. CASE SetUser(r)
  <2>1. got[r] \in Users
    BY <1>5 DEF SetUser, TypeOK
  <2>2. cache' \in Entry
    BY <1>5, <2>1 DEF SetUser, Entry
  <2> QED
    BY <1>5, <2>1, <2>2 DEF SetUser, TypeOK, RequestPhase, userVars
<1>6. CASE ValidateJWT(r)
  BY <1>6 DEF ValidateJWT, TypeOK, RequestPhase, userVars
<1>7. CASE Respond(r)
  BY <1>7 DEF Respond, TypeOK, RequestPhase, userVars
<1> QED
  BY <1>1, <1>2, <1>3, <1>4, <1>5, <1>6, <1>7 DEF RequestStep

(* The same of UpdateUser.                                                 *)
LEMMA UpdateType ==
  ASSUME TypeOK, CacheAssumption, NEW u \in Updates, CheckUser(u) \/ UpdateStep(u)
  PROVE  TypeOK'
<1>1. CASE CheckUser(u)
  BY <1>1 DEF CheckUser, TypeOK, UpdatePhase, reqVars, userVars
<1>2. CASE UpdateDocument(u)
  <2>1. Updated(u) \in Users
    BY <1>2, UpdatedFacts DEF UpdateDocument
  <2>2. /\ db' \in Users \cup {Gone}
        /\ span' \in [Requests -> SUBSET (Users \cup {Gone})]
    BY <1>2, <2>1, WriteType DEF UpdateDocument
  <2>3. call' \in [Updates -> UpdatePhase]
    BY <1>2 DEF UpdateDocument, TypeOK, UpdatePhase
  <2> QED
    BY <1>2, <2>2, <2>3 DEF UpdateDocument, TypeOK, userVars
<1>3. CASE UpdateFails(u)
  BY <1>3 DEF UpdateFails, TypeOK, UpdatePhase, reqVars, userVars
<1>4. CASE ClearUserCache(u)
  BY <1>4 DEF ClearUserCache, TypeOK, UpdatePhase, reqVars, userVars
<1> QED
  BY <1>1, <1>2, <1>3, <1>4 DEF UpdateStep

(* The variables of UserCache always hold values of their types.           *)
THEOREM CacheTypeCorrect == Spec => []TypeOK
<1> USE CacheAssumption
<1>1. Init => TypeOK
  BY DEF Init, TypeOK, CacheAssumption, RequestPhase, UpdatePhase
<1>2. TypeOK /\ [Next]_vars => TypeOK'
  <2> SUFFICES ASSUME TypeOK, [Next]_vars PROVE TypeOK'
    OBVIOUS
  <2>1. ASSUME NEW r \in Requests, RequestStep(r) PROVE TypeOK'
    BY <2>1, RequestType
  <2>2. ASSUME NEW r \in Requests, NEW t \in issued, StartRequest(r, t) PROVE TypeOK'
    <3>1. t \in Users
      BY DEF TypeOK
    <3> QED
      BY <2>2, <3>1 DEF StartRequest, TypeOK, RequestPhase, userVars
  <2>3. ASSUME NEW u \in Updates, CheckUser(u) \/ UpdateStep(u) PROVE TypeOK'
    BY <2>3, UpdateType
  <2>4. ASSUME NEW l \in Logins, FindLogin(l) PROVE TypeOK'
    BY <2>4 DEF FindLogin, TypeOK, reqVars
  <2>5. ASSUME NEW l \in Logins, EndLogin(l) PROVE TypeOK'
    BY <2>5 DEF EndLogin, TypeOK, reqVars
  <2>6. CASE EntryExpires
    <3>1. cache \in Entry
      BY <2>6 DEF EntryExpires, Fresh, TypeOK
    <3>2. cache' \in Entry
      BY <2>6, <3>1 DEF EntryExpires, Entry
    <3> QED
      BY <2>6, <3>2 DEF EntryExpires, TypeOK, reqVars, userVars
  <2>7. CASE DeleteUser
    BY <2>7, WriteType DEF DeleteUser, TypeOK, userVars
  <2>8. CASE UNCHANGED vars
    BY <2>8 DEF vars, TypeOK
  <2> QED
    BY <2>1, <2>2, <2>3, <2>4, <2>5, <2>6, <2>7, <2>8 DEF Next, Quiet
<1> QED
  BY <1>1, <1>2, PTL DEF Spec

(* The excuses for an out-of-date password outlive every step that leaves  *)
(* the document and the entry alone and ends no call that has written.     *)
LEMMA ExcusesLast ==
  ASSUME CachedPasswordExplained, db' = db, cache' = cache,
         \A u \in Updates : call[u] \in {"clear", "lost"} => call'[u] = call[u]
  PROVE  CachedPasswordExplained'
  BY DEF CachedPasswordExplained

(* A cached password that is out of date is about to be cleared, goes back *)
(* to an update that reported an error, or was out of date when cached.    *)
THEOREM StalePasswordExplained == Spec => []CachedPasswordExplained
<1> USE CacheAssumption
<1>1. Init => CachedPasswordExplained
  BY DEF Init, CachedPasswordExplained
<1>2. TypeOK /\ CachedPasswordExplained /\ [Next]_vars => CachedPasswordExplained'
  <2> SUFFICES ASSUME TypeOK, CachedPasswordExplained, [Next]_vars
               PROVE  CachedPasswordExplained'
    OBVIOUS
  <2>1. ASSUME NEW r \in Requests, RequestStep(r) PROVE CachedPasswordExplained'
    <3>1. CASE GetMiss(r)
      BY <3>1 DEF GetMiss, CachedPasswordExplained
    <3>2. CASE SetUser(r)
      BY <3>2 DEF SetUser, CachedPasswordExplained
    <3>3. CASE GetHit(r) \/ FindUser(r) \/ FindFails(r) \/ ValidateJWT(r) \/ Respond(r)
      BY <3>3, ExcusesLast DEF GetHit, FindUser, FindFails, ValidateJWT, Respond
    <3> QED
      BY <2>1, <3>1, <3>2, <3>3 DEF RequestStep
  <2>2. ASSUME NEW r \in Requests, NEW t \in issued, StartRequest(r, t)
        PROVE  CachedPasswordExplained'
    BY <2>2, ExcusesLast DEF StartRequest
  <2>3. ASSUME NEW u \in Updates, UpdateDocument(u) PROVE CachedPasswordExplained'
    <3>1. db' = Updated(u) /\ cache' = cache /\ db # Gone
      BY <2>3 DEF UpdateDocument, Write
    <3>2. call \in [Updates -> UpdatePhase]
      BY DEF TypeOK
    <3>3. CASE PasswordOf[u] = None
      <4>1. db'.pass = db.pass
        BY <3>1, <3>3, UpdatedFacts
      <4>2. \A v \in Updates : call[v] \in {"clear", "lost"} => call'[v] = call[v]
        BY <2>3, <3>2 DEF UpdateDocument
      <4> QED
        BY <3>1, <4>1, <4>2 DEF CachedPasswordExplained
    <3>4. CASE PasswordOf[u] # None
      <4>1. call'[u] \in {"clear", "lost"}
        BY <2>3, <3>2, <3>4 DEF UpdateDocument
      <4> QED
        BY <4>1 DEF CachedPasswordExplained
    <3> QED
      BY <3>3, <3>4
  <2>4. ASSUME NEW u \in Updates, CheckUser(u) \/ UpdateFails(u)
        PROVE  CachedPasswordExplained'
    <3>1. call \in [Updates -> UpdatePhase]
      BY DEF TypeOK
    <3>2. \A v \in Updates : call[v] \in {"clear", "lost"} => call'[v] = call[v]
      BY <2>4, <3>1 DEF CheckUser, UpdateFails
    <3> QED
      BY <2>4, <3>2, ExcusesLast DEF CheckUser, UpdateFails
  <2>5. ASSUME NEW u \in Updates, ClearUserCache(u) PROVE CachedPasswordExplained'
    BY <2>5 DEF ClearUserCache, CachedPasswordExplained
  <2>6. ASSUME NEW l \in Logins, FindLogin(l) \/ EndLogin(l) PROVE CachedPasswordExplained'
    BY <2>6, ExcusesLast DEF FindLogin, EndLogin
  <2>7. CASE EntryExpires
    <3>1. cache \in Entry
      BY <2>7 DEF EntryExpires, Fresh, TypeOK
    <3>2. cache'.user = cache.user /\ cache'.late = cache.late
      BY <2>7, <3>1 DEF EntryExpires, Entry
    <3>3. cache # None
      BY <2>7 DEF EntryExpires, Fresh
    <3> QED
      BY <2>7, <3>2, <3>3 DEF EntryExpires, CachedPasswordExplained
  <2>8. CASE DeleteUser
    BY <2>8 DEF DeleteUser, Write, CachedPasswordExplained
  <2>9. CASE UNCHANGED vars
    BY <2>9, ExcusesLast DEF vars
  <2> QED
    BY <2>1, <2>2, <2>3, <2>4, <2>5, <2>6, <2>7, <2>8, <2>9 DEF Next, UpdateStep, Quiet
<1> QED
  BY <1>1, <1>2, CacheTypeCorrect, PTL DEF Spec
=============================================================================
