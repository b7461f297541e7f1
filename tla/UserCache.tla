----------------------------- MODULE UserCache -----------------------------
(***************************************************************************)
(* One user of the collection users, the entry of authUserCache for it,    *)
(* and all that touches either: requests going through JWTMiddleware       *)
(* (utils/auth.go), Login, UpdateUser and DeleteUser (service/user.go).    *)
(*                                                                         *)
(* A token is made from the username and, as part of the secret it is      *)
(* signed with, the password of a user: ValidateJWT compares both with     *)
(* those of the user it is given, so a token is named by that user.        *)
(* The cache is locked call by call; between two calls, and around every   *)
(* call of the database, the goroutines interleave.                        *)
(***************************************************************************)
EXTENDS Naturals

CONSTANTS
  Names, Passwords,
  FirstUser,   \* the user as it was created
  Requests,    \* slots for requests that carry a token of this user
  Logins,      \* slots for calls of Login
  Updates,     \* calls of UpdateUser
  NameOf,      \* NameOf[u]: the username in call u, None when it has none
  PasswordOf,  \* PasswordOf[u]: likewise the password
  None,        \* no value
  Gone         \* no document in the collection

Users == [name : Names, pass : Passwords]

ASSUME CacheAssumption ==
  /\ FirstUser \in Users
  /\ NameOf \in [Updates -> Names \cup {None}]
  /\ PasswordOf \in [Updates -> Passwords \cup {None}]
  /\ None \notin Names \cup Passwords \cup Users \cup {Gone}
  /\ Gone \notin Users

VARIABLES
  db,      \* the document of the user, or Gone
  cache,   \* the entry of the cache, or None
  req,     \* req[r]: where JWTMiddleware stands
  tok,     \* tok[r]: the token of the request
  got,     \* got[r]: the user that Get or FindOne returned
  span,    \* span[r], for the properties: the users a verdict may go by
  call,    \* call[u]: where UpdateUser stands
  login,   \* login[l]: the user that Login has found, or None
  issued   \* the tokens GenerateJWT has made

vars == <<db, cache, req, tok, got, span, call, login, issued>>

reqVars  == <<req, tok, got, span>>
userVars == <<login, issued>>

RequestPhase == {"idle", "get", "find", "set", "validate", "passed", "refused", "unavailable"}
UpdatePhase  == {"idle", "update", "clear", "returned", "failed", "lost"}

(* An entry: the user, whether its hour has yet to pass, and, for the      *)
(* properties, whether its password was out of date when it was made.      *)
Entry == [user : Users, fresh : BOOLEAN, late : BOOLEAN]

Fresh == cache # None /\ cache.fresh

Init ==
  /\ db = FirstUser
  /\ cache = None
  /\ req    = [r \in Requests |-> "idle"]
  /\ tok    = [r \in Requests |-> None]
  /\ got    = [r \in Requests |-> None]
  /\ span   = [r \in Requests |-> {}]
  /\ call   = [u \in Updates |-> "idle"]
  /\ login  = [l \in Logins |-> None]
  /\ issued = {}

-----------------------------------------------------------------------------
(* JWTMiddleware.                                                          *)

(* A request with a token that parses and names the user.  Its verdict may *)
(* go by what db is from now on, and by any user as long as a call of      *)
(* UpdateUser has changed the document and not returned without an error.  *)
StartRequest(r, t) ==
  /\ req[r] = "idle"
  /\ req' = [req EXCEPT ![r] = "get"]
  /\ tok' = [tok EXCEPT ![r] = t]
  /\ span' = [span EXCEPT ![r] = {db} \cup {user \in Users :
                                   \E u \in Updates : call[u] \in {"clear", "lost"}}]
  /\ UNCHANGED <<db, cache, got, call, userVars>>

GetExpiredToo(r) ==   \* slip: ExpiresAt is not looked at
  /\ req[r] = "get"
  /\ cache # None
  /\ got' = [got EXCEPT ![r] = cache.user]
  /\ req' = [req EXCEPT ![r] = "validate"]
  /\ UNCHANGED <<db, cache, tok, span, call, userVars>>

(* userCache.Get finds an entry ...                                        *)
GetHit(r) ==
  /\ req[r] = "get"
  /\ Fresh
  /\ got' = [got EXCEPT ![r] = cache.user]
  /\ req' = [req EXCEPT ![r] = "validate"]
  /\ UNCHANGED <<db, cache, tok, span, call, userVars>>

(* ... or none, deleting one whose hour has passed.                        *)
GetMiss(r) ==
  /\ req[r] = "get"
  /\ ~Fresh
  /\ cache' = None
  /\ req' = [req EXCEPT ![r] = "find"]
  /\ UNCHANGED <<db, tok, got, span, call, userVars>>

FindUserUnchecked(r) ==   \* slip: the error of FindOne is not looked at
  /\ req[r] = "find"
  /\ got' = [got EXCEPT ![r] = db]
  /\ req' = [req EXCEPT ![r] = "set"]
  /\ UNCHANGED <<db, cache, tok, span, call, userVars>>

FindUser(r) ==
  /\ req[r] = "find"
  /\ db # Gone
  /\ got' = [got EXCEPT ![r] = db]
  /\ req' = [req EXCEPT ![r] = "set"]
  /\ UNCHANGED <<db, cache, tok, span, call, userVars>>

(* FindOne returns an error: the request is unauthorized, be it that there *)
(* is no document or that the database did not answer.                     *)
FindFails(r) ==
  /\ req[r] = "find"
  /\ \/ db = Gone /\ req' = [req EXCEPT ![r] = "refused"]
     \/ req' = [req EXCEPT ![r] = "unavailable"]
  /\ UNCHANGED <<db, cache, tok, got, span, call, userVars>>

(* userCache.Set: whatever happened to the user since FindOne.             *)
SetUser(r) ==
  /\ req[r] = "set"
  /\ cache' = [user |-> got[r], fresh |-> TRUE,
               late |-> db = Gone \/ db.pass # got[r].pass]
  /\ req' = [req EXCEPT ![r] = "validate"]
  /\ UNCHANGED <<db, tok, got, span, call, userVars>>

ValidateJWT(r) ==
  /\ req[r] = "validate"
  /\ req' = [req EXCEPT ![r] = IF tok[r] = got[r] THEN "passed" ELSE "refused"]
  /\ UNCHANGED <<db, cache, tok, got, span, call, userVars>>

Respond(r) ==
  /\ req[r] \in {"passed", "refused", "unavailable"}
  /\ req' = [req EXCEPT ![r] = "idle"]
  /\ tok' = [tok EXCEPT ![r] = None]
  /\ got' = [got EXCEPT ![r] = None]
  /\ span' = [span EXCEPT ![r] = {}]
  /\ UNCHANGED <<db, cache, call, userVars>>

(* An hour after Set.                                                      *)
EntryExpires ==
  /\ Fresh
  /\ cache' = [cache EXCEPT !.fresh = FALSE]
  /\ UNCHANGED <<db, reqVars, call, userVars>>

-----------------------------------------------------------------------------
(* UpdateUser, DeleteUser, Login.                                          *)

(* The document changes: every request under way sees both.                *)
Write(user) ==
  /\ db' = user
  /\ span' = [r \in Requests |-> IF req[r] = "idle" THEN {} ELSE span[r] \cup {user}]

(* CheckIfExistsByID: only ErrNoDocuments means no, other errors yes.      *)
CheckUser(u) ==
  /\ call[u] = "idle"
  /\ \/ db = Gone /\ call' = [call EXCEPT ![u] = "failed"]
     \/ call' = [call EXCEPT ![u] = "update"]
  /\ UNCHANGED <<db, cache, reqVars, userVars>>

Updated(u) ==
  [name |-> IF NameOf[u] = None THEN db.name ELSE NameOf[u],
   pass |-> IF PasswordOf[u] = None THEN db.pass ELSE PasswordOf[u]]

UpdateUncleared(u) ==   \* slip: the cache is not cleared
  /\ call[u] = "update"
  /\ db # Gone
  /\ Write(Updated(u))
  /\ \E end \in {"returned", "lost"} : call' = [call EXCEPT ![u] = end]
  /\ UNCHANGED <<cache, req, tok, got, userVars>>

(* UpdateOne with $set of the fields that are given.  It may take effect   *)
(* and yet return an error, when the answer does not arrive in time; then, *)
(* and when no password is given, the cache is left alone.                 *)
UpdateDocument(u) ==
  /\ call[u] = "update"
  /\ db # Gone
  /\ Write(Updated(u))
  /\ \E end \in {IF PasswordOf[u] = None THEN "returned" ELSE "clear", "lost"} :
       call' = [call EXCEPT ![u] = end]
  /\ UNCHANGED <<cache, req, tok, got, userVars>>

(* UpdateOne fails, or matches nothing.                                    *)
UpdateFails(u) ==
  /\ call[u] = "update"
  /\ call' = [call EXCEPT ![u] = "failed"]
  /\ UNCHANGED <<db, cache, reqVars, userVars>>

ClearUserCache(u) ==
  /\ call[u] = "clear"
  /\ cache' = None
  /\ call' = [call EXCEPT ![u] = "returned"]
  /\ UNCHANGED <<db, reqVars, userVars>>

(* DeleteOne, which does not touch the cache; CheckIfExistsByID before it  *)
(* only chooses between two errors.                                        *)
DeleteUser ==
  /\ db # Gone
  /\ Write(Gone)
  /\ UNCHANGED <<cache, req, tok, got, call, userVars>>

(* FindOne by the username and password that the document has.             *)
FindLogin(l) ==
  /\ login[l] = None
  /\ db # Gone
  /\ login' = [login EXCEPT ![l] = db]
  /\ UNCHANGED <<db, cache, reqVars, call, issued>>

(* UpdateOne of lastLogin, after which GenerateJWT makes a token of the    *)
(* user as it was found; on an error there is none.                        *)
EndLogin(l) ==
  /\ login[l] # None
  /\ \/ issued' = issued \cup {login[l]}
     \/ UNCHANGED issued
  /\ login' = [login EXCEPT ![l] = None]
  /\ UNCHANGED <<db, cache, reqVars, call>>

-----------------------------------------------------------------------------
RequestStep(r) ==
  \/ GetHit(r) \/ GetMiss(r) \/ FindUser(r) \/ FindFails(r) \/ SetUser(r)
  \/ ValidateJWT(r) \/ Respond(r)

UpdateStep(u) == UpdateDocument(u) \/ UpdateFails(u) \/ ClearUserCache(u)

(* The user is gone and nobody asks.                                       *)
Quiet ==
  /\ db = Gone
  /\ \A r \in Requests : req[r] = "idle"
  /\ UNCHANGED vars

Next ==
  \/ \E r \in Requests : RequestStep(r) \/ \E t \in issued : StartRequest(r, t)
  \/ \E u \in Updates : CheckUser(u) \/ UpdateStep(u)
  \/ \E l \in Logins : FindLogin(l) \/ EndLogin(l)
  \/ EntryExpires \/ DeleteUser \/ Quiet

Spec == Init /\ [][Next]_vars

(* Goroutines run, the database answers or its context ends, time passes.  *)
FairSpec ==
  /\ Spec
  /\ \A r \in Requests : WF_vars(RequestStep(r))
  /\ \A u \in Updates : WF_vars(UpdateStep(u))
  /\ WF_vars(EntryExpires)

-----------------------------------------------------------------------------
(* Properties.                                                             *)

(* Every variable holds a value of its type; only users that were found    *)
(* are cached, and a request has a user when it is to be cached or         *)
(* validated.                                                              *)
TypeOK ==
  /\ db \in Users \cup {Gone}
  /\ cache \in Entry \cup {None}
  /\ req \in [Requests -> RequestPhase]
  /\ tok \in [Requests -> Users \cup {None}]
  /\ got \in [Requests -> Users \cup {None}]
  /\ \A r \in Requests : req[r] \in {"set", "validate"} => got[r] \in Users
  /\ span \in [Requests -> SUBSET (Users \cup {Gone})]
  /\ call \in [Updates -> UpdatePhase]
  /\ login \in [Logins -> Users \cup {None}]
  /\ issued \subseteq Users

(* UpdateUser clears the cache after the document, so a cached password    *)
(* that is no longer the user's has one of three causes: a call that is    *)
(* about to clear it, a call whose UpdateOne took effect but reported an   *)
(* error, or a request that cached what it had fetched before the change.  *)
CachedPasswordExplained ==
  cache # None /\ db # Gone /\ cache.user.pass # db.pass
  => \/ cache.late
     \/ \E u \in Updates : call[u] \in {"clear", "lost"}

(* However calls overlap, the verdicts come right in the end: when the     *)
(* changes are over and the entries made meanwhile have expired, exactly   *)
(* the tokens made from the user as it is now pass, and none once it is    *)
(* deleted (ExpiresAt, Get, Set).                                          *)
VerdictsSettle ==
  <>[] \A r \in Requests : /\ req[r] = "passed" => tok[r] = db
                           /\ req[r] = "refused" => tok[r] # db

(* auth_test.go, "ValidateJWT accepted a token after password change": a   *)
(* request that comes after UpdateUser has returned does not pass with a   *)
(* password that the user has at no time of the request.                   *)
ChangedPasswordRefused ==
  \A r \in Requests : req[r] = "passed" /\ Gone \notin span[r] =>
    \E user \in span[r] : user.pass = tok[r].pass

(* auth_test.go, "ValidateJWT rejected a valid token": a request is not    *)
(* refused when its token was valid, for the user in the collection, all   *)
(* along.                                                                  *)
ValidTokenPasses ==
  \A r \in Requests : req[r] = "refused" => span[r] # {tok[r]}

=============================================================================
