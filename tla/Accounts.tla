------------------------------ MODULE Accounts ------------------------------
(***************************************************************************)
(* AuthService and the parts of UserService that write devices and         *)
(* user_sessions: registration, login, refresh, logout, password reset and *)
(* device deactivation, statement by statement, each autocommitted.        *)
(*                                                                         *)
(* Users share no rows and devices of a user neither, so there is one user *)
(* and one device; the user is one of the seed's.  A session, a refresh    *)
(* token and a password are named after the request that made them.  The   *)
(* middleware's ValidateSession is the arrival of a request; requests it   *)
(* refuses change nothing.                                                 *)
(***************************************************************************)
EXTENDS Handlers

VARIABLES
  password,  \* users.password_hash, Nobody for the one of the seed
  device,    \* the devices row: absent, active or inactive
  hash,      \* user_sessions.refresh_token_hash, Nobody without a row
  revoked,   \* user_sessions.is_revoked
  known,     \* the answers clients got: pairs of a session and a token
  sid,       \* the session a request works on
  token,     \* the refresh token a request presents
  seen,      \* users.password_hash as the request read it
  revokers   \* history: the requests that revoked each session

sessions == <<hash, revoked>>
locals   == <<sid, token, seen>>
accounts == <<password, device, sessions, known, locals, revokers>>

Ids == Requests \union {Earlier}  \* the sessions, and their first tokens

AccountsInit ==
  /\ password = Nobody
  /\ device = "absent"
  /\ \/ hash = [s \in Ids |-> Nobody] /\ known = {}
     \/ /\ hash = [s \in Ids |-> IF s = Earlier THEN Earlier ELSE Nobody]
        /\ known = {<<Earlier, Earlier>>}
        /\ service = "accounts"
  /\ revoked = {}
  /\ sid = [r \in Requests |-> Nobody]
  /\ token = [r \in Requests |-> Nobody]
  /\ seen = [r \in Ids |-> Nobody]
  /\ revokers = [s \in Ids |-> {}]

Sessions == {s \in Ids : hash[s] # Nobody}

(* The WHERE clause of GetSessionByID; sessions last for days, so none     *)
(* expires within a behaviour.                                             *)
Live(s) == s \in Sessions \ revoked

At(r, o, l) == op[r] = o /\ pc[r] = l

-----------------------------------------------------------------------------
(* Register and Login.                                                     *)

(* ensureIdentityAvailable found no user of that name.                     *)
Register(r) ==
  /\ Arrive(r, "accounts", "register", "create")
  /\ UNCHANGED accounts

(* Create: Register leaves User.Role empty, Create binds it to users.role, *)
(* and the enum user_role has no such value, so PostgreSQL refuses the     *)
(* row.  CreateUserSettings and the rest of Register are never reached.    *)
CreateUser(r) ==
  /\ At(r, "register", "create")
  /\ Goto(r, "failed")
  /\ UNCHANGED accounts

(* getUserByIdentity and comparePassword, for the password now in force.   *)
Login(r) ==
  /\ Arrive(r, "accounts", "login", "device")
  /\ sid' = [sid EXCEPT ![r] = r]
  /\ seen' = [seen EXCEPT ![r] = password]
  /\ UNCHANGED <<password, device, sessions, known, token, revokers>>

(* getOrCreateDevice: GetUserDevices lists active devices only.  A request *)
(* need not name a device.                                                 *)
FindDevice(r) ==
  /\ pc[r] = "device"
  /\ \/ Goto(r, "session")
     \/ device # "active" /\ Goto(r, "add")
  /\ UNCHANGED accounts

(* AddDevice, against UNIQUE (user_id, device_id).                         *)
AddDevice(r) ==
  /\ pc[r] = "add"
  /\ device' = IF device = "absent" THEN "active" ELSE device
  /\ Goto(r, IF device = "absent" THEN "session" ELSE "again")
  /\ UNCHANGED <<password, sessions, known, locals, revokers>>

FindDeviceAgain(r) ==
  /\ pc[r] = "again"
  /\ Goto(r, IF device = "active" THEN "session" ELSE "failed")
  /\ UNCHANGED accounts

CreateSession(r) ==
  /\ pc[r] = "session"
  /\ hash' = [hash EXCEPT ![r] = r]
  /\ Goto(r, "answer")
  /\ UNCHANGED <<password, device, revoked, known, locals, revokers>>

(* What is left to do changes no row of these tables; the client gets the  *)
(* token, unless the request stops before.                                 *)
Answer(r) ==
  /\ pc[r] = "answer"
  /\ known' = known \union {<<sid[r], r>>}
  /\ Goto(r, "ok")
  /\ UNCHANGED <<password, device, sessions, locals, revokers>>

-----------------------------------------------------------------------------
(* Refresh.                                                                *)

(* Slip: the session is looked up by its id alone.                         *)
RefreshAnySession(r) ==
  /\ \E s, t \in Ids :
       /\ <<s, t>> \in known
       /\ s \in Sessions
       /\ Arrive(r, "accounts", "refresh", IF hash[s] = t THEN "rotate" ELSE "mismatch")
       /\ sid' = [sid EXCEPT ![r] = s]
       /\ token' = [token EXCEPT ![r] = t]
  /\ UNCHANGED <<password, device, sessions, known, seen, revokers>>

(* GetSessionByID and compareRefreshToken.                                 *)
Refresh(r) ==
  /\ \E s, t \in Ids :
       /\ <<s, t>> \in known
       /\ Live(s)
       /\ Arrive(r, "accounts", "refresh", IF hash[s] = t THEN "rotate" ELSE "mismatch")
       /\ sid' = [sid EXCEPT ![r] = s]
       /\ token' = [token EXCEPT ![r] = t]
  /\ UNCHANGED <<password, device, sessions, known, seen, revokers>>

(* Slip: the struct that is saved keeps the old hash.                      *)
RotateUnsaved(r) ==
  /\ At(r, "refresh", "rotate")
  /\ revoked' = revoked \ {sid[r]}
  /\ Goto(r, "answer")
  /\ UNCHANGED <<password, device, hash, known, locals, revokers>>

(* UpdateSession writes the struct that was read: the new hash, and        *)
(* is_revoked as it was then, FALSE.                                       *)
Rotate(r) ==
  /\ At(r, "refresh", "rotate")
  /\ hash' = [hash EXCEPT ![sid[r]] = r]
  /\ revoked' = revoked \ {sid[r]}
  /\ Goto(r, "answer")
  /\ UNCHANGED <<password, device, known, locals, revokers>>

Revoke(r, S) ==
  /\ revoked' = revoked \union S
  /\ revokers' = [s \in Ids |-> revokers[s] \union IF s \in S THEN {r} ELSE {}]
  /\ UNCHANGED <<password, device, hash, known, locals>>

(* An old token: RevokeSession, and the client is refused.                 *)
Mismatch(r) ==
  /\ At(r, "refresh", "mismatch")
  /\ Revoke(r, {sid[r]})
  /\ Goto(r, "failed")

-----------------------------------------------------------------------------
(* Requests of a client that holds a session.                              *)

Authenticated == \E s \in Ids : Live(s)

(* Logout and RevokeSession take the id of any session.                    *)
Logout(r) ==
  /\ Authenticated
  /\ Arrive(r, "accounts", "logout", "revoke")
  /\ \E s \in Sessions : sid' = [sid EXCEPT ![r] = s]
  /\ UNCHANGED <<password, device, sessions, known, token, seen, revokers>>

(* Slip: the session is the one of the token, which no logout carries.     *)
RevokeOfToken(r) ==
  /\ At(r, "logout", "revoke")
  /\ Revoke(r, {token[r]})
  /\ Goto(r, "ok")

RevokeSession(r) ==
  /\ At(r, "logout", "revoke")
  /\ Revoke(r, {sid[r]})
  /\ Goto(r, "ok")

LogoutAll(r) ==
  /\ Authenticated
  /\ Arrive(r, "accounts", "logoutAll", "revokeAll")
  /\ UNCHANGED accounts

(* RevokeAllUserSessions, of LogoutAll and of PasswordReset.               *)
RevokeAll(r) ==
  /\ pc[r] = "revokeAll"
  /\ Revoke(r, Sessions \ revoked)
  /\ Goto(r, "ok")

(* The devices row is named by its id, so it exists.                       *)
DeactivateDevice(r) ==
  /\ Authenticated
  /\ device # "absent"
  /\ Arrive(r, "accounts", "deactivate", "deactivate")
  /\ UNCHANGED accounts

Deactivate(r) ==
  /\ At(r, "deactivate", "deactivate")
  /\ device' = "inactive"
  /\ Goto(r, "ok")
  /\ UNCHANGED <<password, sessions, known, locals, revokers>>

(* getUserByIdentity                                                       *)
PasswordReset(r) ==
  /\ Arrive(r, "accounts", "reset", "write")
  /\ seen' = [seen EXCEPT ![r] = password]
  /\ UNCHANGED <<password, device, sessions, known, sid, token, revokers>>

(* Slip: the sessions are left as they are.                                *)
WritePasswordOnly(r) ==
  /\ At(r, "reset", "write")
  /\ password' = r
  /\ Goto(r, "ok")
  /\ UNCHANGED <<device, sessions, known, locals, revokers>>

(* UpdateUser                                                              *)
WritePassword(r) ==
  /\ At(r, "reset", "write")
  /\ password' = r
  /\ Goto(r, "revokeAll")
  /\ UNCHANGED <<device, sessions, known, locals, revokers>>

-----------------------------------------------------------------------------

AccountsStep(r) ==
  \/ Register(r) \/ CreateUser(r)
  \/ Login(r) \/ FindDevice(r) \/ AddDevice(r) \/ FindDeviceAgain(r)
  \/ CreateSession(r) \/ Answer(r)
  \/ Refresh(r) \/ Rotate(r) \/ Mismatch(r)
  \/ Logout(r) \/ RevokeSession(r) \/ LogoutAll(r) \/ RevokeAll(r)
  \/ DeactivateDevice(r) \/ Deactivate(r)
  \/ PasswordReset(r) \/ WritePassword(r)

AccountsNext == \E r \in Requests : AccountsStep(r)

-----------------------------------------------------------------------------
(* What accounts promise.                                                  *)

AccountsTypeOK ==
  /\ password \in Requests \union {Nobody}
  /\ device \in {"absent", "active", "inactive"}
  /\ hash \in [Ids -> Ids \union {Nobody}]
  /\ revoked \in SUBSET Ids
  /\ known \in SUBSET (Ids \X Ids)
  /\ sid \in [Requests -> Ids \union {Nobody}]
  /\ token \in [Requests -> Ids \union {Nobody}]
  /\ seen \in [Ids -> Requests \union {Nobody}]
  /\ revokers \in [Ids -> SUBSET Requests]

(* A revoked session only lives again through a refresh that was under way *)
(* together with the request that revoked it.                              *)
RevivedOnlyByOverlap ==
  \A s \in Ids : Live(s) =>
    \A q \in revokers[s] : \E r \in met[q] \union {q} : op[r] = "refresh" /\ sid[r] = s /\ r # q

(* A client is refused for an old token, and its session revoked, only if  *)
(* some token of that session was presented twice: a client that keeps to  *)
(* its newest token, and gets its answers, keeps its session.              *)
MismatchMeansReuse ==
  \A r \in Requests : At(r, "refresh", "mismatch") =>
    \E p, q \in Requests :
      p # q /\ op[p] = "refresh" /\ op[q] = "refresh" /\ sid[p] = sid[r] /\ sid[q] = sid[r]
        /\ token[p] = token[q]

(* When every reset ran alone and to its end, no live session is older     *)
(* than the last of them: it was opened with the password in force.        *)
ResetClosesSessions ==
  (\A q \in Requests : op[q] = "reset" => met[q] = {} /\ pc[q] = "ok")
    => \A s \in Ids : Live(s) => seen[s] = password

(* API_DOCUMENTATION.md:25 and 26, "POST /auth/register", "Register a new  *)
(* user.": a registration for a free identity is not refused unless it     *)
(* stopped.                                                                *)
RegistrationSucceeds ==
  \A r \in Requests : op[r] = "register" /\ pc[r] = "failed" => r \in faulted
=============================================================================
