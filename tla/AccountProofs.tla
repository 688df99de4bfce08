---------------------------- MODULE AccountProofs ----------------------------
(***************************************************************************)
(* Proofs about accounts and calls.                                        *)
(***************************************************************************)
EXTENDS ServiceProofs

-----------------------------------------------------------------------------
(* Accounts.                                                               *)

AccountsAct(r) == AccountsStep(r) \/ (Stops(r) /\ UNCHANGED accounts)

LEMMA AccountsFrame ==
  [Next]_vars =>
    /\ service = "accounts" =>
         (\E r \in Requests : AccountsAct(r)) \/ UNCHANGED <<handling, accounts>>
    /\ service # "accounts" => UNCHANGED accounts
  BY DEF Next, AccountsNext, Stop, vars, AccountsAct

(* What a request has presented and read stays as it is, and it changes    *)
(* none of another's.                                                      *)
AccountsFixed ==
  /\ \A q \in Requests : pc[q] # "new" => sid'[q] = sid[q] /\ token'[q] = token[q]
  /\ \A q \in Ids : (q \in Requests => pc[q] # "new") => seen'[q] = seen[q]

(* A request that works on a session has one: a login that of its name.    *)
AccountsInv ==
  /\ AccountsTypeOK
  /\ \A r \in Requests : pc[r] \in {"device", "add", "again", "session"} => op[r] = "login" /\ sid[r] = r
  /\ \A r \in Requests : pc[r] \in {"rotate", "mismatch"} => op[r] = "refresh"
  /\ \A r \in Requests : pc[r] \in {"answer", "rotate", "mismatch", "revoke"} => sid[r] \in Ids

LEMMA AccountsTyped ==
  ASSUME HandlersInv, AccountsInv, NEW r \in Requests, AccountsAct(r)
  PROVE  AccountsInv' /\ AccountsFixed
  <1> USE DEF HandlersInv, AccountsInv, Goto, FailsOnTo, AccountsTypeOK, AccountsFixed, accounts, locals, sessions, Ids, At, Arrive
  <1>1. CASE Stops(r) /\ UNCHANGED accounts
    BY <1>1 DEF Stops
  <1>2. CASE Register(r) \/ CreateUser(r) \/ Login(r)
    <2>1. CASE Register(r)
      BY <2>1 DEF Register
    <2>2. CASE CreateUser(r)
      BY <2>2 DEF CreateUser
    <2>3. CASE Login(r)
      BY <2>3 DEF Login
    <2>4. QED
      BY <1>2, <2>1, <2>2, <2>3
  <1>3. CASE FindDevice(r) \/ AddDevice(r) \/ FindDeviceAgain(r)
    BY <1>3 DEF FindDevice, AddDevice, FindDeviceAgain
  <1>4. CASE CreateSession(r) \/ Answer(r)
    BY <1>4 DEF CreateSession, Answer
  <1>5. CASE Refresh(r) \/ Rotate(r) \/ Mismatch(r)
    <2>1. CASE Refresh(r)
      BY <2>1 DEF Refresh
    <2>2. CASE Rotate(r)
      BY <2>2 DEF Rotate
    <2>3. CASE Mismatch(r)
      BY <2>3 DEF Mismatch, Revoke
    <2>4. QED
      BY <1>5, <2>1, <2>2, <2>3
  <1>6. CASE Logout(r) \/ RevokeSession(r) \/ LogoutAll(r) \/ RevokeAll(r)
    <2>1. CASE Logout(r)
      BY <2>1 DEF Logout, Sessions
    <2>2. CASE RevokeSession(r)
      BY <2>2 DEF RevokeSession, Revoke
    <2>3. CASE LogoutAll(r)
      BY <2>3 DEF LogoutAll
    <2>4. CASE RevokeAll(r)
      BY <2>4 DEF RevokeAll, Revoke, Sessions
    <2>5. QED
      BY <1>6, <2>1, <2>2, <2>3, <2>4
  <1>7. CASE DeactivateDevice(r) \/ Deactivate(r) \/ PasswordReset(r) \/ WritePassword(r)
    <2>1. CASE DeactivateDevice(r)
      BY <2>1 DEF DeactivateDevice
    <2>2. CASE Deactivate(r)
      BY <2>2 DEF Deactivate
    <2>3. CASE PasswordReset(r)
      BY <2>3 DEF PasswordReset
    <2>4. CASE WritePassword(r)
      BY <2>4 DEF WritePassword
    <2>5. QED
      BY <1>7, <2>1, <2>2, <2>3, <2>4
  <1>8. QED
    BY <1>1, <1>2, <1>3, <1>4, <1>5, <1>6, <1>7 DEF AccountsAct, AccountsStep

(* Steps that have to do with what a session may be revoked by.            *)
LEMMA AccountsKinds ==
  ASSUME HandlersInv, AccountsInv, NEW r \in Requests, AccountsAct(r)
  PROVE  \/ Refresh(r)
         \/ Rotate(r)
         \/ /\ pc[r] \in {"mismatch", "revoke", "revokeAll"} /\ pc'[r] # "rotate"
            /\ \E S \in SUBSET Ids : Revoke(r, S)
         \/ UNCHANGED <<revoked, revokers>> /\ pc'[r] # "rotate"
  <1> USE DEF HandlersInv, AccountsInv, AccountsTypeOK, accounts, locals, sessions, Goto, FailsOnTo, At, Arrive
  <1>1. CASE Stops(r) /\ UNCHANGED accounts
    BY <1>1 DEF Stops
  <1>2. CASE Register(r) \/ CreateUser(r) \/ Login(r)
    BY <1>2 DEF Register, CreateUser, Login
  <1>3. CASE FindDevice(r) \/ AddDevice(r) \/ FindDeviceAgain(r)
    BY <1>3 DEF FindDevice, AddDevice, FindDeviceAgain
  <1>4. CASE CreateSession(r) \/ Answer(r)
    BY <1>4 DEF CreateSession, Answer
  <1>5. CASE Mismatch(r) \/ RevokeSession(r)
    <2>1. sid[r] \in Ids
      BY <1>5 DEF Mismatch, RevokeSession
    <2>2. {sid[r]} \in SUBSET Ids
      BY <2>1
    <2>3. Revoke(r, {sid[r]}) /\ pc[r] \in {"mismatch", "revoke"} /\ pc'[r] # "rotate"
      BY <1>5 DEF Mismatch, RevokeSession
    <2>4. QED
      BY <2>2, <2>3
  <1>6. CASE RevokeAll(r)
    <2>1. Sessions \ revoked \in SUBSET Ids
      BY DEF Sessions
    <2>2. Revoke(r, Sessions \ revoked) /\ pc[r] = "revokeAll" /\ pc'[r] # "rotate"
      BY <1>6 DEF RevokeAll
    <2>3. QED
      BY <2>1, <2>2
  <1>7. CASE Logout(r) \/ LogoutAll(r)
    BY <1>7 DEF Logout, LogoutAll
  <1>8. CASE DeactivateDevice(r) \/ Deactivate(r) \/ PasswordReset(r) \/ WritePassword(r)
    BY <1>8 DEF DeactivateDevice, Deactivate, PasswordReset, WritePassword
  <1>9. QED
    BY <1>1, <1>2, <1>3, <1>4, <1>5, <1>6, <1>7, <1>8 DEF AccountsAct, AccountsStep

Revived(s, q) == \E r \in met[q] : op[r] = "refresh" /\ sid[r] = s

(* Each request that revoked a session met a refresh of it, or the session *)
(* is revoked still; and a refresh that is about to revive a session was   *)
(* met by all who revoked it meanwhile.                                    *)
RevivalInv ==
  /\ \A s \in Ids : \A q \in revokers[s] : s \in revoked \/ Revived(s, q)
  /\ \A r \in Requests : pc[r] = "rotate" => \A q \in revokers[sid[r]] : Revived(sid[r], q)

LEMMA RevivalStep ==
  ASSUME HandlersInv, HandlersInv', Grows, AccountsInv, AccountsInv', RevivalInv,
         NEW r \in Requests, AccountsAct(r)
  PROVE  RevivalInv'
  <1>1. AccountsFixed
    BY AccountsTyped
  <1>2. ASSUME NEW s \in Ids, NEW q \in Requests, Revived(s, q) PROVE Revived(s, q)'
    <2>1. PICK p \in met[q] : op[p] = "refresh" /\ sid[p] = s
      BY <1>2 DEF Revived
    <2>2. p \in Requests /\ pc[p] # "new"
      BY <2>1 DEF HandlersInv
    <2>3. p \in met'[q] /\ op'[p] = "refresh" /\ sid'[p] = s
      BY <1>1, <2>1, <2>2 DEF Grows, AccountsFixed
    <2>4. QED
      BY <2>3 DEF Revived
  <1>3. /\ \A q \in Requests \ {r} : pc'[q] = pc[q]
        /\ \A q \in Requests \ {r} : pc[q] = "rotate" => sid'[q] = sid[q]
    BY <1>1, HandlersStep, AccountsMoves, StopsMoves DEF AccountsAct, AccountsFixed
  <1>4. \A s \in Ids : revokers[s] \in SUBSET Requests /\ revokers'[s] \in SUBSET Requests
    BY DEF AccountsInv, AccountsTypeOK
  <1>5. \A q \in Requests : pc[q] = "rotate" => sid[q] \in Ids
    BY DEF AccountsInv
  <1>6. CASE UNCHANGED <<revoked, revokers>> /\ pc'[r] # "rotate"
    BY <1>2, <1>3, <1>4, <1>5, <1>6 DEF RevivalInv
  <1>7. CASE Refresh(r)
    <2>1. UNCHANGED <<revoked, revokers>>
      BY <1>7 DEF Refresh, sessions
    <2>2. sid'[r] \in Ids \ revoked
      BY <1>7 DEF Refresh, Live, AccountsInv, AccountsTypeOK
    <2>3. \A q \in revokers[sid'[r]] : Revived(sid'[r], q)
      BY <2>2 DEF RevivalInv
    <2>4. PICK s \in Ids : s = sid'[r]
      BY <2>2
    <2>5. \A q \in revokers[s] : Revived(s, q)'
      BY <1>2, <1>4, <2>3, <2>4
    <2>6. \A q \in revokers'[sid'[r]] : Revived(s, q)'
      BY <2>1, <2>4, <2>5
    <2>7. \A q \in revokers'[sid'[r]] : Revived(sid[r], q)'
      BY <2>4, <2>6 DEF Revived
    <2>8. QED
      BY <1>2, <1>3, <1>4, <1>5, <2>1, <2>7 DEF RevivalInv
  <1>8. CASE Rotate(r)
    <2>1. PICK s \in Ids : /\ s = sid[r] /\ revoked' = revoked \ {s} /\ revokers' = revokers
                            /\ pc[r] = "rotate"
      BY <1>5, <1>8 DEF Rotate, At
    <2>2. \A q \in revokers[s] : Revived(s, q)
      BY <2>1 DEF RevivalInv
    <2>3. pc'[r] # "rotate"
      BY <1>8 DEF Rotate, Goto, HandlersInv
    <2>4. QED
      BY <1>2, <1>3, <1>4, <1>5, <2>1, <2>2, <2>3 DEF RevivalInv
  <1>9. CASE /\ pc[r] \in {"mismatch", "revoke", "revokeAll"} /\ pc'[r] # "rotate"
             /\ \E S \in SUBSET Ids : Revoke(r, S)
    <2>1. PICK S \in SUBSET Ids : Revoke(r, S)
      BY <1>9
    <2>2. /\ revoked' = revoked \union S
          /\ \A s \in Ids : revokers'[s] = revokers[s] \union IF s \in S THEN {r} ELSE {}
          /\ sid' = sid
      BY <2>1 DEF Revoke, locals
    <2>3. ASSUME NEW p \in Requests, pc'[p] = "rotate", NEW q \in revokers'[sid'[p]]
          PROVE  Revived(sid[p], q)'
      <3>1. PICK s \in Ids : s = sid[p] /\ s = sid'[p] /\ p # r /\ pc[p] = "rotate"
        BY <1>3, <1>5, <1>9, <2>2, <2>3
      <3>2. CASE q \in revokers[s]
        <4>1. Revived(s, q)'
          BY <1>2, <1>4, <3>1, <3>2 DEF RevivalInv
        <4>2. QED
          BY <3>1, <4>1 DEF Revived
      <3>3. CASE q = r
        <4>1. p \in met[r]
          BY <1>9, <3>1 DEF HandlersInv, Active
        <4>2. op[p] = "refresh"
          BY <3>1 DEF AccountsInv
        <4>3. Revived(s, r)
          BY <3>1, <4>1, <4>2 DEF Revived
        <4>4. Revived(s, q)'
          BY <1>2, <3>3, <4>3
        <4>5. QED
          BY <3>1, <4>4 DEF Revived
      <3>4. QED
        BY <2>2, <2>3, <3>1, <3>2, <3>3
    <2>4. \A s \in Ids : \A q \in revokers'[s] : s \in revoked' \/ Revived(s, q)'
      BY <1>2, <1>4, <2>2 DEF RevivalInv
    <2>5. QED
      BY <2>3, <2>4 DEF RevivalInv
  <1>10. QED
    BY <1>6, <1>7, <1>8, <1>9, AccountsKinds

-----------------------------------------------------------------------------
(* Old tokens.                                                             *)

Presented(s, t) == \E q \in Requests : op[q] = "refresh" /\ sid[q] = s /\ token[q] = t

(* Some token of session s was presented twice.                            *)
Reuse(s) ==
  \E p, q \in Requests :
    /\ p # q /\ op[p] = "refresh" /\ op[q] = "refresh"
    /\ sid[p] = s /\ sid[q] = s /\ token[p] = token[q]

(* Token t of session s is the one in the row, or was presented.           *)
Spent(s, t) == hash[s] = t \/ Presented(s, t) \/ Reuse(s)

(* The tokens of a session form a chain while none is presented twice:     *)
(* each but the last, which is the one in the row, was presented for the   *)
(* next.                                                                   *)
ReuseInv ==
  /\ \A s \in Ids, t \in Ids : <<s, t>> \in known => s \in Sessions /\ Spent(s, t)
  /\ \A r \in Requests : pc[r] = "answer" => sid[r] \in Sessions /\ Spent(sid[r], r)
  /\ \A r \in Requests : pc[r] = "rotate" =>
       sid[r] \in Sessions /\ (hash[sid[r]] = token[r] \/ Reuse(sid[r]))
  /\ \A r \in Requests : pc[r] = "mismatch" => Reuse(sid[r])
  /\ \A r \in Requests : pc[r] \in {"new", "device", "add", "again", "session"} => r \notin Sessions

LEMMA TokenKinds ==
  ASSUME HandlersInv, AccountsInv, NEW r \in Requests, AccountsAct(r)
  PROVE  \/ CreateSession(r)
         \/ Rotate(r)
         \/ /\ UNCHANGED hash
            /\ pc'[r] \in {"answer", "rotate", "mismatch"} => Refresh(r)
            /\ known' = known \/ Answer(r)
            /\ pc'[r] \in {"device", "add", "again", "session"} => pc[r] \in {"new", "device", "add", "again"}
  <1> USE DEF HandlersInv, accounts, locals, sessions, Goto, FailsOnTo, At, Arrive
  <1>1. CASE Stops(r) /\ UNCHANGED accounts
    BY <1>1 DEF Stops
  <1>2. CASE Register(r) \/ CreateUser(r) \/ Login(r)
    BY <1>2 DEF Register, CreateUser, Login
  <1>3. CASE FindDevice(r) \/ AddDevice(r) \/ FindDeviceAgain(r)
    BY <1>3 DEF FindDevice, AddDevice, FindDeviceAgain
  <1>4. CASE Answer(r)
    BY <1>4 DEF Answer
  <1>5. CASE Refresh(r)
    BY <1>5 DEF Refresh
  <1>6. CASE Mismatch(r) \/ RevokeSession(r) \/ RevokeAll(r)
    BY <1>6 DEF Mismatch, RevokeSession, RevokeAll, Revoke
  <1>7. CASE Logout(r) \/ LogoutAll(r)
    BY <1>7 DEF Logout, LogoutAll
  <1>8. CASE DeactivateDevice(r) \/ Deactivate(r) \/ PasswordReset(r) \/ WritePassword(r)
    BY <1>8 DEF DeactivateDevice, Deactivate, PasswordReset, WritePassword
  <1>9. QED
    BY <1>1, <1>2, <1>3, <1>4, <1>5, <1>6, <1>7, <1>8 DEF AccountsAct, AccountsStep

LEMMA ReuseStep ==
  ASSUME HandlersInv, HandlersInv', Grows, AccountsInv, AccountsInv', ReuseInv,
         NEW r \in Requests, AccountsAct(r)
  PROVE  ReuseInv'
  <1>1. AccountsFixed
    BY AccountsTyped
  <1>2. ASSUME NEW q \in Requests, op[q] = "refresh"
        PROVE  op'[q] = "refresh" /\ sid'[q] = sid[q] /\ token'[q] = token[q]
    BY <1>1, <1>2 DEF Grows, AccountsFixed, HandlersInv
  <1>3. ASSUME NEW s, Reuse(s) PROVE Reuse(s)'
    BY <1>2, <1>3 DEF Reuse
  <1>4. ASSUME NEW s, NEW t, Presented(s, t) PROVE Presented(s, t)'
    BY <1>2, <1>4 DEF Presented
  <1>5. /\ \A q \in Requests \ {r} : pc'[q] = pc[q]
        /\ \A q \in Requests \ {r} : pc[q] # "new" => sid'[q] = sid[q] /\ token'[q] = token[q]
    BY <1>1, HandlersStep, AccountsMoves, StopsMoves DEF AccountsAct, AccountsFixed
  <1>6. /\ \A q \in Requests : pc[q] \in {"answer", "rotate", "mismatch"} => sid[q] \in Ids
        /\ \A q \in Requests : pc[q] \in {"rotate", "mismatch"} => op[q] = "refresh"
        /\ \A q \in Requests : q \in Ids /\ q # Nobody
        /\ Nobody \notin Ids
    BY HandlersAssumption DEF AccountsInv, Ids
  <1>7. \/ CreateSession(r)
        \/ Rotate(r)
        \/ /\ UNCHANGED hash
           /\ pc'[r] \in {"answer", "rotate", "mismatch"} => Refresh(r)
           /\ known' = known \/ Answer(r)
           /\ pc'[r] \in {"device", "add", "again", "session"} => pc[r] \in {"new", "device", "add", "again"}
    BY TokenKinds
  <1>8. /\ CreateSession(r) => /\ pc[r] = "session" /\ sid[r] = r /\ r \in Ids /\ known' = known
                               /\ hash[r] = Nobody /\ hash' = [hash EXCEPT ![r] = r]
                               /\ pc'[r] = "answer" /\ sid'[r] = r
        /\ Rotate(r) => /\ pc[r] = "rotate" /\ op[r] = "refresh" /\ known' = known
                        /\ hash' = [hash EXCEPT ![sid[r]] = r]
                        /\ pc'[r] = "answer" /\ sid'[r] = sid[r]
    BY DEF CreateSession, Rotate, At, locals, AccountsInv, AccountsTypeOK, ReuseInv, Sessions, Ids,
           Goto, HandlersInv
  <1>9. PICK u : u = sid[r]
    OBVIOUS
  <1>10. ASSUME NEW s \in Ids, NEW t \in Ids, Spent(s, t) PROVE Spent(s, t)'
    <2>1. CASE CreateSession(r)
      BY <1>3, <1>4, <1>6, <1>8, <1>10, <2>1 DEF Spent, AccountsInv, AccountsTypeOK
    <2>2. CASE Rotate(r) /\ s = u /\ hash[s] = t
      <3>1. hash[s] = token[r] \/ Reuse(s)
        BY <1>8, <1>9, <2>2 DEF ReuseInv
      <3>2. Presented(s, t) \/ Reuse(s)
        BY <1>8, <1>9, <2>2, <3>1 DEF Presented
      <3>3. QED
        BY <1>3, <1>4, <3>2 DEF Spent
    <2>3. CASE Rotate(r) /\ ~ (s = u /\ hash[s] = t)
      BY <1>3, <1>4, <1>8, <1>9, <1>10, <2>3 DEF Spent, AccountsInv, AccountsTypeOK
    <2>4. CASE UNCHANGED hash
      BY <1>3, <1>4, <1>10, <2>4 DEF Spent
    <2>5. QED
      BY <1>7, <2>1, <2>2, <2>3, <2>4
  <1>11. /\ Sessions \subseteq Sessions'
         /\ \A s \in Sessions' : s \in Sessions \/ (s = r /\ CreateSession(r))
    BY <1>6, <1>7, <1>8 DEF Sessions, ReuseInv, AccountsInv, AccountsTypeOK
  <1>12. ASSUME NEW q \in Requests \ {r}, pc[q] = "rotate"
         PROVE  hash'[sid[q]] = token[q] \/ Reuse(sid[q])'
    <2>1. PICK s \in Sessions : s = sid[q]
      BY <1>12 DEF ReuseInv
    <2>2. hash[s] = token[q] \/ Reuse(s)
      BY <1>12, <2>1 DEF ReuseInv
    <2>3. CASE Rotate(r) /\ s = u
      <3>1. hash[s] = token[r] \/ Reuse(s)
        BY <1>8, <1>9, <2>3 DEF ReuseInv
      <3>2. Reuse(s)
        BY <1>6, <1>8, <1>9, <1>12, <2>1, <2>2, <2>3, <3>1 DEF Reuse
      <3>3. Reuse(s)'
        BY <1>3, <3>2
      <3>4. Reuse(sid[q])'
        BY <1>5, <1>12, <2>1, <3>3 DEF Reuse
      <3>5. QED
        BY <3>4
    <2>4. CASE ~ (Rotate(r) /\ s = u)
      <3>1. hash'[s] = hash[s]
        BY <1>7, <1>8, <1>9, <2>1, <2>4 DEF Sessions, AccountsInv, AccountsTypeOK
      <3>2. hash'[s] = token[q] \/ Reuse(s)'
        BY <1>3, <2>2, <3>1
      <3>3. QED
        BY <1>5, <1>12, <2>1, <3>2 DEF Reuse
    <2>5. QED
      BY <2>3, <2>4
  <1>13. (\A s \in Ids, t \in Ids : <<s, t>> \in known => s \in Sessions /\ Spent(s, t))'
    <2>1. CASE known' = known
      BY <1>10, <1>11, <2>1 DEF ReuseInv
    <2>2. CASE Answer(r)
      <3>1. known' = known \union {<<u, r>>} /\ pc[r] = "answer"
        BY <1>9, <2>2 DEF Answer
      <3>2. u \in Sessions /\ u \in Ids /\ r \in Ids /\ Spent(u, r)
        BY <1>6, <1>9, <3>1 DEF ReuseInv
      <3>3. Spent(u, r)'
        BY <1>10, <3>2
      <3>4. QED
        BY <1>10, <1>11, <3>1, <3>2, <3>3 DEF ReuseInv
    <2>3. QED
      BY <1>7, <1>8, <2>1, <2>2
  <1>14. ASSUME NEW q \in Requests \ {r}
         PROVE  /\ pc'[q] = "answer" => sid'[q] \in Sessions' /\ Spent(sid[q], q)'
                /\ pc'[q] = "rotate" =>
                     sid'[q] \in Sessions' /\ (hash'[sid'[q]] = token'[q] \/ Reuse(sid[q])')
                /\ pc'[q] = "mismatch" => Reuse(sid[q])'
                /\ pc'[q] \in {"new", "device", "add", "again", "session"} => q \notin Sessions'
    <2>1. pc'[q] = pc[q] /\ (pc[q] # "new" => sid'[q] = sid[q] /\ token'[q] = token[q])
      BY <1>5
    <2>2. CASE pc[q] = "answer"
      <3>1. PICK s \in Ids : s = sid[q] /\ s = sid'[q]
        BY <1>6, <2>1, <2>2
      <3>2. s \in Sessions /\ Spent(s, q)
        BY <2>2, <3>1 DEF ReuseInv
      <3>3. Spent(s, q)'
        BY <1>6, <1>10, <3>2
      <3>4. QED
        BY <1>11, <2>1, <2>2, <3>1, <3>2, <3>3 DEF Spent, Presented, Reuse
    <2>3. CASE pc[q] = "rotate"
      BY <1>11, <1>12, <2>1, <2>3 DEF ReuseInv
    <2>4. CASE pc[q] = "mismatch"
      <3>1. PICK s \in Ids : s = sid[q] /\ s = sid'[q]
        BY <1>6, <2>1, <2>4
      <3>2. Reuse(s)'
        BY <1>3, <2>4, <3>1 DEF ReuseInv
      <3>3. QED
        BY <2>1, <2>4, <3>1, <3>2 DEF Reuse
    <2>5. CASE pc[q] \notin {"answer", "rotate", "mismatch"}
      BY <1>11, <2>1, <2>5 DEF ReuseInv
    <2>6. QED
      BY <2>2, <2>3, <2>4, <2>5
  <1>15. CASE CreateSession(r) \/ Rotate(r)
    <2>1. u \in Ids /\ u \in Sessions' /\ hash'[u] = r /\ pc'[r] = "answer" /\ sid'[r] = u
      BY <1>6, <1>8, <1>9, <1>15 DEF Sessions, AccountsInv, AccountsTypeOK
    <2>2. Spent(sid[r], r)'
      BY <2>1 DEF Spent
    <2>3. QED
      BY <1>13, <1>14, <2>1, <2>2 DEF ReuseInv
  <1>16. CASE Refresh(r)
    <2>1. PICK s \in Ids, t \in Ids :
            /\ <<s, t>> \in known /\ s \in Sessions /\ pc[r] = "new"
            /\ pc' = [pc EXCEPT ![r] = IF hash[s] = t THEN "rotate" ELSE "mismatch"]
            /\ op' = [op EXCEPT ![r] = "refresh"]
            /\ sid' = [sid EXCEPT ![r] = s]
            /\ token' = [token EXCEPT ![r] = t]
            /\ hash' = hash
      BY <1>16 DEF Refresh, Arrive, Live, sessions
    <2>2. /\ pc'[r] = (IF hash[s] = t THEN "rotate" ELSE "mismatch") /\ op'[r] = "refresh"
          /\ sid'[r] = s /\ token'[r] = t
      BY <2>1 DEF HandlersInv, AccountsInv, AccountsTypeOK
    <2>3. CASE hash[s] = t
      BY <1>11, <1>13, <1>14, <2>1, <2>2, <2>3 DEF ReuseInv
    <2>4. CASE hash[s] # t
      <3>1. Spent(s, t)'
        BY <1>10, <2>1 DEF ReuseInv
      <3>2. Presented(s, t) \/ Reuse(s)
        BY <2>1, <2>4 DEF ReuseInv, Spent
      <3>3. ASSUME Presented(s, t) PROVE Reuse(s)'
        <4>1. PICK q \in Requests : op[q] = "refresh" /\ sid[q] = s /\ token[q] = t
          BY <3>3 DEF Presented
        <4>2. q # r /\ op'[q] = "refresh" /\ sid'[q] = s /\ token'[q] = t
          BY <1>2, <2>1, <4>1 DEF HandlersInv
        <4>3. QED
          BY <2>2, <4>2 DEF Reuse
      <3>4. Reuse(s)'
        BY <1>3, <3>2, <3>3
      <3>5. Reuse(sid[r])'
        BY <2>2, <3>4 DEF Reuse
      <3>6. QED
        BY <1>11, <1>13, <1>14, <2>1, <2>2, <2>4, <3>5 DEF ReuseInv
    <2>5. QED
      BY <2>3, <2>4
  <1>17. CASE /\ UNCHANGED hash /\ pc'[r] \notin {"answer", "rotate", "mismatch"}
              /\ pc'[r] \in {"device", "add", "again", "session"} => pc[r] \in {"new", "device", "add", "again"}
    <2>1. pc'[r] # "new"
      BY HandlersStep, AccountsMoves, StopsMoves, Moved DEF AccountsAct
    <2>2. Sessions' = Sessions
      BY <1>17 DEF Sessions
    <2>3. pc'[r] \in {"new", "device", "add", "again", "session"} => r \notin Sessions'
      BY <1>17, <2>1, <2>2 DEF ReuseInv
    <2>4. QED
      BY <1>13, <1>14, <1>17, <2>3 DEF ReuseInv
  <1>18. QED
    BY <1>7, <1>15, <1>16, <1>17

-----------------------------------------------------------------------------
(* Password resets.                                                        *)

ResetsAlone == \A q \in Requests : op[q] = "reset" => met[q] = {} /\ pc[q] # "failed"

(* Session s can be used, or will be when a request under way succeeds.    *)
CanBeUsed(s) ==
  \/ Live(s)
  \/ s \in Requests /\ pc[s] \in {"device", "add", "again", "session"}
  \/ \E q \in Requests : pc[q] = "rotate" /\ sid[q] = s

(* While a reset has written the password, and nobody is active beside it, *)
(* it has still to revoke the sessions; at all other times the sessions    *)
(* were opened with the password in force.                                 *)
ResetInv ==
  ResetsAlone =>
    \/ \E q \in Requests : op[q] = "reset" /\ pc[q] = "revokeAll"
    \/ \A s \in Ids : CanBeUsed(s) => seen[s] = password

(* A session becomes usable by a login, with the password in force.        *)
LEMMA BecomesUsable ==
  ASSUME HandlersInv, AccountsInv, ReuseInv, NEW r \in Requests, AccountsAct(r), NEW s \in Ids
  PROVE  \/ WritePassword(r)
         \/ RevokeAll(r)
         \/ /\ password' = password
            /\ ~ (op[r] = "reset" /\ pc[r] = "revokeAll" /\ pc'[r] # "failed")
            /\ CanBeUsed(s)' => (CanBeUsed(s) /\ seen'[s] = seen[s]) \/ seen'[s] = password
  <1> USE DEF HandlersInv, AccountsInv, AccountsTypeOK, ReuseInv, accounts, locals, sessions,
              Goto, At, Arrive, CanBeUsed, Live, Sessions
  <1>1. CASE Stops(r) /\ UNCHANGED accounts
    BY <1>1 DEF Stops, FailsOnTo
  <1>2. CASE Register(r) \/ CreateUser(r)
    BY <1>2 DEF Register, CreateUser
  <1>3. CASE Login(r)
    <2>1. /\ password' = password /\ hash' = hash /\ revoked' = revoked /\ pc[r] = "new"
          /\ pc' = [pc EXCEPT ![r] = "device"]
          /\ sid' = [sid EXCEPT ![r] = r] /\ seen' = [seen EXCEPT ![r] = password]
      BY <1>3 DEF Login
    <2>2. pc'[r] = "device" /\ seen'[r] = password
      BY <2>1, HandlersAssumption DEF Ids
    <2>3. s # r => seen'[s] = seen[s]
      BY <2>1
    <2>4. \A q \in Requests \ {r} : pc'[q] = pc[q] /\ sid'[q] = sid[q]
      BY <2>1
    <2>5. CanBeUsed(s)' => CanBeUsed(s) \/ s = r
      BY <2>1, <2>2, <2>4
    <2>6. QED
      BY <2>1, <2>2, <2>3, <2>5
  <1>4. CASE FindDevice(r) \/ AddDevice(r) \/ FindDeviceAgain(r)
    BY <1>4 DEF FindDevice, AddDevice, FindDeviceAgain
  <1>5. CASE CreateSession(r) \/ Answer(r)
    BY <1>5 DEF CreateSession, Answer
  <1>6. CASE Refresh(r)
    BY <1>6 DEF Refresh
  <1>7. CASE Rotate(r)
    BY <1>7 DEF Rotate
  <1>8. CASE Mismatch(r) \/ RevokeSession(r)
    BY <1>8 DEF Mismatch, RevokeSession, Revoke
  <1>9. CASE Logout(r) \/ LogoutAll(r)
    BY <1>9 DEF Logout, LogoutAll
  <1>10. CASE DeactivateDevice(r) \/ Deactivate(r)
    BY <1>10 DEF DeactivateDevice, Deactivate
  <1>11. CASE PasswordReset(r)
    <2>1. /\ password' = password /\ hash' = hash /\ revoked' = revoked /\ pc[r] = "new"
          /\ pc' = [pc EXCEPT ![r] = "write"]
          /\ sid' = sid /\ seen' = [seen EXCEPT ![r] = password]
      BY <1>11 DEF PasswordReset
    <2>2. seen'[s] = IF s = r THEN password ELSE seen[s]
      BY <2>1
    <2>3. CanBeUsed(s)' => CanBeUsed(s)
      BY <2>1
    <2>4. QED
      BY <2>1, <2>2, <2>3
  <1>12. QED
    BY <1>1, <1>2, <1>3, <1>4, <1>5, <1>6, <1>7, <1>8, <1>9, <1>10, <1>11
    DEF AccountsAct, AccountsStep

LEMMA ResetStep ==
  ASSUME HandlersInv, HandlersInv', Grows, AccountsInv, AccountsInv', ReuseInv, ResetInv,
         NEW r \in Requests, AccountsAct(r)
  PROVE  ResetInv'
  <1> SUFFICES ASSUME ResetsAlone'
               PROVE  \/ \E q \in Requests : op'[q] = "reset" /\ pc'[q] = "revokeAll"
                      \/ \A s \in Ids : CanBeUsed(s)' => seen'[s] = password'
    BY DEF ResetInv
  <1>1. ASSUME NEW q \in Requests, op[q] = "reset"
        PROVE  pc[q] # "new" /\ op'[q] = "reset" /\ met[q] = {} /\ met'[q] = {}
               /\ pc[q] # "failed" /\ pc'[q] # "failed"
    BY <1>1 DEF HandlersInv, ResetsAlone, Grows, Active
  <1>2. ResetsAlone
    BY <1>1 DEF ResetsAlone
  <1>3. CASE \E q \in Requests : op[q] = "reset" /\ pc[q] = "revokeAll"
    <2>1. PICK q \in Requests : op[q] = "reset" /\ pc[q] = "revokeAll"
      BY <1>3
    <2>2. CASE r = q /\ RevokeAll(r)
      <3>1. /\ revoked' = revoked \union (Sessions \ revoked) /\ hash' = hash
            /\ pc' = [pc EXCEPT ![r] = "ok"] /\ sid' = sid
        BY <2>2 DEF RevokeAll, Revoke, Goto, locals
      <3>2. \A s \in Ids : ~ Live(s)'
        BY <3>1 DEF Live, Sessions
      <3>3. \A p \in Requests \ {q} : ~ Active(p)
        BY <1>1, <2>1 DEF HandlersInv, Active
      <3>4. \A s \in Ids : ~ CanBeUsed(s)'
        BY <2>2, <3>1, <3>2, <3>3 DEF CanBeUsed, Active, HandlersInv
      <3>5. QED
        BY <3>4
    <2>3. CASE r = q /\ ~ RevokeAll(r)
      BY <1>1, <2>1, <2>3, BecomesUsable DEF WritePassword, At, Ids
    <2>4. CASE r # q
      <3>1. pc'[q] = pc[q]
        BY <2>4, HandlersStep, AccountsMoves, StopsMoves DEF AccountsAct
      <3>2. QED
        BY <1>1, <2>1, <3>1
    <2>5. QED
      BY <2>2, <2>3, <2>4
  <1>4. CASE \A s \in Ids : CanBeUsed(s) => seen[s] = password
    <2>1. CASE WritePassword(r)
      BY <2>1 DEF WritePassword, At, Goto, HandlersInv
    <2>2. CASE RevokeAll(r)
      <3>1. /\ revoked' = revoked \union (Sessions \ revoked) /\ hash' = hash
            /\ pc' = [pc EXCEPT ![r] = "ok"] /\ sid' = sid /\ seen' = seen /\ password' = password
        BY <2>2 DEF RevokeAll, Revoke, Goto, locals
      <3>2. ASSUME NEW s \in Ids PROVE CanBeUsed(s)' => CanBeUsed(s)
        BY <3>1 DEF CanBeUsed, Live, Sessions, HandlersInv
      <3>3. QED
        BY <1>4, <3>1, <3>2
    <2>3. CASE ~ WritePassword(r) /\ ~ RevokeAll(r)
      BY <1>4, <2>3, BecomesUsable
    <2>4. QED
      BY <2>1, <2>2, <2>3
  <1>5. QED
    BY <1>2, <1>3, <1>4 DEF ResetInv

-----------------------------------------------------------------------------

(* What holds of accounts, and of those of a behaviour of another service. *)
AllOfAccounts ==
  /\ service = "accounts" => AccountsInv /\ RevivalInv /\ ReuseInv /\ ResetInv
  /\ service # "accounts" => \A s \in Ids : hash[s] = Nobody /\ revokers[s] = {}

LEMMA AccountsInitially == Init => AllOfAccounts
  <1> SUFFICES ASSUME Init PROVE AllOfAccounts
    OBVIOUS
  <1> USE HandlersAssumption DEF Init, HandlersInit, AccountsInit, Ids
  <1>1. service = "accounts" => AccountsInv
    BY DEF AccountsInv, AccountsTypeOK
  <1>2. RevivalInv
    BY DEF RevivalInv
  <1>3. ReuseInv
    BY DEF ReuseInv, Spent, Sessions
  <1>4. ResetInv
    BY DEF ResetInv, CanBeUsed, Live, Sessions
  <1>5. QED
    BY <1>1, <1>2, <1>3, <1>4 DEF AllOfAccounts

LEMMA AccountsNextInv ==
  HandlersInv /\ HandlersInv' /\ Grows /\ AllOfAccounts /\ [Next]_vars => AllOfAccounts'
  <1> SUFFICES ASSUME HandlersInv, HandlersInv', Grows, AllOfAccounts, [Next]_vars
               PROVE  AllOfAccounts'
    OBVIOUS
  <1>1. service' = service
    BY DEF Grows
  <1>2. CASE service # "accounts"
    BY <1>1, <1>2, AccountsFrame DEF AllOfAccounts, accounts, sessions
  <1>3. CASE service = "accounts"
    <2>1. AccountsInv /\ RevivalInv /\ ReuseInv /\ ResetInv
      BY <1>3 DEF AllOfAccounts
    <2>2. CASE UNCHANGED <<handling, accounts>>
      <3>1. AccountsInv'
        BY <2>1, <2>2 DEF handling, accounts, sessions, locals, AccountsInv, AccountsTypeOK
      <3>2. RevivalInv'
        BY <2>1, <2>2 DEF handling, accounts, sessions, locals, RevivalInv, Revived
      <3>3. ReuseInv'
        BY <2>1, <2>2 DEF handling, accounts, sessions, locals, ReuseInv, Spent, Presented, Reuse, Sessions
      <3>4. ResetInv'
        BY <2>1, <2>2 DEF handling, accounts, sessions, locals, ResetInv, ResetsAlone, CanBeUsed, Live, Sessions
      <3>5. QED
        BY <1>1, <1>3, <3>1, <3>2, <3>3, <3>4 DEF AllOfAccounts
    <2>3. CASE \E r \in Requests : AccountsAct(r)
      <3>1. PICK r \in Requests : AccountsAct(r)
        BY <2>3
      <3>2. AccountsInv'
        BY <2>1, <3>1, AccountsTyped
      <3>3. RevivalInv' /\ ReuseInv' /\ ResetInv'
        BY <2>1, <3>1, <3>2, RevivalStep, ReuseStep, ResetStep
      <3>4. QED
        BY <1>1, <1>3, <3>2, <3>3 DEF AllOfAccounts
    <2>4. QED
      BY <1>3, <2>2, <2>3, AccountsFrame
  <1>4. QED
    BY <1>2, <1>3

LEMMA Accounting == Spec => []AllOfAccounts
  BY Requesting, AccountsInitially, AccountsNextInv, HandlersNext, PTL DEF Spec

(* A revoked session only lives again through a refresh that was under way *)
(* together with the request that revoked it, for any number of requests.  *)
THEOREM RevivalNeedsOverlap == Spec => []RevivedOnlyByOverlap
  <1>1. HandlersInv /\ AllOfAccounts => RevivedOnlyByOverlap
    <2> SUFFICES ASSUME HandlersInv, AllOfAccounts, NEW s \in Ids, Live(s), NEW q \in revokers[s]
                 PROVE  \E r \in met[q] \union {q} : op[r] = "refresh" /\ sid[r] = s /\ r # q
      BY DEF RevivedOnlyByOverlap
    <2>1. service = "accounts"
      BY DEF AllOfAccounts
    <2>2. q \in Requests /\ Revived(s, q)
      BY <2>1 DEF AllOfAccounts, RevivalInv, AccountsInv, AccountsTypeOK, Live
    <2>3. QED
      BY <2>2 DEF Revived, HandlersInv
  <1>2. QED
    BY <1>1, Requesting, Accounting, PTL

(* A client is refused for an old token only if some token of its session  *)
(* was presented twice: rotation by itself never locks a client out.       *)
THEOREM MismatchNeedsReuse == Spec => []MismatchMeansReuse
  <1>1. HandlersInv /\ AllOfAccounts => MismatchMeansReuse
    <2> SUFFICES ASSUME HandlersInv, AllOfAccounts, NEW r \in Requests, At(r, "refresh", "mismatch")
                 PROVE  Reuse(sid[r])
      BY DEF MismatchMeansReuse, Reuse
    <2>1. QED
      BY DEF AllOfAccounts, ReuseInv, At, HandlersInv, Belongs, BesideCall, Marks
  <1>2. QED
    BY <1>1, Requesting, Accounting, PTL

(* When every reset ran alone and to its end, every live session was       *)
(* opened with the password in force.                                      *)
THEOREM ResetsClose == Spec => []ResetClosesSessions
  <1>1. AllOfAccounts => ResetClosesSessions
    <2> SUFFICES ASSUME AllOfAccounts,
                        \A q \in Requests : op[q] = "reset" => met[q] = {} /\ pc[q] = "ok",
                        NEW s \in Ids, Live(s)
                 PROVE  seen[s] = password
      BY DEF ResetClosesSessions
    <2>1. service = "accounts"
      BY DEF AllOfAccounts, Live, Sessions
    <2>2. QED
      BY <2>1 DEF AllOfAccounts, ResetInv, ResetsAlone, CanBeUsed
  <1>2. QED
    BY <1>1, Accounting, PTL

-----------------------------------------------------------------------------
(* Calls.                                                                  *)

BesideStep(r) == AskBesideCall(r) \/ RecordQualityMetric(r) \/ ChangeParticipant(r)

CallsAct(r) ==
  \/ CallsStep(r) /\ UNCHANGED metric
  \/ BesideStep(r) /\ UNCHANGED calls
  \/ Stops(r) /\ UNCHANGED <<calls, metric>>

LEMMA CallsFrame ==
  [Next]_vars =>
    /\ service \in {"calls", "metrics"} =>
         (\E r \in Requests : CallsAct(r)) \/ UNCHANGED <<handling, calls, metric>>
    /\ service \notin {"calls", "metrics"} => UNCHANGED calls
  BY DEF Next, CallsNext, Stop, vars, CallsAct, BesideStep

LEMMA CallsActMoves == ASSUME NEW r \in Requests, CallsAct(r) PROVE Moves(r)
  BY CallsMoves, BesideCallMoves, StopsMoves DEF CallsAct, BesideStep

AfterEnd == {"removeState", "readDuration", "publishEnded", "ok", "failed"}

(* Which statements an operation has; that a call is connected and ended   *)
(* by requests that came after its creation; and who ended it has written  *)
(* the end.                                                                *)
CallsInv ==
  /\ CallsTypeOK
  /\ \A r \in Requests : pc[r] \in {"readCall", "writeEnd", "removeState", "readDuration", "publishEnded"}
                           => op[r] = "end"
  /\ \A r \in Requests : pc[r] \in {"connect", "getState", "putState"} => op[r] = "connect"
  /\ \A r \in Requests : pc[r] = "setState" => op[r] = "create"
  /\ creator = Nobody => \A r \in Requests : op[r] # "end"
  /\ ended # Nobody => ended \in Requests /\ op[ended] = "end" /\ pc[ended] \in AfterEnd

LEMMA CallsTyped ==
  ASSUME HandlersInv, CallsInv, NEW r \in Requests, CallsAct(r)
  PROVE  CallsInv'
  <1> USE HandlersAssumption
      DEF CallsInv, CallsTypeOK, HandlersInv, calls, NoDuration, AfterEnd, Goto, FailsOnTo, Arrive, Reading
  <1>1. CASE Stops(r) /\ UNCHANGED <<calls, metric>>
    BY <1>1 DEF Stops, Active
  <1>2. CASE BesideStep(r) /\ UNCHANGED calls
    <2>1. CASE AskBesideCall(r)
      <3>1. PICK o \in BesideCall : Arrive(r, "metrics", o, o)
        BY <2>1 DEF AskBesideCall
      <3>2. /\ pc[r] = "new" /\ pc' = [pc EXCEPT ![r] = o] /\ op' = [op EXCEPT ![r] = o]
            /\ o \notin AfterEnd /\ o \notin {"readCall", "writeEnd", "end", "connect", "getState",
                                             "putState", "setState"}
        BY <3>1 DEF BesideCall
      <3>3. metric' = metric
        BY <2>1 DEF AskBesideCall
      <3>4. QED
        BY <1>2, <3>2, <3>3
    <2>2. CASE RecordQualityMetric(r)
      BY <1>2, <2>2 DEF RecordQualityMetric
    <2>3. CASE ChangeParticipant(r)
      BY <1>2, <2>3 DEF ChangeParticipant, BesideCall
    <2>4. QED
      BY <1>2, <2>1, <2>2, <2>3 DEF BesideStep
  <1>3. CASE CreateCall(r) /\ UNCHANGED metric
    BY <1>3 DEF CreateCall
  <1>4. CASE SetState(r) /\ UNCHANGED metric
    BY <1>4 DEF SetState
  <1>5. CASE MarkConnected(r) /\ UNCHANGED metric
    BY <1>5 DEF MarkConnected
  <1>6. CASE Connect(r) /\ UNCHANGED metric
    BY <1>6 DEF Connect
  <1>7. CASE GetState(r) /\ UNCHANGED metric
    BY <1>7 DEF GetState
  <1>8. CASE PutState(r) /\ UNCHANGED metric
    BY <1>8 DEF PutState
  <1>9. CASE EndCall(r) /\ UNCHANGED metric
    BY <1>9 DEF EndCall
  <1>10. CASE ReadCall(r) /\ UNCHANGED metric
    BY <1>10 DEF ReadCall
  <1>11. CASE WriteEnd(r) /\ UNCHANGED metric
    BY <1>11 DEF WriteEnd
  <1>12. CASE RemoveState(r) /\ UNCHANGED metric
    BY <1>12 DEF RemoveState
  <1>13. CASE ReadDuration(r) /\ UNCHANGED metric
    <2>1. pc[r] = "readDuration" /\ pc' = [pc EXCEPT ![r] = "publishEnded"] /\ op' = op
          /\ UNCHANGED <<creator, connected, ended, duration, state, row, endEvents, metric>>
      BY <1>13 DEF ReadDuration
    <2>2. length' \in {length, [length EXCEPT ![r] = duration]}
      BY <1>13 DEF ReadDuration
    <2>3. length' \in [Requests -> (Requests \union {Nobody}) \X (Requests \union {Nobody})]
      BY <2>2
    <2>4. QED
      BY <2>1, <2>3
  <1>14. CASE PublishEnded(r) /\ UNCHANGED metric
    BY <1>14 DEF PublishEnded
  <1>15. QED
    BY <1>1, <1>2, <1>3, <1>4, <1>5, <1>6, <1>7, <1>8, <1>9, <1>10, <1>11, <1>12, <1>13, <1>14
    DEF CallsAct, CallsStep

(* What a request that does not end the call leaves alone.                 *)
LEMMA CallsKinds ==
  ASSUME HandlersInv, CallsInv, NEW r \in Requests, CallsAct(r)
  PROVE  \/ WriteEnd(r) \/ Connect(r) \/ ReadDuration(r) \/ PublishEnded(r)
         \/ /\ UNCHANGED <<connected, ended, duration, length, endEvents>>
            /\ pc[r] = "removeState" => pc'[r] = "readDuration" \/ r \in faulted'
            /\ pc[r] \in {"readDuration", "publishEnded"} => r \in faulted'
            /\ pc'[r] = "connect" => MarkConnected(r)
            /\ pc'[r] = "writeEnd" => ReadCall(r)
  <1> USE DEF HandlersInv, calls, Goto, FailsOnTo, Arrive, Reading
  <1>1. CASE Stops(r) /\ UNCHANGED <<calls, metric>>
    BY <1>1 DEF Stops
  <1>2. CASE BesideStep(r) /\ UNCHANGED calls
    BY <1>2 DEF BesideStep, AskBesideCall, RecordQualityMetric, ChangeParticipant, BesideCall
  <1>3. CASE CreateCall(r) \/ SetState(r) \/ GetState(r) \/ PutState(r)
    BY <1>3 DEF CreateCall, SetState, GetState, PutState
  <1>4. CASE EndCall(r) \/ ReadCall(r) \/ RemoveState(r) \/ MarkConnected(r)
    BY <1>4 DEF EndCall, ReadCall, RemoveState, MarkConnected
  <1>5. QED
    BY <1>1, <1>2, <1>3, <1>4 DEF CallsAct, CallsStep

(* Who ended the call for good is on the way to tell its duration.         *)
AnnounceInv ==
  ended # Nobody /\ ended \notin faulted =>
    \/ pc[ended] \in {"removeState", "readDuration"}
    \/ pc[ended] = "publishEnded" /\ length[ended] = duration
    \/ [by |-> ended, duration |-> duration] \in endEvents

LEMMA AnnounceStep ==
  ASSUME HandlersInv, Grows, CallsInv, AnnounceInv, NEW r \in Requests, CallsAct(r)
  PROVE  AnnounceInv'
  <1>1. \A q \in Requests \ {r} : pc'[q] = pc[q]
    BY HandlersStep, CallsActMoves
  <1>2. faulted \subseteq faulted'
    BY DEF Grows
  <1>3. CASE WriteEnd(r)
    BY <1>3 DEF WriteEnd, Goto, AnnounceInv, HandlersInv
  <1>4. CASE Connect(r)
    <2>1. UNCHANGED <<ended, duration, length, endEvents>> /\ op[r] = "connect"
      BY <1>4 DEF Connect, CallsInv
    <2>2. ended # Nobody => ended \in Requests \ {r}
      BY <2>1 DEF CallsInv
    <2>3. QED
      BY <1>1, <1>2, <2>1, <2>2 DEF AnnounceInv
  <1>5. CASE ReadDuration(r)
    BY <1>1, <1>2, <1>5 DEF ReadDuration, Goto, FailsOnTo, AnnounceInv, CallsInv, CallsTypeOK, HandlersInv
  <1>6. CASE PublishEnded(r)
    BY <1>1, <1>2, <1>6 DEF PublishEnded, Goto, AnnounceInv, CallsInv, HandlersInv
  <1>7. CASE /\ UNCHANGED <<connected, ended, duration, length, endEvents>>
             /\ pc[r] = "removeState" => pc'[r] = "readDuration" \/ r \in faulted'
             /\ pc[r] \in {"readDuration", "publishEnded"} => r \in faulted'
    BY <1>1, <1>2, <1>7 DEF AnnounceInv, CallsInv
  <1>8. QED
    BY <1>3, <1>4, <1>5, <1>6, <1>7, CallsKinds

(* The call was connected by a request that had read that it was over, or  *)
(* that overlapped one that ended it.                                      *)
LateConnect ==
  \E p \in Requests :
    /\ op[p] = "connect"
    /\ row[p][2] # Nobody \/ \E q \in met[p] : op[q] = "end"

(* The duration fits the times in the row, and the time that an end has    *)
(* read is the one there, unless a late connection came between.           *)
DurationInv ==
  /\ ended # Nobody =>
       LateConnect \/ duration = IF connected = Nobody THEN NoDuration ELSE <<connected, ended>>
  /\ ended = Nobody => duration = NoDuration
  /\ \A q \in Requests : pc[q] = "writeEnd" => LateConnect \/ row[q][1] = connected
  /\ \A p \in Requests : pc[p] = "connect" => LateConnect \/ ended = Nobody

LEMMA DurationStep ==
  ASSUME HandlersInv, HandlersInv', Grows, CallsInv, CallsInv', DurationInv,
         NEW r \in Requests, CallsAct(r)
  PROVE  DurationInv'
  <1>1. \A q \in Requests \ {r} : pc'[q] = pc[q]
    BY HandlersStep, CallsActMoves
  <1>2. /\ \A q \in Requests \ {r} : row'[q] = row[q]
        /\ op[r] = "connect" => row'[r] = row[r]
    <2> USE DEF HandlersInv, CallsInv, CallsTypeOK, calls, Goto, FailsOnTo, Arrive, Reading
    <2>1. CASE UNCHANGED row
      BY <2>1
    <2>2. CASE ReadCall(r) \/ EndCall(r) \/ MarkConnected(r)
      BY <2>2 DEF ReadCall, EndCall, MarkConnected
    <2>3. QED
      BY <2>1, <2>2 DEF CallsAct, CallsStep, CreateCall, SetState, Connect, GetState, PutState,
         WriteEnd, RemoveState, ReadDuration, PublishEnded
  <1>3. ASSUME LateConnect PROVE LateConnect'
    <2>1. PICK p \in Requests : /\ op[p] = "connect"
                                /\ row[p][2] # Nobody \/ \E q \in met[p] : op[q] = "end"
      BY <1>3 DEF LateConnect
    <2>2. op'[p] = "connect" /\ row'[p] = row[p]
      BY <1>2, <2>1 DEF Grows, HandlersInv
    <2>3. ASSUME NEW q \in met[p], op[q] = "end" PROVE q \in met'[p] /\ op'[q] = "end"
      BY <2>3 DEF Grows, HandlersInv
    <2>4. QED
      BY <2>1, <2>2, <2>3 DEF LateConnect
  <1>4. ASSUME NEW p \in Requests, NEW q \in Requests, pc[p] = "connect",
               op[q] = "end", Active(q)
        PROVE  LateConnect'
    <2>1. op[p] = "connect" /\ p # q /\ q \in met[p]
      BY <1>4 DEF CallsInv, HandlersInv, Active
    <2>2. LateConnect
      BY <1>4, <2>1 DEF LateConnect
    <2>3. QED
      BY <1>3, <2>2
  <1>5. CASE WriteEnd(r)
    <2>1. /\ pc[r] = "writeEnd" /\ op[r] = "end" /\ Active(r) /\ pc'[r] = "removeState"
          /\ ended' = r /\ duration' = (IF row[r][1] = Nobody THEN duration ELSE <<row[r][1], r>>)
          /\ connected' = connected /\ row' = row
      BY <1>5 DEF WriteEnd, Goto, HandlersInv, CallsInv, Active
    <2>2. \A p \in Requests : pc'[p] = "connect" => LateConnect'
      BY <1>1, <1>4, <2>1
    <2>3. LateConnect' \/ (row[r][1] = connected /\ (ended # Nobody =>
            duration = IF connected = Nobody THEN NoDuration ELSE <<connected, ended>>))
      BY <1>3, <2>1 DEF DurationInv
    <2>4. r # Nobody
      BY HandlersAssumption
    <2>5. QED
      BY <1>1, <1>3, <2>1, <2>2, <2>3, <2>4 DEF DurationInv
  <1>6. CASE Connect(r)
    <2>1. /\ pc[r] = "connect" /\ connected' = r /\ pc'[r] = "getState"
          /\ UNCHANGED <<ended, duration, row>>
      BY <1>6 DEF Connect, Goto, HandlersInv
    <2>2. \A q \in Requests : pc[q] = "writeEnd" => LateConnect'
      BY <1>4, <2>1 DEF CallsInv, Active
    <2>3. LateConnect' \/ ended = Nobody
      BY <1>3, <2>1 DEF DurationInv
    <2>4. \A q \in Requests : pc'[q] = "writeEnd" => pc[q] = "writeEnd"
      BY <1>1, <2>1
    <2>5. \A q \in Requests : pc'[q] = "connect" => pc[q] = "connect"
      BY <1>1, <2>1
    <2>6. QED
      BY <1>3, <2>1, <2>2, <2>3, <2>4, <2>5 DEF DurationInv
  <1>7. CASE ReadDuration(r) \/ PublishEnded(r)
    <2>1. UNCHANGED <<connected, ended, duration, row>> /\ pc'[r] \notin {"connect", "writeEnd"}
      BY <1>7 DEF ReadDuration, PublishEnded, Goto, FailsOnTo, HandlersInv
    <2>2. QED
      BY <1>1, <1>3, <2>1 DEF DurationInv
  <1>8. CASE /\ UNCHANGED <<connected, ended, duration>>
             /\ pc'[r] = "connect" => MarkConnected(r)
             /\ pc'[r] = "writeEnd" => ReadCall(r)
    <2>1. MarkConnected(r) => row'[r][2] = ended /\ op'[r] = "connect"
      BY DEF MarkConnected, Arrive, Reading, HandlersInv, CallsInv, CallsTypeOK
    <2>2. ReadCall(r) => row'[r][1] = connected
      BY DEF ReadCall, Reading, CallsInv, CallsTypeOK
    <2>3. pc'[r] = "connect" => LateConnect' \/ ended' = Nobody
      BY <1>8, <2>1 DEF LateConnect
    <2>4. QED
      BY <1>1, <1>2, <1>3, <1>8, <2>2, <2>3 DEF DurationInv
  <1>9. QED
    BY <1>5, <1>6, <1>7, <1>8, CallsKinds

(* A request that ends the call has not removed its state yet, or failed   *)
(* to, or met a request that writes it.                                    *)
Excuses(q) ==
  /\ op[q] = "end"
  /\ \/ pc[q] \in {"readCall", "writeEnd", "removeState"}
     \/ q \in faulted
     \/ \E p \in met[q] : op[p] \in {"create", "connect"}

(* An ended call has a state, or will be given one, only if some end of it *)
(* can be excused; a request that is still to create the state has met     *)
(* every end of the call.                                                  *)
StateInv ==
  /\ state # "none" /\ ended # Nobody => \E q \in Requests : Excuses(q)
  /\ \A p \in Requests : pc[p] = "putState" /\ ended # Nobody => \E q \in Requests : Excuses(q)
  /\ \A p, q \in Requests : pc[p] = "setState" /\ op[q] = "end" => p \in met[q]

LEMMA StateKinds ==
  ASSUME HandlersInv, CallsInv, NEW r \in Requests, CallsAct(r)
  PROVE  \/ SetState(r) \/ PutState(r) \/ WriteEnd(r) \/ RemoveState(r) \/ GetState(r)
         \/ CreateCall(r) \/ EndCall(r)
         \/ /\ UNCHANGED <<state, ended>>
            /\ pc'[r] \notin {"putState", "setState"}
            /\ pc[r] = "removeState" => r \in faulted'
            /\ pc[r] \in {"readCall", "writeEnd"} => r \in faulted' \/ pc'[r] = "writeEnd"
            /\ op'[r] = "end" => op[r] = "end"
  <1> USE DEF HandlersInv, calls, Goto, FailsOnTo, Arrive, Reading
  <1>1. CASE Stops(r) /\ UNCHANGED <<calls, metric>>
    BY <1>1 DEF Stops
  <1>2. CASE BesideStep(r) /\ UNCHANGED calls
    BY <1>2 DEF BesideStep, AskBesideCall, RecordQualityMetric, ChangeParticipant, BesideCall
  <1>3. CASE MarkConnected(r) \/ Connect(r)
    BY <1>3 DEF MarkConnected, Connect
  <1>4. CASE ReadCall(r) \/ ReadDuration(r) \/ PublishEnded(r)
    BY <1>4 DEF ReadCall, ReadDuration, PublishEnded
  <1>5. QED
    BY <1>1, <1>2, <1>3, <1>4 DEF CallsAct, CallsStep

LEMMA StateStep ==
  ASSUME HandlersInv, HandlersInv', Grows, CallsInv, CallsInv', StateInv,
         NEW r \in Requests, CallsAct(r)
  PROVE  StateInv'
  <1>1. \A q \in Requests \ {r} : pc'[q] = pc[q] /\ op'[q] = op[q]
    BY HandlersStep, CallsActMoves
  <1>2. \A q \in Requests : /\ met[q] \subseteq met'[q] /\ met[q] \subseteq Requests
                            /\ (op[q] # "none" => op'[q] = op[q])
    BY DEF Grows, HandlersInv
  <1>3. ASSUME NEW q \in Requests, Excuses(q),
               pc[q] = "removeState" /\ q = r => r \in faulted',
               pc[q] \in {"readCall", "writeEnd"} /\ q = r =>
                 r \in faulted' \/ pc'[r] \in {"readCall", "writeEnd", "removeState"}
        PROVE  Excuses(q)'
    BY <1>1, <1>2, <1>3 DEF Excuses, Grows
  <1>4. ASSUME NEW p \in Requests, NEW q \in Requests, p # q, Active(p), Active(q),
               op[p] \in {"create", "connect"}, op[q] = "end"
        PROVE  Excuses(q)'
    <2>1. p \in met[q]
      BY <1>4 DEF HandlersInv
    <2>2. QED
      BY <1>2, <1>4, <2>1 DEF Excuses
  <1>5. \A p, q \in Requests : p # r /\ q # r /\ pc'[p] = "setState" /\ op'[q] = "end" => p \in met'[q]
    BY <1>1, <1>2 DEF StateInv
  <1>6. CASE SetState(r)
    <2>1. /\ pc[r] = "setState" /\ op[r] = "create" /\ pc'[r] \notin {"setState", "putState"}
          /\ ended' = ended /\ (pc[r] = "readCall" => FALSE)
      BY <1>6 DEF SetState, Goto, FailsOnTo, HandlersInv, CallsInv
    <2>2. ASSUME ended # Nobody PROVE \E q \in Requests : Excuses(q)'
      <3>1. ended \in Requests /\ op[ended] = "end" /\ r \in met[ended]
        BY <2>1, <2>2 DEF CallsInv, StateInv
      <3>2. Excuses(ended)
        BY <2>1, <3>1 DEF Excuses
      <3>3. PICK q \in Requests : q = ended
        BY <3>1
      <3>4. Excuses(q)'
        BY <1>3, <2>1, <3>2, <3>3
      <3>5. QED
        BY <3>4
    <2>3. QED
      BY <1>1, <1>2, <2>1, <2>2 DEF StateInv
  <1>7. CASE PutState(r)
    <2>1. pc[r] = "putState" /\ pc'[r] = "ok" /\ ended' = ended /\ op[r] = "connect"
      BY <1>7 DEF PutState, Goto, HandlersInv, CallsInv
    <2>2. ASSUME ended # Nobody PROVE \E q \in Requests : Excuses(q)'
      <3>1. PICK q \in Requests : Excuses(q)
        BY <2>1, <2>2 DEF StateInv
      <3>2. QED
        BY <1>3, <2>1, <3>1
    <2>3. QED
      BY <1>1, <1>2, <2>1, <2>2 DEF StateInv
  <1>8. CASE WriteEnd(r)
    <2>1. pc'[r] = "removeState" /\ op[r] = "end" /\ op'[r] = "end"
      BY <1>8 DEF WriteEnd, Goto, HandlersInv, CallsInv
    <2>2. Excuses(r)'
      BY <2>1 DEF Excuses
    <2>3. QED
      BY <1>1, <1>2, <2>1, <2>2 DEF StateInv
  <1>9. CASE RemoveState(r)
    <2>1. /\ pc[r] = "removeState" /\ pc'[r] = "readDuration" /\ op[r] = "end" /\ Active(r)
          /\ ended' = ended
          /\ state' = "none" \/ (state' = state /\ r \in faulted')
      BY <1>9 DEF RemoveState, Goto, FailsOnTo, HandlersInv, CallsInv, Active
    <2>2. ASSUME NEW q \in Requests, Excuses(q), state' = state /\ r \in faulted' PROVE Excuses(q)'
      BY <1>3, <2>1, <2>2
    <2>3. ASSUME NEW p \in Requests, pc'[p] = "putState", ended # Nobody
          PROVE  \E q \in Requests : Excuses(q)'
      <3>1. pc[p] = "putState" /\ p # r /\ Active(p) /\ op[p] = "connect"
        BY <1>1, <2>1, <2>3 DEF CallsInv, Active
      <3>2. QED
        BY <1>4, <2>1, <3>1
    <2>4. \A p, q \in Requests : pc'[p] = "setState" /\ op'[q] = "end" => p \in met'[q]
      BY <1>1, <1>2, <2>1 DEF StateInv
    <2>5. QED
      BY <2>1, <2>2, <2>3, <2>4 DEF StateInv
  <1>10. CASE GetState(r)
    <2>1. /\ pc[r] = "getState" /\ state' = state /\ ended' = ended
          /\ pc'[r] = IF state = "none" THEN "failed" ELSE "putState"
      BY <1>10 DEF GetState, Goto, HandlersInv, calls
    <2>2. ASSUME NEW q \in Requests, Excuses(q) PROVE Excuses(q)'
      BY <1>3, <2>1, <2>2
    <2>3. \A p, q \in Requests : pc'[p] = "setState" /\ op'[q] = "end" => p \in met'[q]
      BY <1>1, <1>2, <2>1 DEF StateInv, CallsInv
    <2>4. QED
      BY <1>1, <2>1, <2>2, <2>3 DEF StateInv
  <1>11. CASE CreateCall(r)
    <2>1. /\ pc[r] = "new" /\ pc'[r] = "setState" /\ op'[r] = "create" /\ creator = Nobody
          /\ state' = state /\ ended' = ended
      BY <1>11 DEF CreateCall, Arrive, HandlersInv
    <2>2. \A q \in Requests : op'[q] # "end"
      BY <1>1, <2>1 DEF CallsInv
    <2>3. ended = Nobody
      BY <2>1 DEF CallsInv
    <2>4. QED
      BY <2>1, <2>2, <2>3 DEF StateInv
  <1>12. CASE EndCall(r)
    <2>1. /\ pc[r] = "new" /\ pc'[r] = "readCall" /\ op'[r] = "end"
          /\ state' = state /\ ended' = ended
          /\ met'[r] = {a \in Requests : Active(a)}
      BY <1>12 DEF EndCall, Arrive, HandlersInv
    <2>2. ASSUME NEW q \in Requests, Excuses(q) PROVE Excuses(q)'
      BY <1>3, <2>1, <2>2
    <2>3. \A p \in Requests : pc'[p] = "setState" => p \in met'[r]
      BY <1>1, <2>1 DEF Active
    <2>4. QED
      BY <1>1, <1>2, <2>1, <2>2, <2>3 DEF StateInv
  <1>13. CASE /\ UNCHANGED <<state, ended>>
              /\ pc'[r] \notin {"putState", "setState"}
              /\ pc[r] = "removeState" => r \in faulted'
              /\ pc[r] \in {"readCall", "writeEnd"} => r \in faulted' \/ pc'[r] = "writeEnd"
              /\ op'[r] = "end" => op[r] = "end"
    <2>1. ASSUME NEW q \in Requests, Excuses(q) PROVE Excuses(q)'
      BY <1>3, <1>13, <2>1
    <2>2. \A p, q \in Requests : pc'[p] = "setState" /\ op'[q] = "end" => p \in met'[q]
      BY <1>1, <1>2, <1>13 DEF StateInv
    <2>3. QED
      BY <1>1, <1>13, <2>1, <2>2 DEF StateInv
  <1>14. QED
    BY <1>6, <1>7, <1>8, <1>9, <1>10, <1>11, <1>12, <1>13, StateKinds

(* What holds of calls, and of those of a behaviour of another service.    *)
AllOfCalls ==
  /\ service \in {"calls", "metrics"} => CallsInv /\ AnnounceInv /\ DurationInv /\ StateInv
  /\ service \notin {"calls", "metrics"} => ended = Nobody

LEMMA CallsInitially == Init => AllOfCalls
  <1> SUFFICES ASSUME Init PROVE AllOfCalls
    OBVIOUS
  <1> USE HandlersAssumption DEF Init, HandlersInit, CallsInit, NoDuration
  <1>1. CallsInv
    BY DEF CallsInv, CallsTypeOK
  <1>2. AnnounceInv /\ DurationInv /\ StateInv
    BY DEF AnnounceInv, DurationInv, StateInv
  <1>3. QED
    BY <1>1, <1>2 DEF AllOfCalls

LEMMA CallsNextInv ==
  HandlersInv /\ HandlersInv' /\ Grows /\ AllOfCalls /\ [Next]_vars => AllOfCalls'
  <1> SUFFICES ASSUME HandlersInv, HandlersInv', Grows, AllOfCalls, [Next]_vars
               PROVE  AllOfCalls'
    OBVIOUS
  <1>1. service' = service
    BY DEF Grows
  <1>2. CASE service \notin {"calls", "metrics"}
    BY <1>1, <1>2, CallsFrame DEF AllOfCalls, calls
  <1>3. CASE service \in {"calls", "metrics"}
    <2>1. CallsInv /\ AnnounceInv /\ DurationInv /\ StateInv
      BY <1>3 DEF AllOfCalls
    <2>2. CASE UNCHANGED <<handling, calls, metric>>
      <3>1. CallsInv'
        BY <2>1, <2>2 DEF handling, calls, CallsInv, CallsTypeOK
      <3>2. AnnounceInv'
        BY <2>1, <2>2 DEF handling, calls, AnnounceInv
      <3>3. DurationInv'
        BY <2>1, <2>2 DEF handling, calls, DurationInv, LateConnect
      <3>4. StateInv'
        BY <2>1, <2>2 DEF handling, calls, StateInv, Excuses
      <3>5. QED
        BY <1>1, <1>3, <3>1, <3>2, <3>3, <3>4 DEF AllOfCalls
    <2>3. CASE \E r \in Requests : CallsAct(r)
      <3>1. PICK r \in Requests : CallsAct(r)
        BY <2>3
      <3>2. CallsInv'
        BY <2>1, <3>1, CallsTyped
      <3>3. AnnounceInv' /\ DurationInv' /\ StateInv'
        BY <2>1, <3>1, <3>2, AnnounceStep, DurationStep, StateStep
      <3>4. QED
        BY <1>1, <1>3, <3>2, <3>3 DEF AllOfCalls
    <2>4. QED
      BY <1>3, <2>2, <2>3, CallsFrame
  <1>4. QED
    BY <1>2, <1>3

LEMMA Calling == Spec => []AllOfCalls
  BY Requesting, CallsInitially, CallsNextInv, HandlersNext, PTL DEF Spec

(* The request that ended a call for good has told the duration in the     *)
(* row, once it is done without a fault, whatever overlapped it.           *)
THEOREM EndsAnnounced == Spec => []EndAnnounced
  <1>1. AllOfCalls => EndAnnounced
    BY DEF AllOfCalls, AnnounceInv, EndAnnounced, Active
  <1>2. QED
    BY <1>1, Calling, PTL

(* The duration of an ended call agrees with its times, unless it was      *)
(* connected by a request that overlapped an end, or knew of it.           *)
THEOREM DurationsMatch == Spec => []DurationMatchesTimes
  <1>1. AllOfCalls => DurationMatchesTimes
    BY DEF AllOfCalls, DurationInv, LateConnect, DurationMatchesTimes
  <1>2. QED
    BY <1>1, Calling, PTL

(* The state in Redis is gone when the call is over, but for an end that   *)
(* is under way, had a fault, or met a request that writes the state.      *)
THEOREM StatesEnd == Spec => []StateEndsWithCall
  <1>1. AllOfCalls => StateEndsWithCall
    BY DEF AllOfCalls, StateInv, Excuses, StateEndsWithCall, Active
  <1>2. QED
    BY <1>1, Calling, PTL
=============================================================================
