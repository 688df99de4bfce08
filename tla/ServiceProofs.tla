---------------------------- MODULE ServiceProofs ----------------------------
(***************************************************************************)
(* What requests of any service have in common, and proofs about profiles, *)
(* keys, uploads and broadcast lists, and about the commands that prepare  *)
(* the database.                                                           *)
(***************************************************************************)
EXTENDS Services, TLAPS

-----------------------------------------------------------------------------
(* Requests.                                                               *)

(* Requests for service s may ask for operation o.                         *)
Belongs(o, s) ==
  \/ s = "accounts" /\ o \in {"register", "login", "refresh", "logout", "logoutAll", "deactivate", "reset"}
  \/ s = "profiles" /\ o \in {"online", "name", "password", "notifications", "theme", "deleteProfile",
                               "addContact", "removeContact", "block", "unblock"}
  \/ s = "calls" /\ o \in {"create", "connect", "end"}
  \/ s = "metrics" /\ o \in BesideCall
  \/ s = "receipts" /\ o \in Marks \union {"played"}
  \/ s = "creation" /\ o \in {"createConversation", "other"}
  \/ s = "conversations" /\ o \in {"subject", "description", "invite_link", "delete", "add", "remove",
                                    "role", "flag", "readUpTo", "increment", "message"}
  \/ s = "messages" /\ o \in {"send", "softDelete", "hardDelete", "history"}
  \/ s = "hanging" /\ o \in {"softDelete", "hardDelete", "react", "unreact", "star", "unstar", "vote",
                              "unvote", "mention"}
  \/ s = "keys" /\ o \in {"createIdentity", "endIdentity", "createSigned", "rotate", "endSigned",
                           "upload", "consume", "bundle"}
  \/ s = "uploads" /\ o \in {"createUpload", "rename", "complete", "progress", "fail", "deleteUpload", "stale"}
  \/ s = "broadcasts" /\ o \in {"createList", "updateList", "deleteList", "addOne", "removeOne",
                                 "removeBulk", "addBulk"}
  \/ s = "setup" /\ o \in {"up", "down", "dropSchema", "truncate", "seed", "seedDev"}

(* Two requests that are active at the same time have met; meeting is      *)
(* mutual; and a request that has not arrived has met nobody.              *)
HandlersInv ==
  /\ op = [r \in Requests |-> op[r]] /\ pc = [r \in Requests |-> pc[r]]
  /\ met \in [Requests -> SUBSET Requests] /\ faulted \subseteq Requests
  /\ \A r \in Requests : op[r] # "new" /\ (op[r] = "none" \/ Belongs(op[r], service))
  /\ \A r \in Requests : pc[r] = "new" => op[r] = "none" /\ met[r] = {} /\ r \notin faulted
  /\ \A q, r \in Requests : q \in met[r] => q # r /\ r \in met[q]
  /\ \A q, r \in Requests : q # r /\ Active(q) /\ Active(r) => q \in met[r]

(* Request r arrives or goes on.                                           *)
Moves(r) ==
  \E s, o, l :
    /\ l # "new"
    /\ \/ Belongs(o, s) /\ Arrive(r, s, o, l)
       \/ Active(r) /\ (Goto(r, l) \/ FailsOnTo(r, l))

(* What a step of any request leaves true of the others.                   *)
Grows ==
  /\ service' = service
  /\ faulted \subseteq faulted'
  /\ \A q \in Requests : met[q] \subseteq met'[q]
  /\ \A q \in Requests : pc[q] # "new" => pc'[q] # "new" /\ op'[q] = op[q]
  /\ \A q \in Requests : ~ Active(q) /\ pc[q] # "new" => pc'[q] = pc[q] /\ (q \in faulted' => q \in faulted)

LEMMA HandlersInitially == Init => HandlersInv
  BY DEF Init, HandlersInit, HandlersInv, Active

(* The step of a request keeps what all requests have in common.           *)
LEMMA HandlersStep ==
  ASSUME HandlersInv, NEW r \in Requests, Moves(r)
  PROVE  HandlersInv' /\ Grows /\ \A q \in Requests \ {r} : pc'[q] = pc[q] /\ op'[q] = op[q]
  <1> USE DEF HandlersInv, Active
  <1>1. PICK s, o, l :
          /\ l # "new"
          /\ \/ Belongs(o, s) /\ Arrive(r, s, o, l)
             \/ Active(r) /\ (Goto(r, l) \/ FailsOnTo(r, l))
    BY DEF Moves
  <1>2. CASE Belongs(o, s) /\ Arrive(r, s, o, l)
    <2>1. /\ pc[r] = "new" /\ service' = service /\ faulted' = faulted
          /\ op' = [op EXCEPT ![r] = o] /\ pc' = [pc EXCEPT ![r] = l]
          /\ met' = [q \in Requests |->
               IF q = r THEN {a \in Requests : Active(a)}
               ELSE IF Active(q) THEN met[q] \union {r}
               ELSE met[q]]
      BY <1>2 DEF Arrive
    <2>2. /\ \A q \in Requests \ {r} : pc'[q] = pc[q] /\ op'[q] = op[q]
          /\ pc'[r] = l /\ op'[r] = o
          /\ met'[r] = {a \in Requests : Active(a)}
          /\ \A q \in Requests \ {r} :
               met'[q] = IF Active(q) THEN met[q] \union {r} ELSE met[q]
      BY <2>1
    <2>3. /\ op' = [q \in Requests |-> op'[q]] /\ pc' = [q \in Requests |-> pc'[q]]
          /\ met' \in [Requests -> SUBSET Requests] /\ faulted' \subseteq Requests
      BY <2>1
    <2>4. Grows
      BY <2>1, <2>2 DEF Grows
    <2>5. (\A q \in Requests : pc[q] = "new" => op[q] = "none" /\ met[q] = {} /\ q \notin faulted)'
      BY <1>1, <2>1, <2>2
    <2>6. (\A p, q \in Requests : p \in met[q] => p # q /\ q \in met[p])'
      BY <2>1, <2>2
    <2>7. (\A p, q \in Requests : p # q /\ Active(p) /\ Active(q) => p \in met[q])'
      BY <2>1, <2>2
    <2>8. (\A q \in Requests : op[q] # "new" /\ (op[q] = "none" \/ Belongs(op[q], service)))'
      <3>1. s = service /\ o # "new"
        BY <1>2 DEF Arrive, Belongs, BesideCall, Marks
      <3>2. QED
        BY <1>2, <2>1, <2>2, <3>1
    <2>9. QED
      BY <2>8, <2>2, <2>3, <2>4, <2>5, <2>6, <2>7
  <1>3. CASE Active(r) /\ (Goto(r, l) \/ FailsOnTo(r, l))
    BY <1>1, <1>3 DEF Goto, FailsOnTo, Grows
  <1>4. QED
    BY <1>1, <1>2, <1>3

LEMMA Moved == ASSUME HandlersInv, NEW r \in Requests, Moves(r) PROVE pc'[r] # "new"
  BY DEF Moves, Arrive, Goto, FailsOnTo, HandlersInv

LEMMA StopsMoves == ASSUME NEW r \in Requests, Stops(r) PROVE Moves(r)
  BY DEF Stops, Moves

-----------------------------------------------------------------------------
(* Accounts.                                                               *)

LEMMA AccountsMoves == ASSUME NEW r \in Requests, AccountsStep(r) PROVE Moves(r)
  <1> USE DEF Moves, Active, Belongs, At
  <1>1. CASE Register(r) \/ CreateUser(r) \/ Login(r)
    BY <1>1 DEF Register, CreateUser, Login
  <1>2. CASE FindDevice(r) \/ AddDevice(r) \/ FindDeviceAgain(r)
    BY <1>2 DEF FindDevice, AddDevice, FindDeviceAgain
  <1>3. CASE CreateSession(r) \/ Answer(r)
    BY <1>3 DEF CreateSession, Answer
  <1>4. CASE Refresh(r) \/ Rotate(r) \/ Mismatch(r)
    BY <1>4 DEF Refresh, Rotate, Mismatch
  <1>5. CASE Logout(r) \/ RevokeSession(r) \/ LogoutAll(r) \/ RevokeAll(r)
    BY <1>5 DEF Logout, RevokeSession, LogoutAll, RevokeAll
  <1>6. CASE DeactivateDevice(r) \/ Deactivate(r) \/ PasswordReset(r) \/ WritePassword(r)
    BY <1>6 DEF DeactivateDevice, Deactivate, PasswordReset, WritePassword
  <1>7. QED
    BY <1>1, <1>2, <1>3, <1>4, <1>5, <1>6 DEF AccountsStep

LEMMA ProfilesMoves == ASSUME NEW r \in Requests, ProfilesStep(r) PROVE Moves(r)
  <1> USE DEF Moves, Active, Belongs
  <1>1. CASE AskStatus(r) \/ UpdateOnlineStatus(r) \/ AskProfile(r) \/ GetUserByID(r) \/ UpdateUser(r)
    BY <1>1 DEF AskStatus, UpdateOnlineStatus, AskProfile, GetUserByID, UpdateUser, AsksProfile, Put
  <1>2. CASE AskSettings(r) \/ GetUserSettings(r) \/ UpdateUserSettings(r) \/ DeleteProfile(r) \/ DeleteUser(r)
    BY <1>2 DEF AskSettings, GetUserSettings, UpdateUserSettings, DeleteProfile, DeleteUser, AsksProfile, Put, SettingsColumns
  <1>3. CASE AskContact(r) \/ AddUserContact(r) \/ RemoveUserContact(r)
    BY <1>3 DEF AskContact, AddUserContact, RemoveUserContact, AsksProfile, SetContact
  <1>4. CASE BlockContact(r) \/ InsertBlocked(r) \/ UnblockContact(r)
    BY <1>4 DEF BlockContact, InsertBlocked, UnblockContact, SetContact
  <1>5. QED
    BY <1>1, <1>2, <1>3, <1>4 DEF ProfilesStep

LEMMA CallsMoves == ASSUME NEW r \in Requests, CallsStep(r) PROVE Moves(r)
  <1> USE DEF Moves, Active, Belongs
  <1>1. CASE CreateCall(r) \/ SetState(r) \/ MarkConnected(r) \/ Connect(r) \/ GetState(r) \/ PutState(r)
    BY <1>1 DEF CreateCall, SetState, MarkConnected, Connect, GetState, PutState
  <1>2. CASE EndCall(r) \/ ReadCall(r) \/ WriteEnd(r) \/ RemoveState(r) \/ ReadDuration(r) \/ PublishEnded(r)
    BY <1>2 DEF EndCall, ReadCall, WriteEnd, RemoveState, ReadDuration, PublishEnded
  <1>3. QED
    BY <1>1, <1>2 DEF CallsStep

LEMMA ReceiptsMoves == ASSUME NEW r \in Requests, ReceiptsStep(r) PROVE Moves(r)
  <1> USE DEF Moves, Active, Belongs
  <1>1. CASE Mark(r) \/ UpdateReceipt(r) \/ CreateReceipt(r)
    BY <1>1 DEF Mark, UpdateReceipt, CreateReceipt, WriteMark, Marks
  <1>2. CASE Deadlock(r) \/ CommitMark(r) \/ AskPlayed(r) \/ MarkAsPlayed(r)
    BY <1>2 DEF Deadlock, CommitMark, AskPlayed, MarkAsPlayed, WaitsFor
  <1>3. QED
    BY <1>1, <1>2 DEF ReceiptsStep

LEMMA ConversationsMoves == ASSUME NEW r \in Requests, ConversationsStep(r) PROVE Moves(r)
  <1> USE DEF Moves, Active, Belongs
  <1>1. CASE UpdateConversation(r) \/ ReadConversation(r) \/ WriteConversation(r) \/ AskLink(r) \/ RegenerateInviteLink(r) \/ AskDelete(r) \/ Delete(r)
    BY <1>1 DEF UpdateConversation, ReadConversation, WriteConversation, AskLink, RegenerateInviteLink, AskDelete, Delete, Asks, Affects
  <1>2. CASE AskAdd(r) \/ AddParticipant(r) \/ AskRemove(r) \/ RemoveParticipant(r) \/ AskRole(r) \/ UpdateParticipantRole(r)
    BY <1>2 DEF AskAdd, AddParticipant, AskRemove, RemoveParticipant, AskRole, UpdateParticipantRole, Asks, Affects, ChangeMember
  <1>3. CASE AskFlag(r) \/ SetFlag(r) \/ AskRead(r) \/ UpdateLastReadSequence(r)
    BY <1>3 DEF AskFlag, SetFlag, AskRead, UpdateLastReadSequence, Asks, Affects, ChangeMember
  <1>4. CASE AskNumber(r) \/ SelectSequence(r) \/ WriteSequence(r) \/ AssignMessageSequence(r)
    BY <1>4 DEF AskNumber, SelectSequence, WriteSequence, AssignMessageSequence, Asks, Affects
  <1>5. QED
    BY <1>1, <1>2, <1>3, <1>4 DEF ConversationsStep

LEMMA MessagesMoves == ASSUME NEW r \in Requests, MessagesStep(r) PROVE Moves(r)
  <1> USE DEF Moves, Active, Belongs
  <1>1. CASE AskSend(r) \/ Send(r) \/ AskDeletion(r) \/ SoftDelete(r) \/ HardDelete(r)
    BY <1>1 DEF AskSend, Send, AskDeletion, SoftDelete, HardDelete, AsksMessage, WriteMessage
  <1>2. CASE AskHanging(r) \/ AddReaction(r) \/ RemoveReaction(r) \/ StarMessage(r) \/ UnstarMessage(r)
    BY <1>2 DEF AskHanging, AddReaction, RemoveReaction, StarMessage, UnstarMessage, AsksMessage, InsertHanging, DeleteHanging
  <1>3. CASE VotePoll(r) \/ RemoveVote(r) \/ AddMention(r) \/ AskHistory(r) \/ GetConversationMessages(r)
    BY <1>3 DEF VotePoll, RemoveVote, AddMention, AskHistory, GetConversationMessages, InsertHanging, DeleteHanging
  <1>4. QED
    BY <1>1, <1>2, <1>3 DEF MessagesStep

LEMMA KeysMoves == ASSUME NEW r \in Requests, KeysStep(r) PROVE Moves(r)
  <1> USE DEF Moves, Active, Belongs
  <1>1. CASE AskIdentity(r) \/ CreateIdentityKey(r) \/ AskEndIdentity(r) \/ EndIdentityKey(r)
    BY <1>1 DEF AskIdentity, CreateIdentityKey, AskEndIdentity, EndIdentityKey, AsksKeys
  <1>2. CASE AskSigned(r) \/ CreateSignedPreKey(r) \/ AskRotate(r) \/ RotateSignedPreKey(r) \/ AskEndSigned(r) \/ DeactivateSignedPreKey(r)
    BY <1>2 DEF AskSigned, CreateSignedPreKey, AskRotate, RotateSignedPreKey, AskEndSigned, DeactivateSignedPreKey, AsksKeys
  <1>3. CASE AskUpload(r) \/ UploadOneTimePreKeys(r) \/ AskPreKey(r) \/ SelectOneTimePreKey(r) \/ UseOneTimePreKey(r)
    BY <1>3 DEF AskUpload, UploadOneTimePreKeys, AskPreKey, SelectOneTimePreKey, UseOneTimePreKey, AsksKeys
  <1>4. CASE AskBundle(r) \/ GetIdentityKey(r) \/ GetActiveSignedPreKey(r)
    BY <1>4 DEF AskBundle, GetIdentityKey, GetActiveSignedPreKey
  <1>5. QED
    BY <1>1, <1>2, <1>3, <1>4 DEF KeysStep

LEMMA UploadsMoves == ASSUME NEW r \in Requests, UploadsStep(r) PROVE Moves(r)
  <1> USE DEF Moves, Active, Belongs
  <1>1. CASE AskCreate(r) \/ Presign(r) \/ InsertUpload(r) \/ AskRename(r) \/ ReadUpload(r)
    BY <1>1 DEF AskCreate, Presign, InsertUpload, AskRename, ReadUpload, Asking
  <1>2. CASE AskComplete(r) \/ SaveUpload(r) \/ AskProgress(r) \/ UpdateProgress(r)
    BY <1>2 DEF AskComplete, SaveUpload, AskProgress, UpdateProgress, Asking, Set
  <1>3. CASE AskFail(r) \/ MarkUploadFailed(r) \/ AskDeleteUpload(r) \/ DeleteUpload(r) \/ AskStale(r) \/ DeleteStaleUploads(r)
    BY <1>3 DEF AskFail, MarkUploadFailed, AskDeleteUpload, DeleteUpload, AskStale, DeleteStaleUploads, Asking, Set
  <1>4. QED
    BY <1>1, <1>2, <1>3 DEF UploadsStep

LEMMA BroadcastsMoves == ASSUME NEW r \in Requests, BroadcastsStep(r) PROVE Moves(r)
  <1> USE DEF Moves, Active, Belongs
  <1>1. CASE AskList(r) \/ CreateList(r) \/ ReadList(r) \/ WriteList(r) \/ DeleteList(r)
    BY <1>1 DEF AskList, CreateList, ReadList, WriteList, DeleteList, Demands
  <1>2. CASE AskRecipient(r) \/ AddRecipient(r) \/ RemoveRecipient(r) \/ BulkRemoveRecipients(r)
    BY <1>2 DEF AskRecipient, AddRecipient, RemoveRecipient, BulkRemoveRecipients, Demands
  <1>3. CASE AskBulk(r) \/ BulkInsert(r) \/ BulkDeadlock(r) \/ BulkCommit(r)
    BY <1>3 DEF AskBulk, BulkInsert, BulkDeadlock, BulkCommit
  <1>4. QED
    BY <1>1, <1>2, <1>3 DEF BroadcastsStep


(* The labels of the seed's statements are columns of keyRows.             *)
KeyColumns == DOMAIN keyRows = {"identity", "signed", "oneTime"}

LEMMA SetupMoves == ASSUME KeyColumns, NEW r \in Requests, SetupStep(r) PROVE Moves(r) /\ KeyColumns'
  <1> USE DEF Moves, Active, Belongs
  <1>1. KeyColumns'
    BY DEF KeyColumns, SetupStep, MigrateUp, ApplyFile, MigrateDown, DropTriggers, DropIndexes,
           Reset, DropAllTables, Truncate, TruncateAllTables, SeedRows, SeedFails, FindUser,
           InsertUser, SeedDevice, SeedKey, SeedConversation, SeedMessage, SeedCiphertexts,
           SeedBroadcast, Launch, Adds, setup, seeded, NoKeys
  <1>2. CASE MigrateUp(r) \/ ApplyFile(r) \/ MigrateDown(r) \/ DropTriggers(r) \/ DropIndexes(r)
    BY <1>1, <1>2 DEF MigrateUp, ApplyFile, MigrateDown, DropTriggers, DropIndexes, Launch, Files, After
  <1>3. CASE Reset(r) \/ DropAllTables(r) \/ Truncate(r) \/ TruncateAllTables(r) \/ SeedRows(r)
    BY <1>1, <1>3 DEF Reset, DropAllTables, Truncate, TruncateAllTables, SeedRows, Launch
  <1>4. CASE SeedFails(r) \/ FindUser(r) \/ InsertUser(r)
    BY <1>1, <1>4 DEF SeedFails, FindUser, InsertUser, TaskDone, AfterTask, SeedUsers
  <1>5. CASE SeedDevice(r) \/ SeedKey(r)
    BY <1>1, <1>5 DEF SeedDevice, SeedKey, TaskDone, AfterTask, KeyColumns
  <1>6. CASE SeedConversation(r) \/ SeedMessage(r) \/ SeedCiphertexts(r) \/ SeedBroadcast(r)
    BY <1>1, <1>6 DEF SeedConversation, SeedMessage, SeedCiphertexts, SeedBroadcast, Adds, TaskDone, AfterTask
  <1>7. QED
    BY <1>1, <1>2, <1>3, <1>4, <1>5, <1>6 DEF SetupStep

LEMMA CreationMoves ==
  ASSUME NEW r \in Requests, CreationStep(r) PROVE Moves(r) \/ UNCHANGED handling
  <1> USE DEF Moves, Active, Belongs
  <1>1. CASE CreateConversation(r) \/ BeginCreate(r) \/ SwapRepo(r) \/ InsertConversation(r)
    BY <1>1 DEF CreateConversation, BeginCreate, SwapRepo, InsertConversation, Insert, Refused
  <1>2. CASE AddParticipants(r) \/ RestoreRepo(r) \/ EndCreate(r)
    BY <1>2 DEF AddParticipants, Insert, Refused, RestoreRepo, EndCreate
  <1>3. CASE Abandon(r) \/ OtherRequest(r) \/ Statement(r)
    BY <1>3 DEF Abandon, OtherRequest, Statement, Insert, Refused
  <1>4. QED
    BY <1>1, <1>2, <1>3 DEF CreationStep

LEMMA BesideCallMoves ==
  ASSUME NEW r \in Requests, AskBesideCall(r) \/ RecordQualityMetric(r) \/ ChangeParticipant(r)
  PROVE  Moves(r)
  BY DEF AskBesideCall, RecordQualityMetric, ChangeParticipant, BesideCall, Moves, Active, Belongs

(* Every step is one of some request, or moves none.                       *)
LEMMA SomebodyMoves ==
  HandlersInv /\ KeyColumns /\ [Next]_vars =>
    KeyColumns' /\ ((\E r \in Requests : Moves(r)) \/ UNCHANGED handling)
  <1> SUFFICES ASSUME HandlersInv, KeyColumns, [Next]_vars
               PROVE  KeyColumns' /\ ((\E r \in Requests : Moves(r)) \/ UNCHANGED handling)
    OBVIOUS
  <1>1. CASE SetupNext
    BY <1>1, SetupMoves DEF SetupNext
  <1>2. CASE UNCHANGED setup
    <2>1. KeyColumns'
      BY <1>2 DEF setup, seeded, KeyColumns
    <2>2. CASE AccountsNext
      BY <2>1, <2>2, AccountsMoves DEF AccountsNext
    <2>3. CASE ProfilesNext
      BY <2>1, <2>3, ProfilesMoves DEF ProfilesNext
    <2>4. CASE CallsNext
      BY <2>1, <2>4, CallsMoves, BesideCallMoves DEF CallsNext
    <2>5. CASE ReceiptsNext
      BY <2>1, <2>5, ReceiptsMoves DEF ReceiptsNext
    <2>6. CASE CreationNext
      BY <2>1, <2>6, CreationMoves DEF CreationNext
    <2>7. CASE ConversationsNext
      BY <2>1, <2>7, ConversationsMoves DEF ConversationsNext
    <2>8. CASE MessagesNext
      BY <2>1, <2>8, MessagesMoves DEF MessagesNext
    <2>9. CASE KeysNext
      BY <2>1, <2>9, KeysMoves DEF KeysNext
    <2>10. CASE UploadsNext
      BY <2>1, <2>10, UploadsMoves DEF UploadsNext
    <2>11. CASE BroadcastsNext
      BY <2>1, <2>11, BroadcastsMoves DEF BroadcastsNext
    <2>12. CASE Stop
      BY <2>1, <2>12, StopsMoves DEF Stop
    <2>13. CASE UNCHANGED vars
      BY <2>1, <2>13 DEF vars
    <2>14. CASE \/ AccountsNext \/ ProfilesNext \/ CallsNext \/ ReceiptsNext \/ CreationNext
               \/ ConversationsNext \/ MessagesNext \/ KeysNext \/ UploadsNext
               \/ BroadcastsNext \/ Stop \/ UNCHANGED vars
      BY <2>2, <2>3, <2>4, <2>5, <2>6, <2>7, <2>8, <2>9, <2>10, <2>11, <2>12, <2>13, <2>14
    <2>15. CASE SetupNext
      BY <1>1, <2>15
    <2>16. QED
      BY <2>14, <2>15 DEF Next
  <1>3. QED
    BY <1>1, <1>2 DEF Next, Stop, vars

LEMMA HandlersNext ==
  HandlersInv /\ KeyColumns /\ [Next]_vars => HandlersInv' /\ KeyColumns' /\ Grows
  <1>1. ASSUME HandlersInv, UNCHANGED handling PROVE HandlersInv' /\ Grows
    BY <1>1 DEF handling, HandlersInv, Grows, Active
  <1>2. QED
    BY <1>1, SomebodyMoves, HandlersStep

LEMMA Requesting == Spec => [](HandlersInv /\ KeyColumns)
  <1>1. Init => KeyColumns
    BY DEF Init, SetupInit, NoKeys, KeyColumns
  <1>2. QED
    BY <1>1, HandlersInitially, HandlersNext, PTL DEF Spec

-----------------------------------------------------------------------------
(* Profiles.                                                               *)

ProfilesAct(r) == ProfilesStep(r) \/ (Stops(r) /\ UNCHANGED profiles)

LEMMA ProfilesFrame ==
  [Next]_vars =>
    /\ service = "profiles" =>
         (\E r \in Requests : ProfilesAct(r)) \/ UNCHANGED <<handling, profiles>>
    /\ service # "profiles" => UNCHANGED profiles
  BY DEF Next, ProfilesNext, Stop, vars, ProfilesAct

(* Column c was set by a request that overlapped an update of its row.     *)
LostToOverlap(c) ==
  \E p, q \in Requests :
    /\ c \in {op[q]} \union (IF op[q] = "theme" THEN {"notifications"} ELSE {})
    /\ op[p] \in IF c \in UserColumns THEN {"name", "password"} ELSE SettingsColumns
    /\ q \in met[p]

(* Which operation a statement belongs to; a column is as it was last set, *)
(* in the row and as an update has read it, but for overlaps.              *)
ProfilesInv ==
  /\ ProfilesTypeOK
  /\ \A r \in Requests :
       /\ pc[r] = "status" => op[r] = "online"
       /\ pc[r] \in {"readUser", "writeUser"} => op[r] \in {"name", "password"}
       /\ pc[r] \in {"readSettings", "writeSettings"} => op[r] \in SettingsColumns
  /\ \A c \in ProfileColumns : column[c] = last[c] \/ LostToOverlap(c)
  /\ \A r \in Requests : pc[r] = "writeUser" =>
       \A c \in UserColumns : read[r][c] = last[c] \/ LostToOverlap(c)
  /\ \A r \in Requests : pc[r] = "writeSettings" =>
       \A c \in SettingsColumns : read[r][c] = last[c] \/ LostToOverlap(c)

(* A contact that is there when a block inserts it came there meanwhile.   *)
ContactInv ==
  /\ \A r \in Requests :
       /\ pc[r] = "addContact" => op[r] = "addContact"
       /\ pc[r] = "removeContact" => op[r] = "removeContact"
       /\ pc[r] = "unblock" => op[r] = "unblock"
       /\ pc[r] = "deleteUser" => op[r] = "deleteProfile"
       /\ pc[r] \in {"block", "insertBlocked"} => op[r] = "block"
       /\ pc[r] = "insertBlocked" /\ contact # "none" => \E q \in met[r] : op[q] \in {"addContact", "block"}
  /\ BlockHolds

LEMMA ProfilesKinds ==
  ASSUME HandlersInv, NEW r \in Requests, ProfilesAct(r)
  PROVE  \/ UpdateOnlineStatus(r) \/ GetUserByID(r) \/ UpdateUser(r)
         \/ GetUserSettings(r) \/ UpdateUserSettings(r)
         \/ /\ UNCHANGED <<column, last, read>>
            /\ pc'[r] \notin {"writeUser", "writeSettings"}
            /\ pc'[r] = "status" => op'[r] = "online"
            /\ pc'[r] = "readUser" => op'[r] \in {"name", "password"}
            /\ pc'[r] = "readSettings" => op'[r] \in SettingsColumns
  <1> USE DEF HandlersInv, profiles, Goto, FailsOnTo, Arrive, AsksProfile
  <1>1. CASE Stops(r) /\ UNCHANGED profiles
    BY <1>1 DEF Stops
  <1>2. CASE AskStatus(r) \/ DeleteProfile(r) \/ DeleteUser(r)
    BY <1>2 DEF AskStatus, DeleteProfile, DeleteUser
  <1>3. CASE AskProfile(r)
    BY <1>3 DEF AskProfile
  <1>4. CASE AskSettings(r)
    BY <1>4 DEF AskSettings
  <1>5. CASE AskContact(r)
    BY <1>5 DEF AskContact
  <1>6. CASE AddUserContact(r) \/ RemoveUserContact(r)
    BY <1>6 DEF AddUserContact, RemoveUserContact, SetContact
  <1>7. CASE BlockContact(r) \/ InsertBlocked(r) \/ UnblockContact(r)
    BY <1>7 DEF BlockContact, InsertBlocked, UnblockContact, SetContact
  <1>8. QED
    BY <1>1, <1>2, <1>3, <1>4, <1>5, <1>6, <1>7 DEF ProfilesAct, ProfilesStep

LEMMA ProfilesTyped ==
  ASSUME ProfilesTypeOK, NEW r \in Requests, ProfilesAct(r)
  PROVE  ProfilesTypeOK'
  <1> USE DEF ProfilesTypeOK, profiles, AsksProfile
  <1>1. CASE UpdateOnlineStatus(r)
    BY <1>1 DEF UpdateOnlineStatus, Put
  <1>2. CASE UpdateUser(r)
    BY <1>2 DEF UpdateUser, Put, ProfileColumns
  <1>3. CASE UpdateUserSettings(r)
    BY <1>3 DEF UpdateUserSettings, Put, ProfileColumns
  <1>4. CASE GetUserByID(r) \/ GetUserSettings(r)
    BY <1>4 DEF GetUserByID, GetUserSettings
  <1>5. CASE AddUserContact(r) \/ RemoveUserContact(r) \/ BlockContact(r) \/ InsertBlocked(r) \/ UnblockContact(r)
    BY <1>5 DEF AddUserContact, RemoveUserContact, BlockContact, InsertBlocked, UnblockContact, SetContact
  <1>6. CASE \/ AskStatus(r) \/ AskProfile(r) \/ AskSettings(r) \/ DeleteProfile(r) \/ DeleteUser(r)
             \/ AskContact(r) \/ UNCHANGED profiles
    BY <1>6 DEF AskStatus, AskProfile, AskSettings, DeleteProfile, DeleteUser, AskContact
  <1>7. QED
    BY <1>1, <1>2, <1>3, <1>4, <1>5, <1>6 DEF ProfilesAct, ProfilesStep

LEMMA ProfilesActMoves == ASSUME NEW r \in Requests, ProfilesAct(r) PROVE Moves(r)
  BY ProfilesMoves, StopsMoves DEF ProfilesAct

LEMMA ProfilesInvStep ==
  ASSUME HandlersInv, HandlersInv', Grows, ProfilesInv, NEW r \in Requests, ProfilesAct(r)
  PROVE  ProfilesInv'
  <1>1. ProfilesTypeOK'
    BY ProfilesTyped DEF ProfilesInv
  <1>2. \A q \in Requests \ {r} : pc'[q] = pc[q] /\ op'[q] = op[q]
    BY HandlersStep, ProfilesActMoves
  <1>3. ASSUME NEW c, LostToOverlap(c) PROVE LostToOverlap(c)'
    <2>1. PICK p, q \in Requests :
            /\ c \in {op[q]} \union (IF op[q] = "theme" THEN {"notifications"} ELSE {})
            /\ op[p] \in IF c \in UserColumns THEN {"name", "password"} ELSE SettingsColumns
            /\ q \in met[p]
      BY <1>3 DEF LostToOverlap
    <2>2. pc[p] # "new" /\ pc[q] # "new"
      BY <2>1 DEF HandlersInv
    <2>3. op'[p] = op[p] /\ op'[q] = op[q] /\ q \in met'[p]
      BY <2>1, <2>2 DEF Grows
    <2>4. QED
      BY <2>1, <2>3 DEF LostToOverlap
  <1>4. ASSUME NEW p \in Requests \ {r}, NEW c, Active(p), Active(r),
               op[p] \in IF c \in UserColumns THEN {"name", "password"} ELSE SettingsColumns,
               c \in {op[r]} \union (IF op[r] = "theme" THEN {"notifications"} ELSE {})
        PROVE  LostToOverlap(c)'
    <2>1. r \in met[p]
      BY <1>4 DEF HandlersInv
    <2>2. LostToOverlap(c)
      BY <1>4, <2>1 DEF LostToOverlap
    <2>3. QED
      BY <1>3, <2>2
  <1>5. ASSUME NEW C \in SUBSET ProfileColumns, NEW rest, Put(r, C, rest), Active(r), pc'[r] = "ok",
               \A c \in ProfileColumns \ C : rest[c] = last[c] \/ LostToOverlap(c),
               \A c \in C : c \in {op[r]} \union (IF op[r] = "theme" THEN {"notifications"} ELSE {})
        PROVE  ProfilesInv'
    <2>1. /\ \A c \in ProfileColumns : column'[c] = IF c \in C THEN r ELSE rest[c]
          /\ \A c \in ProfileColumns : last'[c] = IF c \in C THEN r ELSE last[c]
          /\ read' = read
      BY <1>5 DEF Put
    <2>2. \A c \in ProfileColumns : column'[c] = last'[c] \/ LostToOverlap(c)'
      BY <1>3, <1>5, <2>1
    <2>3. ASSUME NEW p \in Requests, pc'[p] = "writeUser", NEW c \in UserColumns
          PROVE  read'[p][c] = last'[c] \/ LostToOverlap(c)'
      <3>1. p # r /\ pc[p] = "writeUser" /\ Active(p) /\ op[p] \in {"name", "password"} /\ c \in ProfileColumns
        BY <1>2, <1>5, <2>3 DEF ProfilesInv, Active, ProfileColumns
      <3>2. CASE c \in C
        BY <1>4, <1>5, <2>3, <3>1, <3>2
      <3>3. CASE c \notin C
        BY <1>3, <2>1, <2>3, <3>1, <3>3 DEF ProfilesInv
      <3>4. QED
        BY <3>2, <3>3
    <2>4. ASSUME NEW p \in Requests, pc'[p] = "writeSettings", NEW c \in SettingsColumns
          PROVE  read'[p][c] = last'[c] \/ LostToOverlap(c)'
      <3>1. p # r /\ pc[p] = "writeSettings" /\ Active(p) /\ op[p] \in SettingsColumns
            /\ c \in ProfileColumns /\ c \notin UserColumns
        BY <1>2, <1>5, <2>4 DEF ProfilesInv, Active, ProfileColumns, SettingsColumns, UserColumns
      <3>2. CASE c \in C
        BY <1>4, <1>5, <2>4, <3>1, <3>2
      <3>3. CASE c \notin C
        BY <1>3, <2>1, <2>4, <3>1, <3>3 DEF ProfilesInv
      <3>4. QED
        BY <3>2, <3>3
    <2>5. QED
      BY <1>1, <1>2, <1>5, <2>2, <2>3, <2>4 DEF ProfilesInv
  <1>6. CASE UpdateOnlineStatus(r)
    <2>1. /\ pc[r] = "status" /\ op[r] = "online" /\ Active(r) /\ pc'[r] = "ok"
          /\ Put(r, {"online"}, column)
      BY <1>6 DEF UpdateOnlineStatus, Put, Goto, Active, HandlersInv, ProfilesInv
    <2>2. {"online"} \in SUBSET ProfileColumns
      BY DEF ProfileColumns, UserColumns
    <2>3. QED
      BY <1>5, <2>1, <2>2 DEF ProfilesInv
  <1>7. CASE UpdateUser(r)
    <2>1. PICK rest : rest = [c \in ProfileColumns |-> IF c \in UserColumns THEN read[r][c] ELSE column[c]]
      OBVIOUS
    <2>2. PICK C : C = {op[r]}
      OBVIOUS
    <2>3. /\ pc[r] = "writeUser" /\ op[r] \in {"name", "password"} /\ Active(r) /\ pc'[r] = "ok"
          /\ Put(r, C, rest)
      BY <1>7, <2>1, <2>2 DEF UpdateUser, Put, Goto, Active, HandlersInv, ProfilesInv
    <2>4. C \in SUBSET ProfileColumns
      BY <2>2, <2>3 DEF ProfileColumns, UserColumns
    <2>5. \A c \in ProfileColumns \ C : rest[c] = last[c] \/ LostToOverlap(c)
      BY <2>1, <2>3 DEF ProfilesInv
    <2>6. QED
      BY <1>5, <2>2, <2>3, <2>4, <2>5
  <1>8. CASE UpdateUserSettings(r)
    <2>1. PICK rest : rest = [c \in ProfileColumns |-> IF c \in SettingsColumns THEN read[r][c] ELSE column[c]]
      OBVIOUS
    <2>2. PICK C : C = {op[r], "notifications"}
      OBVIOUS
    <2>3. /\ pc[r] = "writeSettings" /\ op[r] \in SettingsColumns /\ Active(r) /\ pc'[r] = "ok"
          /\ Put(r, C, rest)
      BY <1>8, <2>1, <2>2 DEF UpdateUserSettings, Put, Goto, Active, HandlersInv, ProfilesInv
    <2>4. C \in SUBSET ProfileColumns
      BY <2>2, <2>3 DEF ProfileColumns, SettingsColumns
    <2>5. \A c \in ProfileColumns \ C : rest[c] = last[c] \/ LostToOverlap(c)
      BY <2>1, <2>3 DEF ProfilesInv
    <2>6. \A c \in C : c \in {op[r]} \union (IF op[r] = "theme" THEN {"notifications"} ELSE {})
      BY <2>2, <2>3 DEF SettingsColumns
    <2>7. QED
      BY <1>5, <2>2, <2>3, <2>4, <2>5, <2>6
  <1>9. CASE GetUserByID(r) \/ GetUserSettings(r)
    <2>1. /\ column' = column /\ last' = last
          /\ \A q \in Requests : read'[q] = IF q = r THEN column ELSE read[q]
          /\ pc'[r] \in {"writeUser", "writeSettings"}
          /\ pc'[r] = "writeUser" => op'[r] \in {"name", "password"}
          /\ pc'[r] = "writeSettings" => op'[r] \in SettingsColumns
      BY <1>9 DEF GetUserByID, GetUserSettings, Goto, HandlersInv, ProfilesInv, ProfilesTypeOK
    <2>2. UserColumns \subseteq ProfileColumns /\ SettingsColumns \subseteq ProfileColumns
      BY DEF ProfileColumns
    <2>3. QED
      BY <1>1, <1>2, <1>3, <2>1, <2>2 DEF ProfilesInv
  <1>10. CASE /\ UNCHANGED <<column, last, read>>
              /\ pc'[r] \notin {"writeUser", "writeSettings"}
              /\ pc'[r] = "status" => op'[r] = "online"
              /\ pc'[r] = "readUser" => op'[r] \in {"name", "password"}
              /\ pc'[r] = "readSettings" => op'[r] \in SettingsColumns
    BY <1>1, <1>2, <1>3, <1>10 DEF ProfilesInv
  <1>11. QED
    BY <1>6, <1>7, <1>8, <1>9, <1>10, ProfilesKinds

(* The steps that touch the contact, and what the others are.              *)
LEMMA ContactKinds ==
  ASSUME HandlersInv, ProfilesInv, ContactInv, NEW r \in Requests, ProfilesAct(r)
  PROVE  \/ AddUserContact(r) \/ RemoveUserContact(r) \/ BlockContact(r) \/ InsertBlocked(r) \/ UnblockContact(r)
         \/ /\ UNCHANGED contact
            /\ pc'[r] # "insertBlocked"
            /\ pc'[r] \in {"addContact", "removeContact", "unblock", "block"} => op'[r] = pc'[r]
            /\ pc'[r] = "deleteUser" => op'[r] = "deleteProfile"
            /\ op'[r] = "block" => pc'[r] = "block" \/ (pc'[r] = "failed" /\ r \in faulted')
  <1> USE DEF HandlersInv, profiles, Goto, FailsOnTo, Arrive, AsksProfile, SettingsColumns
  <1>1. CASE Stops(r) /\ UNCHANGED profiles
    BY <1>1 DEF Stops
  <1>2. CASE AskStatus(r) \/ AskProfile(r) \/ AskSettings(r) \/ DeleteProfile(r)
    BY <1>2 DEF AskStatus, AskProfile, AskSettings, DeleteProfile
  <1>3. CASE DeleteUser(r)
    BY <1>3 DEF DeleteUser, ContactInv
  <1>4. CASE UpdateOnlineStatus(r) \/ UpdateUser(r) \/ UpdateUserSettings(r)
    BY <1>4 DEF UpdateOnlineStatus, UpdateUser, UpdateUserSettings, Put, ProfilesInv
  <1>5. CASE GetUserByID(r) \/ GetUserSettings(r)
    BY <1>5 DEF GetUserByID, GetUserSettings, ProfilesInv
  <1>6. CASE AskContact(r)
    BY <1>6 DEF AskContact
  <1>7. QED
    BY <1>1, <1>2, <1>3, <1>4, <1>5, <1>6 DEF ProfilesAct, ProfilesStep

LEMMA ContactStep ==
  ASSUME HandlersInv, HandlersInv', Grows, ProfilesInv, ContactInv, NEW r \in Requests, ProfilesAct(r)
  PROVE  ContactInv'
  <1>1. \A q \in Requests \ {r} : pc'[q] = pc[q] /\ op'[q] = op[q]
    BY HandlersStep, ProfilesActMoves
  <1>2. \A p \in Requests : \A q \in met[p] : q \in Requests /\ q \in met'[p] /\ op'[q] = op[q]
    BY DEF HandlersInv, Grows
  <1>3. ASSUME NEW o, NEW p \in Requests, op[p] = "block", \E q \in met[p] : op[q] \in {"addContact", "block"}
        PROVE  \E q \in met'[p] : op'[q] \in {"addContact", "block"}
    BY <1>2, <1>3
  <1>4. \A q \in Requests : pc[q] \in {"ok", "failed"} =>
          pc'[q] = pc[q] /\ op'[q] = op[q] /\ (q \in faulted => q \in faulted')
    BY DEF Grows, Active
  <1>5. ASSUME (\E q \in Requests : op[q] \in {"unblock", "removeContact"} /\ pc[q] = "ok")
        PROVE  (\E q \in Requests : op'[q] \in {"unblock", "removeContact"} /\ pc'[q] = "ok")
    BY <1>4, <1>5
  <1>6. CASE /\ UNCHANGED contact
             /\ pc'[r] # "insertBlocked"
             /\ pc'[r] \in {"addContact", "removeContact", "unblock", "block"} => op'[r] = pc'[r]
             /\ pc'[r] = "deleteUser" => op'[r] = "deleteProfile"
             /\ op'[r] = "block" => pc'[r] = "block" \/ (pc'[r] = "failed" /\ r \in faulted')
    BY <1>1, <1>3, <1>4, <1>5, <1>6 DEF ContactInv, BlockHolds
  <1>7. ASSUME NEW new, NEW l, SetContact(r, new, l), Active(r), op[r] # "none",
               l \in {"ok", "failed", "insertBlocked"},
               l = "insertBlocked" => op[r] = "block" /\ new = "none",
               new # "none" => contact # "none" \/ op[r] \in {"addContact", "block"},
               op[r] = "block" => \/ l = "insertBlocked" 
                                  \/ l = "ok" /\ new = "blocked"
                                  \/ l = "failed" /\ \E q \in met[r] : op[q] \in {"addContact", "block"},
               contact = "blocked" =>
                 new = "blocked" \/ (l = "ok" /\ op[r] \in {"unblock", "removeContact"})
        PROVE  ContactInv'
    <2>1. contact' = new /\ pc'[r] = l /\ op' = op
      BY <1>7 DEF SetContact, Goto, HandlersInv
    <2>2. ASSUME NEW q \in Requests, pc'[q] = "insertBlocked", contact' # "none"
          PROVE  \E p \in met'[q] : op'[p] \in {"addContact", "block"}
      <3>1. q # r /\ pc[q] = "insertBlocked" /\ Active(q) /\ op[q] = "block"
        BY <1>1, <1>7, <2>1, <2>2 DEF Active, ContactInv
      <3>2. r \in met[q]
        BY <1>7, <3>1 DEF HandlersInv
      <3>3. QED
        BY <1>2, <1>3, <1>7, <2>1, <2>2, <3>1, <3>2 DEF ContactInv
    <2>3. ASSUME NEW q \in Requests, op'[q] = "block", pc'[q] = "failed"
          PROVE  q \in faulted' \/ \E p \in met'[q] : op'[p] \in {"addContact", "block"}
      BY <1>1, <1>2, <1>3, <1>4, <1>7, <2>1, <2>3 DEF ContactInv, BlockHolds
    <2>4. ASSUME NEW q \in Requests, op'[q] = "block", pc'[q] = "ok"
          PROVE  \/ contact' = "blocked"
                 \/ \E p \in Requests : op'[p] \in {"unblock", "removeContact"} /\ pc'[p] = "ok"
      <3>1. CASE q = r
        BY <1>7, <2>1, <2>4, <3>1
      <3>2. CASE q # r
        BY <1>1, <1>5, <1>7, <2>1, <2>4, <3>2 DEF ContactInv, BlockHolds
      <3>3. QED
        BY <3>1, <3>2
    <2>5. QED
      BY <1>1, <1>7, <2>1, <2>2, <2>3, <2>4 DEF ContactInv, BlockHolds
  <1>8. CASE AddUserContact(r) \/ RemoveUserContact(r) \/ UnblockContact(r)
    BY <1>7, <1>8 DEF AddUserContact, RemoveUserContact, UnblockContact, Active, ContactInv
  <1>9. CASE BlockContact(r) \/ InsertBlocked(r)
    BY <1>7, <1>9 DEF BlockContact, InsertBlocked, Active, ContactInv
  <1>10. QED
    BY <1>6, <1>8, <1>9, ContactKinds

AllOfProfiles ==
  /\ service = "profiles" => ProfilesInv /\ ContactInv
  /\ service # "profiles" => column = last

LEMMA ProfilesInitially == Init => AllOfProfiles
  BY DEF Init, HandlersInit, ProfilesInit, AllOfProfiles, ProfilesInv, ContactInv, BlockHolds, ProfilesTypeOK

LEMMA ProfilesNextInv ==
  HandlersInv /\ HandlersInv' /\ Grows /\ AllOfProfiles /\ [Next]_vars => AllOfProfiles'
  <1> SUFFICES ASSUME HandlersInv, HandlersInv', Grows, AllOfProfiles, [Next]_vars
               PROVE  AllOfProfiles'
    OBVIOUS
  <1>1. service' = service
    BY DEF Grows
  <1>2. CASE service = "profiles" /\ \E r \in Requests : ProfilesAct(r)
    BY <1>1, <1>2, ProfilesInvStep, ContactStep DEF AllOfProfiles
  <1>3. CASE service = "profiles" /\ UNCHANGED <<handling, profiles>>
    <2>1. ProfilesInv'
      BY <1>3 DEF AllOfProfiles, ProfilesInv, ProfilesTypeOK, LostToOverlap, handling, profiles
    <2>2. ContactInv'
      BY <1>3 DEF AllOfProfiles, ContactInv, BlockHolds, handling, profiles
    <2>3. QED
      BY <1>1, <1>3, <2>1, <2>2 DEF AllOfProfiles
  <1>4. CASE service # "profiles"
    BY <1>1, <1>4, ProfilesFrame DEF AllOfProfiles, profiles
  <1>5. QED
    BY <1>2, <1>3, <1>4, ProfilesFrame

LEMMA Profiling == Spec => []AllOfProfiles
  BY Requesting, ProfilesInitially, ProfilesNextInv, HandlersNext, PTL DEF Spec

(* Whatever requests overlap, UpdateUser and UpdateUserSettings lose no    *)
(* column by themselves, a block is refused only for a contact that came   *)
(* meanwhile, and one that was answered holds until it is lifted.          *)
THEOREM ProfilesLose == Spec => []ProfilesHold
  <1>1. HandlersInv /\ AllOfProfiles => ProfilesHold
    <2> SUFFICES ASSUME HandlersInv, AllOfProfiles PROVE ProfilesHold
      OBVIOUS
    <2>1. CASE service = "profiles"
      BY <2>1 DEF AllOfProfiles, ProfilesInv, ContactInv, ProfilesHold, ProfileLostOnlyToOverlap, LostToOverlap
    <2>2. CASE service # "profiles"
      <3>1. \A r \in Requests : op[r] # "block"
        BY <2>2 DEF HandlersInv, Belongs, BesideCall, Marks
      <3>2. QED
        BY <2>2, <3>1 DEF AllOfProfiles, ProfilesHold, ProfileLostOnlyToOverlap, BlockHolds
    <2>3. QED
      BY <2>1, <2>2
  <1>2. QED
    BY <1>1, Requesting, Profiling, PTL

-----------------------------------------------------------------------------
(* Keys.                                                                   *)

KeysAct(r) == KeysStep(r) \/ (Stops(r) /\ UNCHANGED keys)

LEMMA KeysFrame ==
  [Next]_vars =>
    /\ service = "keys" => (\E r \in Requests : KeysAct(r)) \/ UNCHANGED <<handling, keys>>
    /\ service # "keys" => UNCHANGED keys
  BY DEF Next, KeysNext, Stop, vars, KeysAct

(* A prekey that was selected is in the table, and consumed once it was    *)
(* given away; so whoever selects it as well has overlapped.               *)
PreKeysInv ==
  /\ onetime \subseteq 0 .. 2 /\ used \subseteq 0 .. 2 /\ onetime \intersect used = {}
  /\ picked \in [Requests -> 0 .. 2 \union {NoKey}]
  /\ \A r \in Requests : picked[r] # NoKey => pc[r] \in {"use", "ok", "failed"} /\ picked[r] \in onetime \union used
  /\ \A r \in Requests : pc[r] = "use" => picked[r] # NoKey
  /\ \A r \in Requests : pc[r] = "ok" /\ picked[r] # NoKey => picked[r] \in used
  /\ \A q, r \in Requests :
       q # r /\ pc[q] \in {"use", "ok"} /\ pc[r] \in {"use", "ok"} /\ picked[q] # NoKey /\ picked[q] = picked[r]
         => q \in met[r]

PreKeyRows == [device : Devices, nil : BOOLEAN, active : BOOLEAN]

SignedInv ==
  /\ signed \subseteq PreKeyRows
  /\ \A r \in Requests : pc[r] = "endSigned" => op[r] = "endSigned"
  /\ RotationKeepsAKey

LEMMA PreKeyKinds ==
  ASSUME HandlersInv, PreKeysInv, NEW r \in Requests, KeysAct(r)
  PROVE  \/ SelectOneTimePreKey(r) /\ picked' # picked
         \/ UseOneTimePreKey(r)
         \/ /\ used' = used /\ picked' = picked /\ pc'[r] # "use" /\ (pc'[r] = "failed" \/ pc[r] # "use")
            /\ onetime' = onetime \/ (0 \notin onetime \union used /\ onetime' = onetime \union {0})
            /\ pc[r] \notin {"ok", "failed"}
  <1> USE DEF HandlersInv, Goto, FailsOnTo, Arrive, AsksKeys, keys
  <1>1. CASE Stops(r) /\ UNCHANGED keys
    BY <1>1 DEF Stops, Active
  <1>2. CASE AskIdentity(r) \/ CreateIdentityKey(r) \/ AskEndIdentity(r) \/ EndIdentityKey(r)
    BY <1>2 DEF AskIdentity, CreateIdentityKey, AskEndIdentity, EndIdentityKey
  <1>3. CASE AskSigned(r) \/ CreateSignedPreKey(r) \/ AskRotate(r) \/ RotateSignedPreKey(r)
    BY <1>3 DEF AskSigned, CreateSignedPreKey, AskRotate, RotateSignedPreKey
  <1>4. CASE AskEndSigned(r) \/ DeactivateSignedPreKey(r)
    BY <1>4 DEF AskEndSigned, DeactivateSignedPreKey
  <1>5. CASE UploadOneTimePreKeys(r)
    BY <1>5 DEF UploadOneTimePreKeys
  <1>6. CASE SelectOneTimePreKey(r)
    <2>1. CASE \E k \in onetime : picked' = [picked EXCEPT ![r] = k]
      <3>1. pc[r] = "consume" /\ picked[r] = NoKey
        BY <1>6 DEF SelectOneTimePreKey, PreKeysInv
      <3>2. PICK k \in onetime : picked' = [picked EXCEPT ![r] = k]
        BY <2>1
      <3>3. k # NoKey
        BY DEF PreKeysInv, NoKey
      <3>4. picked'[r] = k
        BY <3>2 DEF PreKeysInv
      <3>5. QED
        BY <1>6, <3>1, <3>3, <3>4
    <2>2. CASE ~ \E k \in onetime : picked' = [picked EXCEPT ![r] = k]
      BY <1>6, <2>2 DEF SelectOneTimePreKey
    <2>3. QED
      BY <2>1, <2>2
  <1>7. CASE AskUpload(r) \/ AskPreKey(r) \/ AskBundle(r) \/ GetIdentityKey(r) \/ GetActiveSignedPreKey(r)
    BY <1>7 DEF AskUpload, AskPreKey, AskBundle, GetIdentityKey, GetActiveSignedPreKey
  <1>8. QED
    BY <1>1, <1>2, <1>3, <1>4, <1>5, <1>6, <1>7 DEF KeysAct, KeysStep

LEMMA KeysActMoves == ASSUME NEW r \in Requests, KeysAct(r) PROVE Moves(r)
  BY KeysMoves, StopsMoves DEF KeysAct

LEMMA PreKeysStep ==
  ASSUME HandlersInv, HandlersInv', Grows, PreKeysInv, NEW r \in Requests, KeysAct(r)
  PROVE  PreKeysInv'
  <1>1. \A q \in Requests \ {r} : pc'[q] = pc[q]
    BY HandlersStep, KeysActMoves
  <1>2. \A p, q \in Requests : p \in met[q] => p \in met'[q]
    BY DEF Grows
  <1>3. CASE SelectOneTimePreKey(r) /\ picked' # picked
    <2>1. PICK k \in onetime : picked' = [picked EXCEPT ![r] = k]
      BY <1>3 DEF SelectOneTimePreKey
    <2>2. pc[r] = "consume" /\ pc'[r] = "use" /\ onetime' = onetime /\ used' = used
      BY <1>3 DEF SelectOneTimePreKey, Goto, HandlersInv
    <2>3. k \in 0 .. 2 /\ k # NoKey /\ k \notin used
      BY DEF PreKeysInv, NoKey
    <2>4. /\ picked' \in [Requests -> 0 .. 2 \union {NoKey}]
          /\ picked'[r] = k /\ \A q \in Requests \ {r} : picked'[q] = picked[q]
      BY <2>1, <2>3 DEF PreKeysInv
    <2>5. ASSUME NEW q \in Requests \ {r}, pc[q] \in {"use", "ok"}, picked[q] = k
          PROVE  q \in met'[r] /\ r \in met'[q]
      <3>1. pc[q] = "use"
        BY <2>3, <2>5 DEF PreKeysInv
      <3>2. q \in met[r] /\ r \in met[q]
        BY <2>2, <3>1 DEF HandlersInv, Active
      <3>3. QED
        BY <1>2, <3>2
    <2>6. QED
      BY <1>1, <1>2, <2>2, <2>3, <2>4, <2>5 DEF PreKeysInv
  <1>4. CASE UseOneTimePreKey(r)
    <2>1. /\ pc[r] = "use" /\ pc'[r] = "ok" /\ picked' = picked
          /\ onetime' = onetime \ {picked[r]} /\ used' = used \union {picked[r]}
      BY <1>4 DEF UseOneTimePreKey, Goto, HandlersInv
    <2>2. picked[r] \in 0 .. 2
      BY <2>1 DEF PreKeysInv
    <2>3. QED
      BY <1>1, <1>2, <2>1, <2>2 DEF PreKeysInv
  <1>5. CASE /\ used' = used /\ picked' = picked /\ pc'[r] # "use" /\ (pc'[r] = "failed" \/ pc[r] # "use")
             /\ onetime' = onetime \/ (0 \notin onetime \union used /\ onetime' = onetime \union {0})
             /\ pc[r] \notin {"ok", "failed"}
    <2>1. onetime \subseteq onetime' /\ onetime' \subseteq 0 .. 2 /\ onetime' \intersect used' = {}
      BY <1>5 DEF PreKeysInv
    <2>2. pc'[r] = "failed" \/ picked[r] = NoKey
      BY <1>5 DEF PreKeysInv
    <2>3. QED
      BY <1>1, <1>2, <1>5, <2>1, <2>2 DEF PreKeysInv
  <1>6. QED
    BY <1>3, <1>4, <1>5, PreKeyKinds

LEMMA DeactivatedRow ==
  ASSUME NEW k \in PreKeyRows, NEW b \in BOOLEAN
  PROVE  /\ [k EXCEPT !.active = b] \in PreKeyRows
         /\ [k EXCEPT !.active = b].device = k.device
         /\ [k EXCEPT !.active = b].active = b
  BY DEF PreKeyRows

LEMMA SignedStep ==
  ASSUME HandlersInv, Grows, SignedInv, NEW r \in Requests, KeysAct(r)
  PROVE  SignedInv'
  <1>1. \A q \in Requests \ {r} : pc'[q] = pc[q] /\ op'[q] = op[q]
    BY HandlersStep, KeysActMoves
  <1>2. \A q \in Requests : op[q] = "endSigned" /\ pc[q] = "ok" => op'[q] = "endSigned" /\ pc'[q] = "ok"
    BY DEF Grows, Active
  <1> USE DEF HandlersInv, Goto, FailsOnTo, Arrive, AsksKeys, keys
  <1>3. CASE CreateSignedPreKey(r) \/ RotateSignedPreKey(r)
    <2>1. PICK d \in Devices :
            \/ signed' = signed
            \/ signed' = signed \union {Row(d, TRUE)}
            \/ signed' = Rotated(d) \union {Row(d, TRUE)}
      BY <1>3 DEF CreateSignedPreKey, RotateSignedPreKey
    <2>2. pc'[r] \in {"ok", "failed"}
      BY <1>3 DEF CreateSignedPreKey, RotateSignedPreKey
    <2>3. PICK w \in PreKeyRows : w = Row(d, TRUE) /\ w.device = d /\ w.active
      <3>1. PICK w : w = [device |-> d, nil |-> TRUE, active |-> TRUE]
        OBVIOUS
      <3>2. w \in PreKeyRows /\ w.device = d /\ w.active
        BY <3>1 DEF PreKeyRows
      <3>3. QED
        BY <3>1, <3>2 DEF Row
    <2> DEFINE Turned(k) == [k EXCEPT !.active = @ /\ k.device # d]
    <2>4. ASSUME NEW k \in signed
          PROVE  /\ Turned(k) \in PreKeyRows
                 /\ Turned(k).device = k.device
                 /\ k.active /\ k.device # d => Turned(k).active
      <3>1. k \in PreKeyRows /\ (k.active /\ k.device # d) \in BOOLEAN
        BY DEF SignedInv
      <3>2. PICK b \in BOOLEAN : b = (k.active /\ k.device # d)
        BY <3>1
      <3>3. /\ [k EXCEPT !.active = b] \in PreKeyRows
            /\ [k EXCEPT !.active = b].device = k.device
            /\ [k EXCEPT !.active = b].active = b
        BY <3>1, DeactivatedRow
      <3>4. QED
        BY <3>2, <3>3
    <2>5. \/ signed' = signed
          \/ signed' = signed \union {w}
          \/ signed' = {Turned(k) : k \in signed} \union {w}
      BY <2>1, <2>3 DEF Rotated
    <2> HIDE DEF Turned
    <2>6. signed' \subseteq PreKeyRows
      BY <2>4, <2>5 DEF SignedInv
    <2>7. ASSUME NEW k \in signed, k.device = "seeded", k.active
          PROVE  \E l \in signed' : l.device = "seeded" /\ l.active
      <3>1. CASE signed \subseteq signed'
        BY <2>7, <3>1
      <3>2. CASE w \in signed' /\ d = "seeded"
        BY <2>3, <3>2
      <3>3. CASE Turned(k) \in signed' /\ d # "seeded"
        BY <2>4, <2>7, <3>3
      <3>4. QED
        BY <2>5, <3>1, <3>2, <3>3
    <2>8. QED
      BY <1>1, <1>2, <2>2, <2>6, <2>7 DEF SignedInv, RotationKeepsAKey
  <1>4. CASE DeactivateSignedPreKey(r)
    <2>1. PICK k \in signed : signed' = Inactive(signed, k)
      BY <1>4 DEF DeactivateSignedPreKey
    <2>2. pc'[r] = "ok" /\ op'[r] = "endSigned"
      BY <1>4 DEF DeactivateSignedPreKey, SignedInv
    <2>3. [k EXCEPT !.active = FALSE] \in PreKeyRows
      BY DeactivatedRow DEF SignedInv
    <2>4. QED
      BY <1>1, <2>1, <2>2, <2>3 DEF SignedInv, RotationKeepsAKey, Inactive
  <1>5. CASE /\ UNCHANGED signed
             /\ pc'[r] = "endSigned" => op'[r] = "endSigned"
    BY <1>1, <1>2, <1>5 DEF SignedInv, RotationKeepsAKey
  <1>6. CASE Stops(r) /\ UNCHANGED keys
    BY <1>5, <1>6 DEF Stops
  <1>7. CASE AskIdentity(r) \/ CreateIdentityKey(r) \/ AskEndIdentity(r) \/ EndIdentityKey(r)
    BY <1>5, <1>7 DEF AskIdentity, CreateIdentityKey, AskEndIdentity, EndIdentityKey
  <1>8. CASE AskSigned(r) \/ AskRotate(r) \/ AskEndSigned(r) \/ AskUpload(r) \/ AskPreKey(r) \/ AskBundle(r)
    BY <1>5, <1>8 DEF AskSigned, AskRotate, AskEndSigned, AskUpload, AskPreKey, AskBundle
  <1>9. CASE UploadOneTimePreKeys(r) \/ SelectOneTimePreKey(r) \/ UseOneTimePreKey(r) \/ GetIdentityKey(r) \/ GetActiveSignedPreKey(r)
    BY <1>5, <1>9 DEF UploadOneTimePreKeys, SelectOneTimePreKey, UseOneTimePreKey, GetIdentityKey, GetActiveSignedPreKey
  <1>10. QED
    BY <1>3, <1>4, <1>6, <1>7, <1>8, <1>9 DEF KeysAct, KeysStep

AllOfKeys ==
  /\ service = "keys" => PreKeysInv /\ SignedInv
  /\ service # "keys" => picked = [r \in Requests |-> NoKey] /\ \E k \in signed : k.device = "seeded" /\ k.active

LEMMA KeysInitially == Init => AllOfKeys
  <1> SUFFICES ASSUME Init PROVE AllOfKeys
    OBVIOUS
  <1>1. PreKeysInv
    BY DEF Init, HandlersInit, KeysInit, PreKeysInv, NoKey
  <1>2. SignedInv /\ \E k \in signed : k.device = "seeded" /\ k.active
    BY DEF Init, HandlersInit, KeysInit, SignedInv, RotationKeepsAKey, Row, Devices, PreKeyRows
  <1>3. QED
    BY <1>1, <1>2 DEF AllOfKeys, Init, KeysInit

LEMMA KeysNextInv ==
  HandlersInv /\ HandlersInv' /\ Grows /\ AllOfKeys /\ [Next]_vars => AllOfKeys'
  <1> SUFFICES ASSUME HandlersInv, HandlersInv', Grows, AllOfKeys, [Next]_vars
               PROVE  AllOfKeys'
    OBVIOUS
  <1>1. service' = service
    BY DEF Grows
  <1>2. CASE service = "keys" /\ \E r \in Requests : KeysAct(r)
    BY <1>1, <1>2, PreKeysStep, SignedStep DEF AllOfKeys
  <1>3. CASE service = "keys" /\ UNCHANGED <<handling, keys>>
    <2>1. PreKeysInv'
      BY <1>3 DEF AllOfKeys, PreKeysInv, handling, keys
    <2>2. SignedInv'
      BY <1>3 DEF AllOfKeys, SignedInv, RotationKeepsAKey, handling, keys
    <2>3. QED
      BY <1>1, <1>3, <2>1, <2>2 DEF AllOfKeys
  <1>4. CASE service # "keys"
    BY <1>1, <1>4, KeysFrame DEF AllOfKeys, keys
  <1>5. QED
    BY <1>2, <1>3, <1>4, KeysFrame

LEMMA Keying == Spec => []AllOfKeys
  BY Requesting, KeysInitially, KeysNextInv, HandlersNext, PTL DEF Spec

(* GetOneTimePreKey gives no key to two clients but those that overlapped, *)
(* and no RotateSignedPreKey leaves the device without a signed prekey.    *)
THEOREM KeysAreKept == Spec => []KeysHold
  <1>1. AllOfKeys => KeysHold
    BY DEF AllOfKeys, PreKeysInv, SignedInv, KeysHold, PreKeyTwiceOnlyByOverlap, RotationKeepsAKey
  <1>2. QED
    BY <1>1, Keying, PTL

-----------------------------------------------------------------------------
(* Uploads.                                                                *)

UploadsAct(r) == UploadsStep(r) \/ (Stops(r) /\ UNCHANGED uploads)

LEMMA UploadsFrame ==
  [Next]_vars =>
    /\ service = "uploads" => (\E r \in Requests : UploadsAct(r)) \/ UNCHANGED <<handling, uploads>>
    /\ service # "uploads" => UNCHANGED uploads
  BY DEF Next, UploadsNext, Stop, vars, UploadsAct

Completed(r) == op[r] = "complete" /\ pc[r] = "ok"
Taken        == \E q \in Requests : op[q] \in {"deleteUpload", "fail"} /\ pc[q] = "ok"
Renamed(r)   == \E q \in met[r] : op[q] = "rename"

(* Nobody has inserted the row.                                            *)
Uninserted == \A q \in Requests : op[q] = "createUpload" => pc[q] # "ok"

UploadSessions == [status : {"none", "IN_PROGRESS", "COMPLETED", "FAILED"},
                   name : Requests \union {Nobody}, bytes : Requests \union {Nobody},
                   url : BOOLEAN, done : BOOLEAN]

(* Which operation a statement belongs to.  Before the row is inserted     *)
(* nobody has read it.  A row that an update is about to write back has    *)
(* each completion that was answered, or the update met that completion.   *)
UploadsInv ==
  /\ session \in UploadSessions /\ held \in [Requests -> UploadSessions]
  /\ \A r \in Requests :
       /\ pc[r] \in {"presign", "insertUpload"} => op[r] = "createUpload"
       /\ pc[r] \in {"readUpload", "saveUpload"} => op[r] \in {"rename", "complete"}
       /\ pc[r] = "dropUpload" => op[r] = "deleteUpload"
       /\ pc[r] = "setFailed" => op[r] = "fail"
       /\ pc[r] = "setBytes" => op[r] = "progress"
       /\ pc[r] = "dropStale" => op[r] = "stale"
  /\ \A q, r \in Requests : op[q] = "createUpload" /\ op[r] = "createUpload" => q = r
  /\ Uninserted => session = NoSession /\ \A q \in Requests : ~ Completed(q) /\ pc[q] # "saveUpload"
  /\ session.status = "COMPLETED" => session.done
  /\ \A q \in Requests : pc[q] = "saveUpload" =>
       /\ held[q].status = "COMPLETED" => held[q].done
       /\ op[q] = "rename" => \A r \in Requests : Completed(r) =>
            held[q].status = "COMPLETED" \/ Taken \/ Renamed(r)
  /\ \A r \in Requests : Completed(r) => session.status = "COMPLETED" \/ Taken \/ Renamed(r)

(* What a step does to the row, and when it answers.                       *)
UploadsDoes(r) ==
  \/ /\ session' = session /\ held' = held
     /\ pc'[r] # "saveUpload"
     /\ pc'[r] = "ok" => op'[r] \notin {"createUpload", "complete"}
  \/ InsertUpload(r)
  \/ ReadUpload(r)
  \/ SaveUpload(r) /\ session # NoSession
  \/ /\ session # NoSession /\ held' = held /\ pc'[r] = "ok" /\ op'[r] \notin {"createUpload", "complete", "rename"}
     /\ session' \in UploadSessions
     /\ \/ session'.status = session.status /\ session'.done = session.done
        \/ op'[r] \in {"deleteUpload", "fail"} /\ session'.status # "COMPLETED"
        \/ session.status = "IN_PROGRESS" /\ session'.status # "COMPLETED"

LEMMA UploadsKinds ==
  ASSUME HandlersInv, UploadsInv, NEW r \in Requests, UploadsAct(r)
  PROVE  UploadsDoes(r)
  <1> USE DEF HandlersInv, Goto, FailsOnTo, Arrive, Asking, uploads
  <1>1. CASE Stops(r) /\ UNCHANGED uploads
    BY <1>1 DEF Stops, UploadsDoes
  <1>2. CASE AskCreate(r) \/ Presign(r) \/ AskRename(r) \/ AskComplete(r)
    BY <1>2 DEF AskCreate, Presign, AskRename, AskComplete, UploadsDoes
  <1>3. CASE AskProgress(r) \/ AskFail(r) \/ AskDeleteUpload(r) \/ AskStale(r)
    BY <1>3 DEF AskProgress, AskFail, AskDeleteUpload, AskStale, UploadsDoes
  <1>4. CASE InsertUpload(r) \/ ReadUpload(r)
    BY <1>4 DEF UploadsDoes
  <1>5. CASE SaveUpload(r)
    BY <1>5 DEF SaveUpload, Set, UploadsDoes
  <1>6. CASE UpdateProgress(r)
    <2>1. [session EXCEPT !.bytes = r] \in UploadSessions
          /\ [session EXCEPT !.bytes = r].status = session.status
          /\ [session EXCEPT !.bytes = r].done = session.done
      BY DEF UploadsInv, UploadSessions
    <2>2. QED
      BY <1>6, <2>1 DEF UpdateProgress, Set, UploadsDoes, UploadsInv
  <1>7. CASE MarkUploadFailed(r)
    <2>1. [session EXCEPT !.status = "FAILED"] \in UploadSessions
          /\ [session EXCEPT !.status = "FAILED"].status = "FAILED"
      BY DEF UploadsInv, UploadSessions
    <2>2. QED
      BY <1>7, <2>1 DEF MarkUploadFailed, Set, UploadsDoes, UploadsInv
  <1>8. CASE DeleteUpload(r) \/ DeleteStaleUploads(r)
    <2>1. NoSession \in UploadSessions /\ NoSession.status = "none"
      BY DEF NoSession, UploadSessions
    <2>2. CASE DeleteUpload(r)
      BY <2>1, <2>2 DEF DeleteUpload, Set, UploadsDoes, UploadsInv
    <2>3. CASE DeleteStaleUploads(r)
      BY <2>1, <2>3 DEF DeleteStaleUploads, UploadsDoes, UploadsInv
    <2>4. QED
      BY <1>8, <2>2, <2>3
  <1>9. QED
    BY <1>1, <1>2, <1>3, <1>4, <1>5, <1>6, <1>7, <1>8 DEF UploadsAct, UploadsStep

LEMMA UploadsActMoves == ASSUME NEW r \in Requests, UploadsAct(r) PROVE Moves(r)
  BY UploadsMoves, StopsMoves DEF UploadsAct

(* Statements and operations go together.                                  *)
LEMMA UploadsLabels ==
  ASSUME HandlersInv, UploadsInv, NEW r \in Requests, UploadsAct(r)
  PROVE  /\ pc'[r] \in {"presign", "insertUpload"} => op'[r] = "createUpload"
         /\ pc'[r] \in {"readUpload", "saveUpload"} => op'[r] \in {"rename", "complete"}
         /\ pc'[r] = "dropUpload" => op'[r] = "deleteUpload"
         /\ pc'[r] = "setFailed" => op'[r] = "fail"
         /\ pc'[r] = "setBytes" => op'[r] = "progress"
         /\ pc'[r] = "dropStale" => op'[r] = "stale"
         /\ op'[r] = "createUpload" => \A q \in Requests : op[q] = "createUpload" => q = r
  <1> USE DEF HandlersInv, Goto, FailsOnTo, Arrive, Asking, uploads
  <1>1. CASE Stops(r) /\ UNCHANGED uploads
    BY <1>1 DEF Stops, UploadsInv
  <1>2. CASE AskCreate(r) \/ AskRename(r) \/ AskComplete(r) \/ AskProgress(r)
    BY <1>2 DEF AskCreate, AskRename, AskComplete, AskProgress
  <1>3. CASE AskFail(r) \/ AskDeleteUpload(r) \/ AskStale(r)
    BY <1>3 DEF AskFail, AskDeleteUpload, AskStale
  <1>4. CASE Presign(r) \/ InsertUpload(r) \/ ReadUpload(r)
    BY <1>4 DEF Presign, InsertUpload, ReadUpload, UploadsInv
  <1>5. CASE SaveUpload(r) \/ UpdateProgress(r) \/ MarkUploadFailed(r)
    BY <1>5 DEF SaveUpload, UpdateProgress, MarkUploadFailed, Set, UploadsInv
  <1>6. CASE DeleteUpload(r) \/ DeleteStaleUploads(r)
    BY <1>6 DEF DeleteUpload, DeleteStaleUploads, Set, UploadsInv
  <1>7. QED
    BY <1>1, <1>2, <1>3, <1>4, <1>5, <1>6 DEF UploadsAct, UploadsStep

LEMMA UploadsInvStep ==
  ASSUME HandlersInv, HandlersInv', Grows, UploadsInv, NEW r \in Requests, UploadsAct(r)
  PROVE  UploadsInv'
  <1>1. \A q \in Requests \ {r} : pc'[q] = pc[q] /\ op'[q] = op[q]
    BY HandlersStep, UploadsActMoves
  <1>2. ASSUME NEW q \in Requests, Renamed(q) PROVE Renamed(q)'
    BY <1>2 DEF Renamed, Grows, HandlersInv
  <1>3. ASSUME NEW q \in Requests, Completed(q) PROVE Completed(q)'
    BY <1>3 DEF Completed, Grows, Active
  <1>4. Taken => Taken'
    BY DEF Taken, Grows, Active
  <1>5. ASSUME NEW q \in Requests \ {r}, Completed(q)' PROVE Completed(q)
    BY <1>1, <1>5 DEF Completed
  <1>6. ASSUME ~ Uninserted PROVE ~ Uninserted'
    BY <1>6 DEF Uninserted, Grows, Active
  <1>7. UploadsInv' <=>
          /\ session' \in UploadSessions /\ held' \in [Requests -> UploadSessions]
          /\ Uninserted' => session' = NoSession /\ \A q \in Requests : ~ Completed(q)' /\ pc'[q] # "saveUpload"
          /\ session'.status = "COMPLETED" => session'.done
          /\ \A q \in Requests : pc'[q] = "saveUpload" =>
               /\ held'[q].status = "COMPLETED" => held'[q].done
               /\ op'[q] = "rename" => \A p \in Requests : Completed(p)' =>
                    held'[q].status = "COMPLETED" \/ Taken' \/ Renamed(p)'
          /\ \A q \in Requests : Completed(q)' => session'.status = "COMPLETED" \/ Taken' \/ Renamed(q)'
    <2>1. (\A p, q \in Requests : op[p] = "createUpload" /\ op[q] = "createUpload" => p = q)'
      BY <1>1, UploadsLabels DEF UploadsInv
    <2>2. QED
      BY <1>1, <2>1, UploadsLabels DEF UploadsInv
  <1>8. UploadsDoes(r)
    BY UploadsKinds
  <1>9. CASE /\ session' = session /\ held' = held /\ pc'[r] # "saveUpload"
             /\ pc'[r] = "ok" => op'[r] \notin {"createUpload", "complete"}
    <2>1. ~ Completed(r)'
      BY <1>9 DEF Completed
    <2>2. QED
      BY <1>1, <1>2, <1>4, <1>5, <1>6, <1>7, <1>9, <2>1 DEF UploadsInv
  <1>10. CASE InsertUpload(r)
    <2>1. pc[r] = "insertUpload" /\ op[r] = "createUpload" /\ pc'[r] = "ok" /\ op'[r] = "createUpload"
          /\ session' = [NoSession EXCEPT !.status = "IN_PROGRESS"] /\ held' = held
      BY <1>10 DEF InsertUpload, Goto, HandlersInv, UploadsInv
    <2>2. Uninserted /\ ~ Uninserted' /\ ~ Completed(r)'
      BY <2>1 DEF Uninserted, UploadsInv, Completed
    <2>3. session' \in UploadSessions /\ session'.status # "COMPLETED"
      BY <2>1 DEF NoSession, UploadSessions
    <2>4. \A q \in Requests : ~ Completed(q)' /\ pc'[q] # "saveUpload"
      BY <1>1, <1>5, <2>1, <2>2 DEF UploadsInv
    <2>5. QED
      BY <1>7, <2>1, <2>2, <2>3, <2>4 DEF UploadsInv
  <1>11. CASE ReadUpload(r)
    <2>1. /\ session' = session /\ held' = [held EXCEPT ![r] = session]
          /\ pc[r] = "readUpload" /\ op'[r] = op[r]
          /\ pc'[r] = "saveUpload" => session # NoSession
          /\ pc'[r] = "ok" => session # NoSession /\ session.status = "COMPLETED" /\ op[r] = "complete"
      BY <1>11 DEF ReadUpload, Read, Goto, HandlersInv
    <2>2. /\ held' \in [Requests -> UploadSessions]
          /\ held'[r] = session /\ \A q \in Requests \ {r} : held'[q] = held[q]
      BY <2>1 DEF UploadsInv
    <2>3. ASSUME NEW q \in Requests, Completed(q)'
          PROVE  session.status = "COMPLETED" \/ Taken' \/ Renamed(q)'
      BY <1>2, <1>4, <1>5, <2>1, <2>3 DEF Completed, UploadsInv
    <2>4. ASSUME NEW q \in Requests, pc'[q] = "saveUpload", op'[q] = "rename", NEW p \in Requests, Completed(p)'
          PROVE  held'[q].status = "COMPLETED" \/ Taken' \/ Renamed(p)'
      <3>1. CASE q = r
        BY <2>2, <2>3, <2>4, <3>1
      <3>2. CASE q # r /\ p # r
        BY <1>1, <1>2, <1>4, <1>5, <2>2, <2>4, <3>2 DEF UploadsInv
      <3>3. CASE q # r /\ p = r
        <4>1. q \in met[r] /\ op[q] = "rename"
          BY <1>1, <2>1, <2>4, <3>3 DEF HandlersInv, Active
        <4>2. QED
          BY <1>2, <3>3, <4>1 DEF Renamed
      <3>4. QED
        BY <3>1, <3>2, <3>3
    <2>5. ASSUME Uninserted' PROVE session = NoSession /\ \A q \in Requests : ~ Completed(q)' /\ pc'[q] # "saveUpload"
      BY <1>1, <1>5, <1>6, <2>1, <2>5 DEF UploadsInv, Completed
    <2>6. \A q \in Requests : pc'[q] = "saveUpload" => (held'[q].status = "COMPLETED" => held'[q].done)
      BY <1>1, <2>2 DEF UploadsInv
    <2>7. QED
      BY <1>7, <2>1, <2>2, <2>3, <2>4, <2>5, <2>6 DEF UploadsInv
  <1>12. CASE SaveUpload(r) /\ session # NoSession
    <2>1. pc[r] = "saveUpload" /\ pc'[r] = "ok" /\ op'[r] = op[r] /\ op[r] \in {"rename", "complete"} /\ held' = held
      BY <1>12 DEF SaveUpload, Set, Goto, HandlersInv, UploadsInv
    <2>2. /\ session' \in UploadSessions /\ (session'.status = "COMPLETED" => session'.done)
          /\ op[r] = "complete" => session'.status = "COMPLETED"
          /\ op[r] = "rename" => session'.status = held[r].status
      <3>1. PICK h \in UploadSessions : h = held[r] /\ (h.status = "COMPLETED" => h.done)
        BY <2>1 DEF UploadsInv
      <3>2. CASE op[r] = "complete"
        <4>1. PICK u \in BOOLEAN : session' = [h EXCEPT !.status = "COMPLETED", !.done = TRUE, !.url = @ \/ u]
          BY <1>12, <3>1, <3>2 DEF SaveUpload, Set, CompletedStruct
        <4>2. PICK b \in BOOLEAN : b = (h.url \/ u)
          OBVIOUS
        <4>3. session' = [h EXCEPT !.status = "COMPLETED", !.done = TRUE, !.url = b]
          BY <4>1, <4>2
        <4>4. session' \in UploadSessions /\ session'.status = "COMPLETED" /\ session'.done
          BY <4>3 DEF UploadSessions
        <4>5. QED
          BY <3>2, <4>4
      <3>3. CASE op[r] = "rename"
        <4>1. session' = [h EXCEPT !.name = r]
          BY <1>12, <3>1, <3>3 DEF SaveUpload, Set
        <4>2. QED
          BY <3>1, <3>3, <4>1 DEF UploadSessions
      <3>4. QED
        BY <2>1, <3>2, <3>3
    <2>3. ASSUME NEW q \in Requests \ {r}, pc[q] = "saveUpload", op[q] = "rename" PROVE Renamed(r)
      BY <2>1, <2>3 DEF Renamed, HandlersInv, Active
    <2>4. ASSUME NEW q \in Requests, Completed(q)'
          PROVE  session'.status = "COMPLETED" \/ Taken' \/ Renamed(q)'
      <3>1. CASE op[r] = "complete"
        BY <2>2, <3>1
      <3>2. CASE op[r] = "rename"
        BY <1>2, <1>4, <1>5, <2>1, <2>2, <2>4, <3>2 DEF UploadsInv, Completed
      <3>3. QED
        BY <2>1, <3>1, <3>2
    <2>5. ASSUME NEW q \in Requests, pc'[q] = "saveUpload", op'[q] = "rename", NEW p \in Requests, Completed(p)'
          PROVE  held'[q].status = "COMPLETED" \/ Taken' \/ Renamed(p)'
      BY <1>1, <1>2, <1>4, <1>5, <2>1, <2>3, <2>5 DEF UploadsInv
    <2>6. ~ Uninserted'
      BY <1>6, <2>1 DEF UploadsInv
    <2>7. QED
      BY <1>1, <1>7, <2>1, <2>2, <2>4, <2>5, <2>6 DEF UploadsInv
  <1>13. CASE /\ session # NoSession /\ held' = held /\ pc'[r] = "ok" /\ op'[r] \notin {"createUpload", "complete", "rename"}
              /\ session' \in UploadSessions
              /\ \/ session'.status = session.status /\ session'.done = session.done
                 \/ op'[r] \in {"deleteUpload", "fail"} /\ session'.status # "COMPLETED"
                 \/ session.status = "IN_PROGRESS" /\ session'.status # "COMPLETED"
    <2>1. ~ Completed(r)' /\ ~ Uninserted'
      BY <1>6, <1>13 DEF Completed, UploadsInv
    <2>2. op'[r] \in {"deleteUpload", "fail"} => Taken'
      BY <1>13 DEF Taken
    <2>3. QED
      BY <1>1, <1>2, <1>4, <1>5, <1>7, <1>13, <2>1, <2>2 DEF UploadsInv
  <1>14. QED
    BY <1>8, <1>9, <1>10, <1>11, <1>12, <1>13 DEF UploadsDoes

AllOfUploads == IF service = "uploads" THEN UploadsInv ELSE session = NoSession

LEMMA UploadsInitially == Init => AllOfUploads
  BY DEF Init, HandlersInit, UploadsInit, AllOfUploads, UploadsInv, NoSession, UploadSessions,
         Completed, Uninserted

LEMMA UploadsNextInv ==
  HandlersInv /\ HandlersInv' /\ Grows /\ AllOfUploads /\ [Next]_vars => AllOfUploads'
  <1> SUFFICES ASSUME HandlersInv, HandlersInv', Grows, AllOfUploads, [Next]_vars
               PROVE  AllOfUploads'
    OBVIOUS
  <1>1. service' = service
    BY DEF Grows
  <1>2. CASE service = "uploads" /\ \E r \in Requests : UploadsAct(r)
    BY <1>1, <1>2, UploadsInvStep DEF AllOfUploads
  <1>3. CASE service = "uploads" /\ UNCHANGED <<handling, uploads>>
    BY <1>1, <1>3 DEF AllOfUploads, UploadsInv, Uninserted, Completed, Taken, Renamed, handling, uploads
  <1>4. CASE service # "uploads"
    BY <1>1, <1>4, UploadsFrame DEF AllOfUploads, uploads
  <1>5. QED
    BY <1>2, <1>3, <1>4, UploadsFrame

LEMMA Uploading == Spec => []AllOfUploads
  BY Requesting, UploadsInitially, UploadsNextInv, HandlersNext, PTL DEF Spec

(* A completion that MarkCompletedWithS3 answered is lost to an Update that *)
(* overlapped it alone, if the upload is neither deleted nor reported as    *)
(* failed.                                                                  *)
THEOREM CompletionsStay == Spec => []CompletionIsKept
  <1>1. HandlersInv /\ AllOfUploads => CompletionIsKept
    <2> SUFFICES ASSUME HandlersInv, AllOfUploads PROVE CompletionIsKept
      OBVIOUS
    <2>1. CASE service = "uploads"
      BY <2>1 DEF AllOfUploads, UploadsInv, CompletionIsKept, Completed, Taken, Renamed
    <2>2. CASE service # "uploads"
      <3>1. \A r \in Requests : op[r] # "complete"
        BY <2>2 DEF HandlersInv, Belongs, BesideCall, Marks
      <3>2. session.status # "COMPLETED"
        BY <2>2 DEF AllOfUploads, NoSession
      <3>3. QED
        BY <3>1, <3>2 DEF CompletionIsKept
    <2>3. QED
      BY <2>1, <2>2
  <1>2. QED
    BY <1>1, Requesting, Uploading, PTL

-----------------------------------------------------------------------------
(* Broadcast lists.                                                        *)

BroadcastsAct(r) == BroadcastsStep(r) \/ (Stops(r) /\ UndoBulk(r))

LEMMA BroadcastsFrame ==
  [Next]_vars =>
    /\ service = "broadcasts" => (\E r \in Requests : BroadcastsAct(r)) \/ UNCHANGED <<handling, broadcasts>>
    /\ service # "broadcasts" => UNCHANGED broadcasts
  BY DEF Next, BroadcastsNext, Stop, vars, BroadcastsAct

ListRows == [name : {"none", "new", "changed"}, description : {"none", "new", "changed"}]

(* Whoever added a recipient asked for that, a bulk addition with success. *)
(* A transaction that has added some keeps the list from being deleted,    *)
(* and one that is aborted has nothing to commit.                          *)
BroadcastsInv ==
  /\ list \in ListRows /\ item \in [Requests -> ListRows]
  /\ recipient \in [People -> Requests \union {Nobody}]
  /\ adding \in [Requests -> SUBSET People] /\ queued \in [Requests -> Seq(People)]
  /\ \A r \in Requests :
       /\ pc[r] = "addOne" => op[r] = "addOne"
       /\ pc[r] = "addBulk" => op[r] = "addBulk"
       /\ pc[r] = "writeList" => item[r] # NoList
       /\ adding[r] # {} => list # NoList
       /\ r \in aborted => adding[r] = {}
  /\ \A u \in People : \A r \in Requests : recipient[u] = r =>
       /\ op[r] \in {"addOne", "addBulk"}
       /\ op[r] = "addBulk" => pc[r] = "ok"
  /\ list = NoList => \A u \in People : recipient[u] = Nobody

LEMMA BroadcastsActMoves == ASSUME NEW r \in Requests, BroadcastsAct(r) PROVE Moves(r)
  BY BroadcastsMoves, StopsMoves DEF BroadcastsAct

(* What a step does to the list and its recipients.                        *)
LosesSome ==
  /\ UNCHANGED <<list, item, adding, aborted>>
  /\ recipient' \in [People -> Requests \union {Nobody}]
  /\ \A u \in People : recipient'[u] \in {recipient[u], Nobody}

GivesUp(r) ==
  /\ UNCHANGED <<list, item, recipient>>
  /\ \/ UNCHANGED <<adding, aborted>>
     \/ adding' = [adding EXCEPT ![r] = {}] /\ aborted' = aborted \ {r}

AddsOneOf(r) == BulkInsert(r) /\ r \notin aborted /\ list # NoList

BroadcastsDoes(r) ==
  \/ CreateList(r) \/ ReadList(r) \/ WriteList(r) \/ DeleteList(r)
  \/ AddRecipient(r) \/ LosesSome \/ AddsOneOf(r) \/ BulkCommit(r) \/ GivesUp(r)

LEMMA BroadcastsKinds ==
  ASSUME HandlersInv, BroadcastsInv, NEW r \in Requests, BroadcastsAct(r)
  PROVE  /\ BroadcastsDoes(r)
         /\ pc'[r] \in {"addOne", "addBulk"} => op'[r] = pc'[r]
         /\ (item' = item /\ pc'[r] # "writeList") \/ ReadList(r)
         /\ queued' = queued \/ AskBulk(r) \/ BulkInsert(r)
         /\ op'[r] = "addBulk" /\ pc[r] # "new" => pc[r] # "ok" /\ op[r] = "addBulk"
  <1> USE DEF HandlersInv, Goto, FailsOnTo, Arrive, Demands, broadcasts, UndoBulk, others, BroadcastsDoes, BroadcastsInv, LosesSome, GivesUp, AddsOneOf
  <1>1. CASE Stops(r) /\ UndoBulk(r)
    BY <1>1 DEF Stops, Active
  <1>2. CASE AskList(r) \/ AskRecipient(r) \/ AskBulk(r)
    BY <1>2 DEF AskList, AskRecipient, AskBulk
  <1>3. CASE CreateList(r) \/ ReadList(r) \/ WriteList(r) \/ DeleteList(r)
    BY <1>3 DEF CreateList, ReadList, WriteList, DeleteList
  <1>4. CASE AddRecipient(r)
    BY <1>4 DEF AddRecipient
  <1>5. CASE RemoveRecipient(r)
    BY <1>5 DEF RemoveRecipient
  <1>6. CASE BulkRemoveRecipients(r)
    BY <1>6 DEF BulkRemoveRecipients
  <1>7. CASE BulkInsert(r) \/ BulkDeadlock(r)
    BY <1>7 DEF BulkInsert, BulkDeadlock
  <1>8. CASE BulkCommit(r)
    BY <1>8 DEF BulkCommit
  <1>9. QED
    BY <1>1, <1>2, <1>3, <1>4, <1>5, <1>6, <1>7, <1>8 DEF BroadcastsAct, BroadcastsStep

LEMMA BroadcastsInvStep ==
  ASSUME HandlersInv, HandlersInv', Grows, BroadcastsInv, NEW r \in Requests, BroadcastsAct(r)
  PROVE  BroadcastsInv'
  <1>1. \A q \in Requests \ {r} : pc'[q] = pc[q] /\ op'[q] = op[q]
    BY HandlersStep, BroadcastsActMoves
  <1>2. \A q \in Requests : pc[q] # "new" => op'[q] = op[q]
    BY DEF Grows
  <1>3. \A q \in Requests : op[q] = "addBulk" /\ pc[q] = "ok" => pc'[q] = "ok"
    BY DEF Grows, Active
  <1>4. \A u \in People : \A q \in Requests : recipient[u] = q =>
          /\ op'[q] \in {"addOne", "addBulk"}
          /\ op'[q] = "addBulk" => pc'[q] = "ok"
    <2>1. ASSUME NEW u \in People, NEW q \in Requests, recipient[u] = q
          PROVE  /\ op'[q] \in {"addOne", "addBulk"}
                 /\ op'[q] = "addBulk" => pc'[q] = "ok"
      <3>1. op[q] \in {"addOne", "addBulk"} /\ (op[q] = "addBulk" => pc[q] = "ok")
        BY <2>1 DEF BroadcastsInv
      <3>2. pc[q] # "new"
        BY <3>1 DEF HandlersInv
      <3>3. op'[q] = op[q]
        BY <1>2, <3>2
      <3>4. QED
        BY <1>3, <3>1, <3>3
    <2>2. QED
      BY <2>1
  <1>5. /\ BroadcastsDoes(r)
        /\ pc'[r] \in {"addOne", "addBulk"} => op'[r] = pc'[r]
        /\ (item' = item /\ pc'[r] # "writeList") \/ ReadList(r)
        /\ queued' = queued \/ AskBulk(r) \/ BulkInsert(r)
        /\ op'[r] = "addBulk" /\ pc[r] # "new" => pc[r] # "ok" /\ op[r] = "addBulk"
    BY BroadcastsKinds
  <1>6. NoList \in ListRows /\ Nobody \notin Requests
    BY HandlersAssumption DEF NoList, ListRows
  <1>7. item' \in [Requests -> ListRows] /\ \A q \in Requests : pc'[q] = "writeList" => item'[q] # NoList
    <2>1. CASE item' = item /\ pc'[r] # "writeList"
      BY <1>1, <2>1 DEF BroadcastsInv
    <2>2. CASE ReadList(r)
      <3>1. PICK new \in ListRows : new # NoList /\ item' = [item EXCEPT ![r] = new]
        <4>1. /\ [list EXCEPT !.name = "changed"] \in ListRows
              /\ [list EXCEPT !.name = "changed"].name = "changed"
              /\ [list EXCEPT !.description = "changed"] \in ListRows
              /\ [list EXCEPT !.description = "changed"].description = "changed"
              /\ NoList.name = "none" /\ NoList.description = "none"
          BY DEF BroadcastsInv, ListRows, NoList
        <4>2. \/ item' = [item EXCEPT ![r] = [list EXCEPT !["name"] = "changed"]]
              \/ item' = [item EXCEPT ![r] = [list EXCEPT !["description"] = "changed"]]
          BY <2>2 DEF ReadList
        <4>3. QED
          BY <4>1, <4>2
      <3>2. QED
        BY <1>1, <3>1 DEF BroadcastsInv
    <2>3. QED
      BY <1>5, <2>1, <2>2
  <1>8. queued' \in [Requests -> Seq(People)]
    <2>1. CASE AskBulk(r)
      <3>1. \A b \in Bulks : b \in Seq(People)
        <4>1. /\ \A u \in People : <<u>> \in Seq(People)
              /\ \A u, v \in People : <<u, v>> \in Seq(People)
          OBVIOUS
        <4>2. "ann" \in People /\ "bob" \in People
          BY DEF People
        <4>3. QED
          BY <4>1, <4>2 DEF Bulks
      <3>2. QED
        BY <2>1, <3>1 DEF AskBulk, BroadcastsInv
    <2>2. CASE BulkInsert(r)
      <3>1. \A q \in Requests : queued[q] \in Seq(People) /\ (queued[q] # <<>> => Tail(queued[q]) \in Seq(People))
        BY DEF BroadcastsInv
      <3>2. \/ queued' = queued
            \/ queued[r] # <<>> /\ queued' = [queued EXCEPT ![r] = Tail(queued[r])]
        BY <2>2 DEF BulkInsert, UndoBulk
      <3>3. QED
        BY <3>1, <3>2 DEF BroadcastsInv
    <2>3. QED
      BY <1>5, <2>1, <2>2 DEF BroadcastsInv
  <1>9. ASSUME /\ list' \in ListRows
               /\ recipient' \in [People -> Requests \union {Nobody}]
               /\ adding' \in [Requests -> SUBSET People],
               \A q \in Requests : (adding'[q] # {} => list' # NoList) /\ (q \in aborted' => adding'[q] = {}),
               \A u \in People : recipient'[u] = r => recipient[u] = r \/ (op'[r] \in {"addOne", "addBulk"} /\ pc'[r] = "ok"),
               \A u \in People : \A q \in Requests \ {r} : recipient'[u] = q => recipient[u] = q,
               list' = NoList => \A u \in People : recipient'[u] = Nobody
        PROVE  BroadcastsInv'
    <2>1. \A u \in People : \A q \in Requests : recipient'[u] = q =>
            /\ op'[q] \in {"addOne", "addBulk"}
            /\ op'[q] = "addBulk" => pc'[q] = "ok"
      BY <1>4, <1>9
    <2>2. \A q \in Requests : pc'[q] \in {"addOne", "addBulk"} => op'[q] = pc'[q]
      BY <1>1, <1>5 DEF BroadcastsInv
    <2>3. QED
      BY <1>7, <1>9, <1>8, <2>1, <2>2 DEF BroadcastsInv
  <1>10. CASE GivesUp(r)
    BY <1>9, <1>10 DEF GivesUp, BroadcastsInv
  <1>11. CASE LosesSome
    BY <1>6, <1>9, <1>11 DEF LosesSome, BroadcastsInv
  <1>12. CASE CreateList(r) \/ ReadList(r)
    <2>1. [name |-> "new", description |-> "new"] \in ListRows /\ [name |-> "new", description |-> "new"] # NoList
      BY DEF ListRows, NoList
    <2>2. QED
      BY <1>9, <1>12, <2>1 DEF CreateList, ReadList, BroadcastsInv
  <1>13. CASE WriteList(r)
    BY <1>9, <1>13 DEF WriteList, BroadcastsInv
  <1>14. CASE DeleteList(r)
    BY <1>6, <1>9, <1>14 DEF DeleteList, BroadcastsInv
  <1>15. CASE AddRecipient(r)
    <2>1. pc[r] = "addOne" /\ op[r] = "addOne" /\ op' = op /\ UNCHANGED <<list, adding, aborted>>
      BY <1>15 DEF AddRecipient, Goto, others, BroadcastsInv
    <2>2. CASE Accepted(r, "ann")
      <3>1. recipient' = [recipient EXCEPT !["ann"] = r] /\ pc'[r] = "ok" /\ list # NoList
        BY <1>15, <2>2 DEF AddRecipient, Goto, Accepted, HandlersInv
      <3>2. QED
        BY <1>6, <1>9, <2>1, <3>1 DEF BroadcastsInv
    <2>3. CASE ~ Accepted(r, "ann")
      BY <1>9, <1>15, <2>1, <2>3 DEF AddRecipient, BroadcastsInv
    <2>4. QED
      BY <2>2, <2>3
  <1>16. CASE AddsOneOf(r)
    <2>1. PICK u \in People : u = Head(queued[r])
      BY <1>16 DEF AddsOneOf, BulkInsert, BroadcastsInv
    <2>2. /\ adding' = [adding EXCEPT ![r] = IF Accepted(r, u) THEN @ \union {u} ELSE {}]
          /\ aborted' = IF Accepted(r, u) THEN aborted ELSE aborted \union {r}
          /\ UNCHANGED <<list, item, recipient>>
      BY <1>16, <2>1 DEF AddsOneOf, BulkInsert, others, UndoBulk
    <2>3. QED
      BY <1>9, <1>16, <2>2 DEF AddsOneOf, BroadcastsInv
  <1>17. CASE BulkCommit(r)
    <2>1. /\ pc[r] = "addBulk" /\ op[r] = "addBulk" /\ op' = op
          /\ pc'[r] = IF r \in aborted THEN "failed" ELSE "ok"
          /\ \A u \in People : recipient'[u] = IF u \in adding[r] THEN r ELSE recipient[u]
          /\ recipient' = [u \in People |-> recipient'[u]]
          /\ adding' = [adding EXCEPT ![r] = {}] /\ aborted' = aborted \ {r}
          /\ list' = list
      BY <1>17 DEF BulkCommit, Goto, others, BroadcastsInv, HandlersInv
    <2>2. recipient' \in [People -> Requests \union {Nobody}]
      BY <2>1 DEF BroadcastsInv
    <2>3. \A u \in People : recipient'[u] = r => recipient[u] = r \/ pc'[r] = "ok"
      BY <2>1 DEF BroadcastsInv
    <2>4. QED
      BY <1>9, <2>1, <2>2, <2>3 DEF BroadcastsInv
  <1>18. QED
    BY <1>5, <1>10, <1>11, <1>12, <1>13, <1>14, <1>15, <1>16, <1>17 DEF BroadcastsDoes

AllOfBroadcasts ==
  /\ service = "broadcasts" => BroadcastsInv
  /\ service # "broadcasts" => \A u \in People : recipient[u] = Nobody

LEMMA BroadcastsInitially == Init => AllOfBroadcasts
  <1> SUFFICES ASSUME Init PROVE AllOfBroadcasts
    OBVIOUS
  <1>1. \A u \in People : recipient[u] = Nobody
    BY DEF Init, BroadcastsInit
  <1>2. BroadcastsInv
    BY HandlersAssumption, <1>1 DEF Init, HandlersInit, BroadcastsInit, BroadcastsInv, NoList, ListRows
  <1>3. QED
    BY <1>1, <1>2 DEF AllOfBroadcasts

LEMMA BroadcastsNextInv ==
  HandlersInv /\ HandlersInv' /\ Grows /\ AllOfBroadcasts /\ [Next]_vars => AllOfBroadcasts'
  <1> SUFFICES ASSUME HandlersInv, HandlersInv', Grows, AllOfBroadcasts, [Next]_vars
               PROVE  AllOfBroadcasts'
    OBVIOUS
  <1>1. service' = service
    BY DEF Grows
  <1>2. CASE service = "broadcasts" /\ \E r \in Requests : BroadcastsAct(r)
    BY <1>1, <1>2, BroadcastsInvStep DEF AllOfBroadcasts
  <1>3. CASE service = "broadcasts" /\ UNCHANGED <<handling, broadcasts>>
    BY <1>1, <1>3 DEF AllOfBroadcasts, BroadcastsInv, handling, broadcasts
  <1>4. CASE service # "broadcasts"
    BY <1>1, <1>4, BroadcastsFrame DEF AllOfBroadcasts, broadcasts
  <1>5. QED
    BY <1>2, <1>3, <1>4, BroadcastsFrame

LEMMA Broadcasting == Spec => []AllOfBroadcasts
  BY Requesting, BroadcastsInitially, BroadcastsNextInv, HandlersNext, PTL DEF Spec

(* However additions, removals and deletions interleave, BulkAddRecipients *)
(* adds all it was asked for or nobody, and no recipient outlives the list. *)
THEOREM BulkIsWhole == Spec => []BulkAddsAsOne
  <1>1. HandlersInv /\ AllOfBroadcasts => BulkAddsAsOne
    BY HandlersAssumption DEF AllOfBroadcasts, BroadcastsInv, BulkAddsAsOne
  <1>2. QED
    BY <1>1, Requesting, Broadcasting, PTL

-----------------------------------------------------------------------------
(* The schema.                                                             *)

SetupAct(r) == SetupStep(r) \/ (Stops(r) /\ UNCHANGED setup)

LEMMA SetupFrame ==
  [Next]_vars =>
    /\ service = "setup" => (\E r \in Requests : SetupAct(r)) \/ UNCHANGED <<handling, setup>>
    /\ service # "setup" => UNCHANGED setup
  BY DEF Next, SetupNext, Stop, vars, SetupAct

SeedLabels == {"admin", "newAdmin", "adminDevice", "alice", "newAlice", "aliceDevice", "identity",
               "signed", "oneTime", "dm", "send", "seal", "list"}

(* Which command a statement belongs to.                                   *)
RunsOf(o) ==
  IF o = "up" THEN Files
  ELSE IF o = "dropSchema" THEN Files \union {"dropAll"}
  ELSE IF o = "down" THEN {"dropTriggers", "dropIndexes"}
  ELSE IF o = "truncate" THEN {"truncate"}
  ELSE IF o = "seed" THEN {"admin", "newAdmin"}
  ELSE IF o = "seedDev" THEN SeedLabels ELSE {}

LabelsInv == \A r \in Requests : pc[r] \in RunsOf(op[r]) \union {"new", "ok", "failed"}

(* The files that a migration has applied when it is at l.                 *)
FilesBefore(l) ==
  IF l = "tables" THEN {"types"}
  ELSE IF l = "indexes" THEN {"types", "tables"}
  ELSE IF l = "triggers" THEN {"types", "tables", "indexes"}
  ELSE IF l = "ok" THEN Files ELSE {}

Migrates(r) == op[r] \in {"up", "dropSchema"} /\ pc[r] \in Files \union {"ok"}
HasAll(r)   == FilesBefore(pc[r]) \subseteq applied

(* A command that drops and is at work or did not end; if it is migrating  *)
(* again, nothing was dropped since.                                       *)
Drops(q) == op[q] \in {"down", "dropSchema"} /\ pc[q] # "ok" /\ (pc[q] \in Files => HasAll(q))

SchemaInv ==
  /\ applied \subseteq Files
  /\ \A r \in Requests : Migrates(r) => HasAll(r) \/ \E q \in Requests : Drops(q)

LEMMA SetupActMoves == ASSUME KeyColumns, NEW r \in Requests, SetupAct(r) PROVE Moves(r)
  BY SetupMoves, StopsMoves DEF SetupAct

LEMMA SchemaKinds ==
  ASSUME HandlersInv, KeyColumns, LabelsInv, NEW r \in Requests, SetupAct(r)
  PROVE  /\ pc'[r] \in RunsOf(op'[r]) \union {"ok", "failed"}
         /\ \/ ApplyFile(r) \/ DropTriggers(r) \/ DropAllTables(r)
            \/ /\ UNCHANGED applied
               /\ \/ pc'[r] \notin Files \union {"ok"}
                  \/ pc'[r] = "types" /\ op'[r] = "up"
                  \/ pc'[r] = "ok" /\ op'[r] \in {"seed", "seedDev"}
  <1> USE DEF HandlersInv, Goto, FailsOnTo, Arrive, Launch, setup, seeded, LabelsInv, RunsOf, Files
  <1>1. CASE Stops(r) /\ UNCHANGED setup
    BY <1>1 DEF Stops
  <1>2. CASE MigrateUp(r) \/ MigrateDown(r) \/ DropIndexes(r)
    BY <1>2 DEF MigrateUp, MigrateDown, DropIndexes
  <1>3. CASE Reset(r) \/ Truncate(r) \/ TruncateAllTables(r) \/ SeedRows(r)
    BY <1>3 DEF Reset, Truncate, TruncateAllTables, SeedRows, SeedLabels
  <1>4. CASE ApplyFile(r)
    BY <1>4 DEF ApplyFile, After, SeedLabels
  <1>5. CASE DropTriggers(r) \/ DropAllTables(r)
    BY <1>5 DEF DropTriggers, DropAllTables, SeedLabels
  <1>6. CASE SeedFails(r)
    BY <1>6 DEF SeedFails
  <1>7. CASE FindUser(r) \/ InsertUser(r)
    BY <1>7 DEF FindUser, InsertUser, TaskDone, AfterTask, SeedLabels, SeedUsers
  <1>8. CASE SeedDevice(r) \/ SeedKey(r)
    BY <1>8 DEF SeedDevice, SeedKey, TaskDone, AfterTask, SeedLabels, KeyColumns
  <1>9. CASE SeedConversation(r) \/ SeedMessage(r) \/ SeedCiphertexts(r) \/ SeedBroadcast(r)
    <2>1. CASE SeedConversation(r)
      BY <2>1 DEF SeedConversation, Adds, TaskDone, AfterTask, SeedLabels
    <2>2. CASE SeedMessage(r)
      BY <2>2 DEF SeedMessage, Adds, TaskDone, AfterTask, SeedLabels
    <2>3. CASE SeedCiphertexts(r)
      BY <2>3 DEF SeedCiphertexts, Adds, TaskDone, AfterTask, SeedLabels
    <2>4. CASE SeedBroadcast(r)
      BY <2>4 DEF SeedBroadcast, Adds, TaskDone, AfterTask, SeedLabels
    <2>5. QED
      BY <1>9, <2>1, <2>2, <2>3, <2>4
  <1>10. QED
    BY <1>1, <1>2, <1>3, <1>4, <1>5, <1>6, <1>7, <1>8, <1>9 DEF SetupAct, SetupStep

LEMMA SchemaStep ==
  ASSUME HandlersInv, KeyColumns, LabelsInv, SchemaInv, NEW r \in Requests, SetupAct(r)
  PROVE  LabelsInv' /\ SchemaInv'
  <1>1. \A q \in Requests \ {r} : pc'[q] = pc[q] /\ op'[q] = op[q]
    BY HandlersStep, SetupActMoves
  <1>2. LabelsInv'
    BY <1>1, SchemaKinds DEF LabelsInv
  <1>3. CASE ApplyFile(r)
    <2>1. pc[r] \in Files /\ op'[r] = op[r] /\ op[r] \in {"up", "dropSchema"}
      BY <1>3 DEF ApplyFile, Goto, LabelsInv, RunsOf, Files, SeedLabels
    <2>2. CASE applied' = applied \union {pc[r]} /\ pc'[r] = After(pc[r])
      <3>1. /\ FilesBefore(pc'[r]) = FilesBefore(pc[r]) \union {pc[r]}
            /\ pc'[r] \in Files \union {"ok"}
        BY <2>1, <2>2 DEF After, FilesBefore, Files
      <3>2. \A q \in Requests : HasAll(q) => HasAll(q)'
        BY <1>1, <2>2, <3>1 DEF HasAll
      <3>3. CASE applied' = Files
        BY <1>2, <3>3 DEF SchemaInv, HasAll, FilesBefore, Files
      <3>4. CASE applied' # Files
        <4>1. applied' \subseteq Files
          BY <2>1, <2>2 DEF SchemaInv
        <4>2. HasAll(r) => pc'[r] # "ok"
          BY <2>2, <3>1, <3>4, <4>1 DEF HasAll, FilesBefore, Files
        <4>3. \A q \in Requests : Drops(q) => Drops(q)'
          BY <1>1, <2>1, <3>2, <4>2 DEF Drops
        <4>4. \A q \in Requests : Migrates(q)' => Migrates(q)
          BY <1>1, <2>1 DEF Migrates
        <4>5. QED
          BY <1>2, <3>2, <4>1, <4>3, <4>4 DEF SchemaInv
      <3>5. QED
        BY <3>3, <3>4
    <2>3. CASE applied' = applied /\ pc'[r] = "failed"
      <3>1. \A q \in Requests : Drops(q) => Drops(q)'
        BY <1>1, <2>1, <2>3 DEF Drops, HasAll, Files
      <3>2. \A q \in Requests : Migrates(q)' => Migrates(q) /\ q # r
        BY <1>1, <2>3 DEF Migrates, Files
      <3>3. QED
        BY <1>1, <1>2, <2>3, <3>1, <3>2 DEF SchemaInv, HasAll
    <2>4. QED
      BY <1>3, <2>2, <2>3 DEF ApplyFile, Goto, HandlersInv
  <1>4. CASE DropTriggers(r) \/ DropAllTables(r)
    <2>1. /\ applied' \subseteq applied /\ op'[r] \in {"down", "dropSchema"}
          /\ pc'[r] \in {"dropIndexes", "types"}
      BY <1>4 DEF DropTriggers, DropAllTables, Goto, HandlersInv, LabelsInv, RunsOf, Files, SeedLabels
    <2>2. Drops(r)'
      BY <2>1 DEF Drops, HasAll, FilesBefore, Files
    <2>3. QED
      BY <1>2, <2>1, <2>2 DEF SchemaInv
  <1>5. CASE /\ UNCHANGED applied
             /\ \/ pc'[r] \notin Files \union {"ok"}
                \/ pc'[r] = "types" /\ op'[r] = "up"
                \/ pc'[r] = "ok" /\ op'[r] \in {"seed", "seedDev"}
    <2>1. Migrates(r)' => HasAll(r)'
      BY <1>5 DEF Migrates, HasAll, FilesBefore
    <2>2. ASSUME Drops(r) PROVE Drops(r)'
      <3>1. pc[r] # "new" /\ op'[r] = op[r]
        BY <1>5, <2>2, HandlersStep, SetupActMoves DEF Drops, HandlersInv, Grows
      <3>2. QED
        BY <1>5, <2>2, <3>1 DEF Drops
    <2>3. \A q \in Requests : Drops(q) => Drops(q)'
      BY <1>1, <1>5, <2>2 DEF Drops, HasAll
    <2>4. QED
      BY <1>1, <1>2, <1>5, <2>1, <2>3 DEF SchemaInv, Migrates, HasAll
  <1>6. QED
    BY <1>2, <1>3, <1>4, <1>5, SchemaKinds

-----------------------------------------------------------------------------
(* The seeds.                                                              *)

KeyTables    == {"identity", "signed", "oneTime"}
SampleTables == {"dm", "sent", "sealed", "list"}

SeedTyped ==
  /\ userRows \subseteq SeedUsers /\ deviceRows \subseteq SeedUsers
  /\ keyRows \in [KeyTables -> Requests \union {Nobody}]
  /\ sample \in [Requests -> [SampleTables -> BOOLEAN]]
  /\ holds \in [Requests -> SUBSET SeedUsers]

(* Where a run of the development seed is when it is past a statement.     *)
PastSeal        == {"list", "ok"}
PastSend        == {"seal"} \union PastSeal
PastDm          == {"send"} \union PastSend
PastOneTime     == {"dm"} \union PastDm
PastSigned      == {"oneTime"} \union PastOneTime
PastIdentity    == {"signed"} \union PastSigned
PastAliceDevice == {"identity"} \union PastIdentity
PastAlice       == {"aliceDevice"} \union PastAliceDevice
PastAdminDevice == {"alice", "newAlice"} \union PastAlice
PastAdmin       == {"adminDevice"} \union PastAdminDevice

(* What the statements a run is past have left.                            *)
Progress(r) ==
  /\ pc[r] \in PastAdmin => "admin" \in holds[r]
  /\ pc[r] \in PastAdminDevice => "admin" \in deviceRows
  /\ pc[r] \in PastAlice => "alice" \in holds[r]
  /\ pc[r] \in PastAliceDevice => "alice" \in deviceRows
  /\ pc[r] \in PastIdentity => keyRows["identity"] # Nobody
  /\ pc[r] \in PastSigned => keyRows["signed"] # Nobody
  /\ pc[r] \in PastOneTime => keyRows["oneTime"] # Nobody
  /\ pc[r] \in PastDm => sample[r]["dm"]
  /\ pc[r] \in PastSend => sample[r]["sent"]
  /\ pc[r] \in PastSeal => sample[r]["sealed"]
  /\ pc[r] = "ok" => sample[r]["list"]

SeedInv ==
  (\A q \in Requests : op[q] # "dropSchema") =>
     \A r \in Requests : holds[r] \subseteq userRows /\ (op[r] = "seedDev" => Progress(r))

(* A run that wrote the identity and not yet the signed key of the device  *)
(* leaves them of two runs, if it ends there; so may two that overlap.     *)
KeyPairInv ==
  /\ keyRows["identity"] # keyRows["signed"] =>
       \E r \in Requests : op[r] = "seedDev" /\ (pc[r] \in {"signed", "failed"} \/ met[r] # {})
  /\ \A r \in Requests : pc[r] = "signed" => keyRows["identity"] = r \/ met[r] # {}

(* The steps that are none of a seed, and those of one that only end it.   *)
Rests(r) ==
  /\ UNCHANGED <<seeded, holds>>
  /\ op'[r] = "seedDev" => pc'[r] \in {"admin", "failed"}
  /\ pc'[r] # "signed" /\ (pc[r] = "signed" => pc'[r] = "failed")

LEMMA SeedKinds ==
  ASSUME HandlersInv, KeyColumns, LabelsInv, NEW r \in Requests, SetupAct(r)
  PROVE  \/ Rests(r) \/ DropAllTables(r) \/ FindUser(r) \/ InsertUser(r) \/ SeedDevice(r) \/ SeedKey(r)
         \/ SeedConversation(r) \/ SeedMessage(r) \/ SeedCiphertexts(r) \/ SeedBroadcast(r)
  <1> USE DEF HandlersInv, Goto, FailsOnTo, Arrive, Launch, setup, Rests
  <1>1. CASE Stops(r) /\ UNCHANGED setup
    BY <1>1 DEF Stops
  <1>2. CASE MigrateUp(r) \/ MigrateDown(r) \/ DropIndexes(r)
    BY <1>2 DEF MigrateUp, MigrateDown, DropIndexes
  <1>3. CASE Reset(r) \/ Truncate(r) \/ TruncateAllTables(r) \/ SeedRows(r)
    BY <1>3 DEF Reset, Truncate, TruncateAllTables, SeedRows
  <1>4. CASE ApplyFile(r)
    BY <1>4 DEF ApplyFile, After, LabelsInv, RunsOf, SeedLabels, Files
  <1>5. CASE DropTriggers(r)
    BY <1>5 DEF DropTriggers, LabelsInv, RunsOf, SeedLabels, Files
  <1>6. CASE SeedFails(r)
    BY <1>6 DEF SeedFails
  <1>7. QED
    BY <1>1, <1>2, <1>3, <1>4, <1>5, <1>6 DEF SetupAct, SetupStep

(* Without a drop no row and no user a run knows is lost.                  *)
Gains ==
  /\ userRows \subseteq userRows' /\ deviceRows \subseteq deviceRows'
  /\ \A k \in KeyTables : keyRows[k] # Nobody => keyRows'[k] # Nobody
  /\ \A q \in Requests : \A t \in SampleTables : sample[q][t] => sample'[q][t]
  /\ \A q \in Requests : holds[q] \subseteq holds'[q]

LEMMA SeedTypedStep ==
  ASSUME HandlersInv, KeyColumns, LabelsInv, SeedTyped, NEW r \in Requests, SetupAct(r)
  PROVE  SeedTyped' /\ (DropAllTables(r) \/ Gains)
  <1> USE DEF SeedTyped, Gains, seeded
  <1>1. Subject(r) \in SeedUsers /\ Nobody \notin Requests
    BY HandlersAssumption DEF Subject, SeedUsers
  <1>2. CASE Rests(r)
    BY <1>2 DEF Rests
  <1>3. CASE DropAllTables(r)
    <2>1. NoKeys \in [KeyTables -> Requests \union {Nobody}]
      BY DEF NoKeys, KeyTables
    <2>2. NoSample \in [SampleTables -> BOOLEAN]
      <3>1. PICK no : no = FALSE
        OBVIOUS
      <3>2. NoSample = [dm |-> no, sent |-> no, sealed |-> no, list |-> no]
        BY <3>1 DEF NoSample
      <3>3. NoSample = [t \in SampleTables |-> no]
        BY <3>2 DEF SampleTables
      <3>4. QED
        BY <3>1, <3>3
    <2>3. QED
      BY <1>3, <2>1, <2>2 DEF DropAllTables
  <1>4. CASE FindUser(r) \/ InsertUser(r)
    BY <1>1, <1>4 DEF FindUser, InsertUser, Knows
  <1>5. CASE SeedDevice(r)
    BY <1>1, <1>5 DEF SeedDevice
  <1>6. CASE SeedKey(r)
    <2>1. PICK k \in KeyTables : k = pc[r]
      BY <1>6 DEF SeedKey, KeyTables
    <2>2. /\ keyRows' = keyRows \/ keyRows' = [keyRows EXCEPT ![k] = r]
          /\ UNCHANGED <<userRows, deviceRows, sample, holds>>
      BY <1>6, <2>1 DEF SeedKey
    <2>3. QED
      BY <1>1, <2>2
  <1>7. ASSUME NEW l, NEW t \in SampleTables, Adds(r, l, t) PROVE SeedTyped' /\ Gains
    <2>1. /\ sample' = [sample EXCEPT ![r][t] = TRUE]
          /\ UNCHANGED <<userRows, deviceRows, keyRows, holds>>
      BY <1>7 DEF Adds
    <2>2. /\ sample' \in [Requests -> [SampleTables -> BOOLEAN]]
          /\ \A q \in Requests : \A x \in SampleTables : sample[q][x] => sample'[q][x]
      BY <2>1
    <2>3. QED
      BY <2>1, <2>2
  <1>8. CASE SeedConversation(r) \/ SeedMessage(r) \/ SeedCiphertexts(r) \/ SeedBroadcast(r)
    BY <1>7, <1>8 DEF SeedConversation, SeedMessage, SeedCiphertexts, SeedBroadcast, SampleTables, setup
  <1>9. QED
    BY <1>2, <1>3, <1>4, <1>5, <1>6, <1>8, SeedKinds

(* A run that goes on has left what its statement adds.                    *)
LEMMA ProgressStep ==
  ASSUME HandlersInv, KeyColumns, LabelsInv, SeedTyped, NEW r \in Requests, SetupAct(r), Gains,
         op'[r] = "seedDev", op[r] = "seedDev" => Progress(r)
  PROVE  Progress(r)'
  <1> USE DEF PastSeal, PastSend, PastDm, PastOneTime, PastSigned, PastIdentity, PastAliceDevice,
              PastAlice, PastAdminDevice, PastAdmin
  <1>1. CASE Rests(r)
    BY <1>1 DEF Rests, Progress
  <1>2. CASE DropAllTables(r)
    BY <1>2 DEF DropAllTables, Goto, LabelsInv, RunsOf, HandlersInv, Progress
  <1>4. CASE FindUser(r)
    <2>1. pc[r] \in {"admin", "alice"} /\ op[r] = "seedDev" /\ Progress(r)
      BY <1>4 DEF FindUser, Goto, TaskDone, SeedUsers
    <2>2. \/ /\ pc'[r] = AfterTask(op[r], pc[r])
             /\ holds'[r] = holds[r] \union {Subject(r)}
          \/ pc'[r] = IF pc[r] = "admin" THEN "newAdmin" ELSE "newAlice"
      BY <1>4 DEF FindUser, Goto, TaskDone, HandlersInv, Knows, SeedTyped
    <2>3. QED
      BY <2>1, <2>2 DEF Gains, AfterTask, Subject, Progress, KeyTables, SampleTables
  <1>5. CASE InsertUser(r)
    <2>1. pc[r] \in {"newAdmin", "newAlice"} /\ op[r] = "seedDev" /\ Progress(r)
      BY <1>5 DEF InsertUser, Goto, TaskDone
    <2>2. \/ /\ pc'[r] = AfterTask(op[r], pc[r])
             /\ holds'[r] = holds[r] \union {Subject(r)}
          \/ pc'[r] = "failed"
      BY <1>5 DEF InsertUser, Goto, TaskDone, HandlersInv, Knows, SeedTyped
    <2>3. QED
      BY <2>1, <2>2 DEF Gains, AfterTask, Subject, Progress, KeyTables, SampleTables
  <1>6. CASE SeedDevice(r)
    <2>1. pc[r] \in {"adminDevice", "aliceDevice"} /\ op[r] = "seedDev" /\ Progress(r)
      BY <1>6 DEF SeedDevice, Goto, TaskDone
    <2>2. pc'[r] = AfterTask(op[r], pc[r]) /\ Subject(r) \in deviceRows'
      BY <1>6 DEF SeedDevice, Goto, TaskDone, HandlersInv
    <2>3. QED
      BY <2>1, <2>2 DEF Gains, AfterTask, Subject, Progress, KeyTables, SampleTables
  <1>7. CASE SeedKey(r)
    <2>1. pc[r] \in KeyTables /\ op[r] = "seedDev" /\ Progress(r)
      BY <1>7 DEF SeedKey, Goto, TaskDone, KeyColumns, KeyTables
    <2>2. pc'[r] = AfterTask(op[r], pc[r])
      BY <1>7 DEF SeedKey, Goto, TaskDone, HandlersInv
    <2>3. PICK k \in KeyTables : k = pc[r]
      BY <2>1
    <2>4. keyRows'[k] # Nobody
      <3>1. CASE keyRows' = [keyRows EXCEPT ![k] = r]
        BY <3>1, HandlersAssumption DEF SeedTyped
      <3>2. CASE keyRows' = keyRows /\ k = "oneTime" /\ keyRows[k] # Nobody
        BY <3>2
      <3>3. QED
        BY <1>7, <2>3, <3>1, <3>2 DEF SeedKey
    <2>5. QED
      BY <2>1, <2>2, <2>3, <2>4 DEF Gains, AfterTask, Progress, KeyTables, SampleTables
  <1>8. ASSUME NEW l \in {"dm", "send", "seal", "list"}, NEW t \in SampleTables, Adds(r, l, t),
               l = "dm" => t = "dm", l = "send" => t = "sent", l = "seal" => t = "sealed", l = "list" => t = "list"
        PROVE  Progress(r)'
    <2>1. /\ pc[r] = l /\ op[r] = "seedDev" /\ Progress(r) /\ pc'[r] = AfterTask(op[r], l)
          /\ sample'[r][t]
      BY <1>8 DEF Adds, Goto, TaskDone, HandlersInv, SeedTyped
    <2>2. QED
      BY <1>8, <2>1 DEF Gains, AfterTask, Progress, KeyTables, SampleTables
  <1>9. CASE SeedConversation(r) \/ SeedMessage(r) \/ SeedBroadcast(r)
    BY <1>8, <1>9 DEF SeedConversation, SeedMessage, SeedBroadcast, SampleTables
  <1>10. CASE SeedCiphertexts(r)
    <2>1. CASE Adds(r, "seal", "sealed")
      BY <1>8, <2>1 DEF SampleTables
    <2>2. CASE pc[r] = "seal" /\ holds[r] # SeedUsers /\ op[r] = "seedDev"
      BY <2>2 DEF Progress, SeedTyped, SeedUsers
    <2>3. QED
      BY <1>10, <2>1, <2>2 DEF SeedCiphertexts, TaskDone, Goto
  <1>11. QED
    BY <1>1, <1>2, <1>4, <1>5, <1>6, <1>7, <1>9, <1>10, SeedKinds

LEMMA SeedInvStep ==
  ASSUME HandlersInv, HandlersInv', Grows, KeyColumns, LabelsInv, SeedTyped, SeedInv,
         NEW r \in Requests, SetupAct(r)
  PROVE  SeedInv'
  <1> SUFFICES ASSUME \A q \in Requests : op'[q] # "dropSchema"
               PROVE  \A q \in Requests : holds'[q] \subseteq userRows' /\ (op'[q] = "seedDev" => Progress(q)')
    BY DEF SeedInv
  <1>1. \A q \in Requests \ {r} : pc'[q] = pc[q] /\ op'[q] = op[q]
    BY HandlersStep, SetupActMoves
  <1>2. \A q \in Requests : op[q] # "dropSchema"
    BY DEF Grows, HandlersInv
  <1>3. ~ DropAllTables(r)
    BY <1>2 DEF DropAllTables, LabelsInv, RunsOf, Files, SeedLabels
  <1>4. Gains
    BY <1>3, SeedTypedStep
  <1>5. \A q \in Requests : holds[q] \subseteq userRows /\ (op[q] = "seedDev" => Progress(q))
    BY <1>2 DEF SeedInv
  <1>6. op'[r] = "seedDev" => Progress(r)'
    BY <1>4, <1>5, ProgressStep
  <1>7. ASSUME NEW q \in Requests \ {r}, op'[q] = "seedDev" PROVE Progress(q)'
    <2>1. Progress(q) /\ pc'[q] = pc[q]
      BY <1>1, <1>5, <1>7
    <2>2. QED
      BY <1>4, <2>1 DEF Progress, Gains, KeyTables, SampleTables
  <1>8. \A q \in Requests : holds'[q] \subseteq userRows'
    <2>1. CASE holds' = holds
      BY <1>4, <1>5, <2>1 DEF Gains
    <2>2. CASE FindUser(r) \/ InsertUser(r)
      BY <1>4, <1>5, <2>2 DEF FindUser, InsertUser, Knows, Gains, SeedTyped
    <2>3. QED
      BY <1>3, <2>1, <2>2, SeedKinds DEF Rests, SeedDevice, SeedKey, SeedConversation, SeedMessage,
         SeedCiphertexts, SeedBroadcast, Adds, setup
  <1>9. QED
    BY <1>6, <1>7, <1>8

LEMMA KeyPairStep ==
  ASSUME HandlersInv, HandlersInv', Grows, KeyColumns, LabelsInv, SeedTyped, KeyPairInv,
         NEW r \in Requests, SetupAct(r)
  PROVE  KeyPairInv'
  <1>1. \A q \in Requests \ {r} : pc'[q] = pc[q] /\ op'[q] = op[q]
    BY HandlersStep, SetupActMoves
  <1>2. \A q \in Requests : met[q] # {} => met'[q] # {}
    BY DEF Grows
  <1>3. \A q \in Requests \ {r} : pc[q] = "signed" /\ Active(r) => met[q] # {}
    BY DEF HandlersInv, Active
  <1>4. \A q \in Requests : pc[q] # "new" => op'[q] = op[q]
    BY DEF Grows
  <1>5. \A q \in Requests : pc[q] = "signed" => op[q] = "seedDev"
    BY DEF LabelsInv, RunsOf, Files, SeedLabels
  <1>6. ASSUME UNCHANGED keyRows, pc'[r] # "signed", pc[r] = "signed" => pc'[r] = "failed"
        PROVE  KeyPairInv'
    <2>1. \A q \in Requests : pc[q] = "failed" => pc'[q] = "failed"
      BY DEF Grows, Active
    <2>2. ASSUME NEW q \in Requests, op[q] = "seedDev", pc[q] \in {"signed", "failed"} \/ met[q] # {}
          PROVE  op'[q] = "seedDev" /\ (pc'[q] \in {"signed", "failed"} \/ met'[q] # {})
      BY <1>1, <1>2, <1>4, <1>6, <2>1, <2>2 DEF HandlersInv
    <2>3. QED
      BY <1>1, <1>2, <1>6, <2>2 DEF KeyPairInv
  <1>7. CASE Rests(r)
    BY <1>6, <1>7 DEF Rests, seeded
  <1>8. CASE DropAllTables(r)
    <2>1. keyRows' = NoKeys /\ pc[r] = "dropAll" /\ pc'[r] = "types"
      BY <1>8 DEF DropAllTables, Goto, HandlersInv
    <2>2. keyRows'["identity"] = keyRows'["signed"]
      BY <2>1 DEF NoKeys
    <2>3. QED
      BY <1>1, <1>2, <1>3, <2>1, <2>2 DEF KeyPairInv, Active
  <1>9. CASE SeedKey(r)
    <2>1. PICK k \in KeyTables : /\ k = pc[r] /\ pc'[r] = AfterTask(op[r], k) /\ op' = op
                                 /\ keyRows' = IF k = "oneTime" /\ keyRows["oneTime"] # Nobody THEN keyRows
                                               ELSE [keyRows EXCEPT ![k] = r]
      BY <1>9 DEF SeedKey, TaskDone, Goto, HandlersInv, KeyColumns, KeyTables
    <2>2. op[r] = "seedDev" /\ Active(r)
      BY <2>1 DEF LabelsInv, RunsOf, Files, SeedLabels, KeyTables, Active
    <2>3. CASE k = "identity"
      <3>1. keyRows'["identity"] = r /\ pc'[r] = "signed"
        BY <2>1, <2>2, <2>3 DEF SeedTyped, KeyTables, AfterTask
      <3>2. QED
        BY <1>1, <1>2, <1>3, <2>1, <2>2, <3>1 DEF KeyPairInv
    <2>4. CASE k = "signed"
      <3>1. /\ keyRows'["signed"] = r /\ keyRows'["identity"] = keyRows["identity"]
            /\ pc[r] = "signed" /\ pc'[r] = "oneTime"
        BY <2>1, <2>2, <2>4 DEF SeedTyped, KeyTables, AfterTask
      <3>2. keyRows["identity"] = r \/ met'[r] # {}
        BY <1>2, <3>1 DEF KeyPairInv
      <3>3. QED
        BY <1>1, <1>2, <2>1, <2>2, <3>1, <3>2 DEF KeyPairInv
    <2>5. CASE k = "oneTime"
      <3>1. /\ keyRows'["signed"] = keyRows["signed"] /\ keyRows'["identity"] = keyRows["identity"]
            /\ pc[r] = "oneTime" /\ pc'[r] = "dm"
        BY <2>1, <2>2, <2>5 DEF SeedTyped, KeyTables, AfterTask
      <3>2. QED
        BY <1>1, <1>2, <2>1, <2>2, <3>1 DEF KeyPairInv
    <2>6. QED
      BY <2>3, <2>4, <2>5 DEF KeyTables
  <1>10. CASE FindUser(r) \/ InsertUser(r)
    BY <1>6, <1>10 DEF FindUser, InsertUser, seeded, TaskDone, Goto, AfterTask, HandlersInv, SeedUsers, LabelsInv, RunsOf
  <1>11. CASE SeedDevice(r)
    BY <1>6, <1>11 DEF SeedDevice, TaskDone, Goto, AfterTask, HandlersInv
  <1>12. CASE SeedConversation(r) \/ SeedMessage(r) \/ SeedCiphertexts(r) \/ SeedBroadcast(r)
    <2>1. CASE SeedConversation(r)
      BY <1>6, <2>1 DEF SeedConversation, Adds, TaskDone, Goto, AfterTask, HandlersInv, setup, seeded
    <2>2. CASE SeedMessage(r)
      BY <1>6, <2>2 DEF SeedMessage, Adds, TaskDone, Goto, AfterTask, HandlersInv, setup, seeded
    <2>3. CASE SeedCiphertexts(r)
      BY <1>6, <2>3 DEF SeedCiphertexts, Adds, TaskDone, Goto, AfterTask, HandlersInv, setup, seeded
    <2>4. CASE SeedBroadcast(r)
      BY <1>6, <2>4 DEF SeedBroadcast, Adds, TaskDone, Goto, AfterTask, HandlersInv, setup, seeded
    <2>5. QED
      BY <1>12, <2>1, <2>2, <2>3, <2>4
  <1>13. QED
    BY <1>7, <1>8, <1>9, <1>10, <1>11, <1>12, SeedKinds

AllOfSetup ==
  /\ service = "setup" => LabelsInv /\ SchemaInv /\ SeedTyped /\ SeedInv /\ KeyPairInv
  /\ service # "setup" => keyRows["identity"] = keyRows["signed"]

LEMMA SetupInitially == Init => AllOfSetup
  <1> SUFFICES ASSUME Init PROVE AllOfSetup
    OBVIOUS
  <1>1. \A r \in Requests : pc[r] = "new" /\ op[r] = "none" /\ met[r] = {}
    BY DEF Init, HandlersInit
  <1>2. LabelsInv
    BY <1>1 DEF LabelsInv
  <1>3. SchemaInv
    BY <1>1 DEF SchemaInv, Migrates, Init, SetupInit, Files
  <1>4. keyRows = NoKeys /\ NoKeys["identity"] = NoKeys["signed"]
    BY DEF Init, SetupInit, NoKeys
  <1>5. SeedTyped
    <2>1. NoKeys \in [KeyTables -> Requests \union {Nobody}]
      BY DEF NoKeys, KeyTables
    <2>2. NoSample \in [SampleTables -> BOOLEAN]
      <3>1. PICK no : no = FALSE
        OBVIOUS
      <3>2. NoSample = [dm |-> no, sent |-> no, sealed |-> no, list |-> no]
        BY <3>1 DEF NoSample
      <3>3. NoSample = [t \in SampleTables |-> no]
        BY <3>2 DEF SampleTables
      <3>4. QED
        BY <3>1, <3>3
    <2>3. QED
      BY <2>1, <2>2 DEF Init, SetupInit, SeedTyped
  <1>6. SeedInv
    BY <1>1 DEF SeedInv, Init, SetupInit
  <1>7. KeyPairInv
    BY <1>1, <1>4 DEF KeyPairInv
  <1>8. QED
    BY <1>2, <1>3, <1>4, <1>5, <1>6, <1>7 DEF AllOfSetup

LEMMA SetupNextInv ==
  HandlersInv /\ HandlersInv' /\ Grows /\ KeyColumns /\ AllOfSetup /\ [Next]_vars => AllOfSetup'
  <1> SUFFICES ASSUME HandlersInv, HandlersInv', Grows, KeyColumns, AllOfSetup, [Next]_vars
               PROVE  AllOfSetup'
    OBVIOUS
  <1>1. service' = service
    BY DEF Grows
  <1>2. CASE service = "setup" /\ \E r \in Requests : SetupAct(r)
    BY <1>1, <1>2, SchemaStep, SeedTypedStep, SeedInvStep, KeyPairStep DEF AllOfSetup
  <1>3. CASE service = "setup" /\ UNCHANGED <<handling, setup>>
    <2>1. LabelsInv' /\ SchemaInv'
      BY <1>3 DEF AllOfSetup, LabelsInv, SchemaInv, Migrates, HasAll, Drops, handling, setup
    <2>2. SeedTyped' /\ SeedInv'
      BY <1>3 DEF AllOfSetup, SeedTyped, SeedInv, Progress, handling, setup, seeded
    <2>3. KeyPairInv'
      BY <1>3 DEF AllOfSetup, KeyPairInv, handling, setup, seeded
    <2>4. QED
      BY <1>1, <1>3, <2>1, <2>2, <2>3 DEF AllOfSetup
  <1>4. CASE service # "setup"
    BY <1>1, <1>4, SetupFrame DEF AllOfSetup, setup, seeded
  <1>5. QED
    BY <1>2, <1>3, <1>4, SetupFrame

LEMMA SettingUp == Spec => []AllOfSetup
  BY Requesting, SetupInitially, SetupNextInv, HandlersNext, PTL DEF Spec

(* RunFullMigration that ends well leaves the whole schema, whatever other *)
(* migrations ran beside it or were killed, unless a command that drops is *)
(* still at work or did not end.                                           *)
THEOREM MigrationsComplete == Spec => []SchemaComplete
  <1>1. HandlersInv /\ AllOfSetup => SchemaComplete
    <2> SUFFICES ASSUME HandlersInv, AllOfSetup, NEW r \in Requests,
                        op[r] \in {"up", "dropSchema"}, pc[r] = "ok"
                 PROVE  \/ applied = Files
                        \/ \E q \in Requests : op[q] \in {"down", "dropSchema"} /\ pc[q] # "ok"
      BY DEF SchemaComplete
    <2>1. service = "setup"
      BY DEF HandlersInv, Belongs, BesideCall, Marks
    <2>2. Migrates(r)
      BY DEF Migrates
    <2>3. QED
      BY <2>1, <2>2 DEF AllOfSetup, SchemaInv, HasAll, FilesBefore, Drops
  <1>2. QED
    BY <1>1, Requesting, SettingUp, PTL

(* A development seed that ends well is complete, whatever runs before and *)
(* beside it did, and the two keys of a device are of one run unless runs  *)
(* overlapped or one ended between them.                                   *)
THEOREM SeedsComplete == Spec => []SeedWhole
  <1>1. HandlersInv /\ AllOfSetup => SeedWhole
    <2> SUFFICES ASSUME HandlersInv, AllOfSetup PROVE SeedWhole
      OBVIOUS
    <2>1. CASE service = "setup"
      <3>1. ASSUME NEW r \in Requests, op[r] = "seedDev", pc[r] = "ok", \A q \in Requests : op[q] # "dropSchema"
            PROVE  /\ userRows = SeedUsers /\ deviceRows = SeedUsers
                   /\ \A t \in DOMAIN sample[r] : sample[r][t]
                   /\ \A k \in DOMAIN keyRows : keyRows[k] # Nobody
        <4>1. SeedTyped /\ Progress(r) /\ holds[r] \subseteq userRows
          BY <2>1, <3>1 DEF AllOfSetup, SeedInv
        <4>2. DOMAIN sample[r] = SampleTables /\ DOMAIN keyRows = KeyTables
          BY <4>1 DEF SeedTyped
        <4>3. pc[r] \in PastSeal /\ pc[r] \in PastSend /\ pc[r] \in PastDm /\ pc[r] \in PastOneTime
              /\ pc[r] \in PastSigned /\ pc[r] \in PastIdentity /\ pc[r] \in PastAliceDevice
              /\ pc[r] \in PastAlice /\ pc[r] \in PastAdminDevice /\ pc[r] \in PastAdmin
          BY <3>1 DEF PastSeal, PastSend, PastDm, PastOneTime, PastSigned, PastIdentity,
                      PastAliceDevice, PastAlice, PastAdminDevice, PastAdmin
        <4>4. /\ "admin" \in holds[r] /\ "alice" \in holds[r]
              /\ "admin" \in deviceRows /\ "alice" \in deviceRows
          BY <4>1, <4>3 DEF Progress
        <4>5. \A t \in SampleTables : sample[r][t]
          BY <3>1, <4>1, <4>3 DEF Progress, SampleTables
        <4>6. \A k \in KeyTables : keyRows[k] # Nobody
          BY <4>1, <4>3 DEF Progress, KeyTables
        <4>7. userRows = SeedUsers /\ deviceRows = SeedUsers
          BY <4>1, <4>4 DEF SeedTyped, SeedUsers
        <4>8. QED
          BY <4>2, <4>5, <4>6, <4>7
      <3>2. ASSUME keyRows["identity"] # keyRows["signed"]
            PROVE  \E r \in Requests : op[r] = "seedDev" /\ (pc[r] # "ok" \/ met[r] # {})
        BY <2>1, <3>2 DEF AllOfSetup, KeyPairInv
      <3>3. QED
        BY <3>1, <3>2 DEF SeedWhole
    <2>2. CASE service # "setup"
      <3>1. \A r \in Requests : op[r] # "seedDev"
        BY <2>2 DEF HandlersInv, Belongs, BesideCall, Marks
      <3>2. QED
        BY <2>2, <3>1 DEF AllOfSetup, SeedWhole
    <2>3. QED
      BY <2>1, <2>2
  <1>2. QED
    BY <1>1, Requesting, SettingUp, PTL
=============================================================================
