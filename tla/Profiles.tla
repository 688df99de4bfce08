------------------------------- MODULE Profiles -------------------------------
(***************************************************************************)
(* UserHandler and UserService on one user of the seed: the columns of its *)
(* users and user_settings rows that requests, logins and the hub write,   *)
(* and its contact with one other user.  A profile or settings update      *)
(* reads the row and writes all of it; is_online is written by itself.  A  *)
(* value is named after the request that set it.                           *)
(***************************************************************************)
EXTENDS Handlers

VARIABLES
  column,   \* the columns of both rows
  last,     \* history: what was set last in each column
  read,     \* the columns as each request has read them
  contact   \* the user_contacts row: "none", "plain" or "blocked"

profiles == <<column, last, read, contact>>

UserColumns     == {"online", "name", "password"}
SettingsColumns == {"notifications", "theme"}
ProfileColumns  == UserColumns \union SettingsColumns

ProfilesInit ==
  /\ column = [c \in ProfileColumns |-> Nobody]
  /\ last = column
  /\ read = [r \in Requests |-> column]
  /\ contact = "none"

AsksProfile(r, operation, first) ==
  /\ Arrive(r, "profiles", operation, first)
  /\ UNCHANGED profiles

(* Request r sets the columns C, and leaves in the others what it puts.    *)
Put(r, C, others) ==
  /\ column' = [c \in ProfileColumns |-> IF c \in C THEN r ELSE others[c]]
  /\ last' = [c \in ProfileColumns |-> IF c \in C THEN r ELSE last[c]]
  /\ Goto(r, "ok")
  /\ UNCHANGED <<read, contact>>

-----------------------------------------------------------------------------
(* The rows of the user.                                                   *)

(* UpdateOnlineStatus, of a login, a first and a last connection.          *)
AskStatus(r) == AsksProfile(r, "online", "status")

UpdateOnlineStatus(r) ==
  /\ pc[r] = "status"
  /\ Put(r, {"online"}, column)

(* UpdateProfile, which sets the name, and PasswordReset.                  *)
AskProfile(r) == \E o \in {"name", "password"} : AsksProfile(r, o, "readUser")

GetUserByID(r) ==
  /\ pc[r] = "readUser"
  /\ read' = [read EXCEPT ![r] = column]
  /\ Goto(r, "writeUser")
  /\ UNCHANGED <<column, last, contact>>

(* Slip: the User is built from the request, not from the row.             *)
UpdateUserBlank(r) ==
  /\ pc[r] = "writeUser"
  /\ Put(r, {op[r]},
         [c \in ProfileColumns |-> IF c \in UserColumns THEN Nobody ELSE column[c]])

UpdateUser(r) ==
  /\ pc[r] = "writeUser"
  /\ Put(r, {op[r]},
         [c \in ProfileColumns |-> IF c \in UserColumns THEN read[r][c] ELSE column[c]])

(* The notifications are always set, the theme if the request names one.   *)
AskSettings(r) == \E o \in SettingsColumns : AsksProfile(r, o, "readSettings")

GetUserSettings(r) ==
  /\ pc[r] = "readSettings"
  /\ read' = [read EXCEPT ![r] = column]
  /\ Goto(r, "writeSettings")
  /\ UNCHANGED <<column, last, contact>>

UpdateUserSettings(r) ==
  /\ pc[r] = "writeSettings"
  /\ Put(r, {op[r], "notifications"},
         [c \in ProfileColumns |-> IF c \in SettingsColumns THEN read[r][c] ELSE column[c]])

(* Every user of the seed has a row in user_settings, whose reference to   *)
(* users does not cascade, so PostgreSQL refuses to delete the user.       *)
DeleteProfile(r) == AsksProfile(r, "deleteProfile", "deleteUser")

DeleteUser(r) ==
  /\ pc[r] = "deleteUser"
  /\ Goto(r, "failed")
  /\ UNCHANGED profiles

-----------------------------------------------------------------------------
(* The contact.                                                            *)

SetContact(r, new, l) ==
  /\ contact' = new
  /\ Goto(r, l)
  /\ UNCHANGED <<column, last, read>>

AskContact(r) ==
  \/ AsksProfile(r, "addContact", "addContact")
  \/ AsksProfile(r, "removeContact", "removeContact")
  \/ AsksProfile(r, "block", "block")
  \/ AsksProfile(r, "unblock", "unblock")

AddUserContact(r) ==
  /\ pc[r] = "addContact"
  /\ IF contact = "none" THEN SetContact(r, "plain", "ok") ELSE SetContact(r, contact, "failed")

RemoveUserContact(r) ==
  /\ pc[r] = "removeContact"
  /\ SetContact(r, "none", IF contact = "none" THEN "failed" ELSE "ok")

(* BlockContact: the UPDATE, and the INSERT where it found no row.         *)
BlockContact(r) ==
  /\ pc[r] = "block"
  /\ IF contact = "none" THEN SetContact(r, contact, "insertBlocked")
     ELSE SetContact(r, "blocked", "ok")

InsertBlocked(r) ==
  /\ pc[r] = "insertBlocked"
  /\ IF contact = "none" THEN SetContact(r, "blocked", "ok") ELSE SetContact(r, contact, "failed")

UnblockContact(r) ==
  /\ pc[r] = "unblock"
  /\ IF contact = "none" THEN SetContact(r, contact, "failed") ELSE SetContact(r, "plain", "ok")

ProfilesStep(r) ==
  \/ AskStatus(r) \/ UpdateOnlineStatus(r) \/ AskProfile(r) \/ GetUserByID(r) \/ UpdateUser(r)
  \/ AskSettings(r) \/ GetUserSettings(r) \/ UpdateUserSettings(r)
  \/ DeleteProfile(r) \/ DeleteUser(r)
  \/ AskContact(r) \/ AddUserContact(r) \/ RemoveUserContact(r)
  \/ BlockContact(r) \/ InsertBlocked(r) \/ UnblockContact(r)

ProfilesNext == \E r \in Requests : ProfilesStep(r)

-----------------------------------------------------------------------------
(* What profiles promise.                                                  *)

ProfilesTypeOK ==
  /\ column \in [ProfileColumns -> Requests \union {Nobody}]
  /\ last \in [ProfileColumns -> Requests \union {Nobody}]
  /\ read \in [Requests -> [ProfileColumns -> Requests \union {Nobody}]]
  /\ contact \in {"none", "plain", "blocked"}

(* A setting, the name, a password that was reset or the status the hub    *)
(* wrote is lost only to an update of the same row that had read it        *)
(* before, and then by two that overlapped.                                *)
ProfileLostOnlyToOverlap ==
  \A c \in ProfileColumns : column[c] # last[c] =>
    \E p, q \in Requests :
      /\ c \in {op[q]} \union (IF op[q] = "theme" THEN {"notifications"} ELSE {})
      /\ op[p] \in IF c \in UserColumns THEN {"name", "password"} ELSE SettingsColumns
      /\ q \in met[p]

(* BlockContact is an UPDATE and, later, an INSERT.  A block is refused    *)
(* only when the contact was added or blocked meanwhile, and one that was  *)
(* answered holds until the contact is unblocked or removed.               *)
BlockHolds ==
  \A r \in Requests : op[r] = "block" =>
    /\ pc[r] = "failed" =>
         r \in faulted \/ \E q \in met[r] : op[q] \in {"addContact", "block"}
    /\ pc[r] = "ok" =>
         \/ contact = "blocked"
         \/ \E q \in Requests : op[q] \in {"unblock", "removeContact"} /\ pc[q] = "ok"

(* UpdateUser, UpdateUserSettings and BlockContact lose nothing by         *)
(* themselves.                                                             *)
ProfilesHold == ProfileLostOnlyToOverlap /\ BlockHolds
=============================================================================
