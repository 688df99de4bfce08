-------------------------------- MODULE Setup --------------------------------
(***************************************************************************)
(* The migrations, which every API process runs when it starts and         *)
(* cmd/migrate runs on demand, and the commands of cmd/migrate that fill   *)
(* or empty the database.  A request is a process: it may be killed        *)
(* between two statements and be run again, and several may run at once.   *)
(*                                                                         *)
(* Each migration file is one implicit transaction.  The development seed  *)
(* creates eight users with two devices each, two conversations and eight  *)
(* messages in each; here they are one user, alice, who stands for all,    *)
(* her device, and one message.                                            *)
(***************************************************************************)
EXTENDS Handlers

VARIABLES
  applied,     \* the migration files whose objects exist
  userRows,    \* the users, each with its settings
  deviceRows,  \* the users whose device exists
  keyRows,     \* the runs that wrote the identity, signed and one-time keys
  sample,      \* what each run added: conversation, messages, ciphertexts, list
  holds        \* the users whose id each run holds, if not dropped since

seeded == <<userRows, deviceRows, keyRows, sample>>
setup  == <<applied, seeded, holds>>

Files     == {"types", "tables", "indexes", "triggers"}
SeedUsers == {"admin", "alice"}
NoKeys    == [identity |-> Nobody, signed |-> Nobody, oneTime |-> Nobody]
NoSample  == [dm |-> FALSE, sent |-> FALSE, sealed |-> FALSE, list |-> FALSE]

(* The statements of the development seed, in their order.  The minimal    *)
(* seed ends after the administrator.                                      *)
AfterTask(op_, l) ==
  IF op_ = "seed" THEN "ok"
  ELSE CASE l \in {"admin", "newAdmin"} -> "adminDevice"
         [] l = "adminDevice"           -> "alice"
         [] l \in {"alice", "newAlice"} -> "aliceDevice"
         [] l = "aliceDevice"           -> "identity"
         [] l = "identity"              -> "signed"
         [] l = "signed"                -> "oneTime"
         [] l = "oneTime"               -> "dm"
         [] l = "dm"                    -> "send"
         [] l = "send"                  -> "seal"
         [] l = "seal"                  -> "list"
         [] l = "list"                  -> "ok"

SetupInit ==
  /\ applied \in {{}, Files} /\ (service # "setup" => applied = Files)
  /\ userRows = {} /\ deviceRows = {} /\ keyRows = NoKeys
  /\ sample = [r \in Requests |-> NoSample]
  /\ holds = [r \in Requests |-> {}]

Tables == "tables" \in applied

-----------------------------------------------------------------------------
(* Migrations.                                                             *)

Launch(r, operation, first) ==
  /\ Arrive(r, "setup", operation, first)
  /\ UNCHANGED setup

(* RunFullMigration, of an API process that starts and of the command up.  *)
MigrateUp(r) == Launch(r, "up", "types")

Needs(f) == IF f = "types" THEN {} ELSE IF f = "tables" THEN {"types"} ELSE {"tables"}

(* The file after f, or the end.                                           *)
After(f) == IF f = "types" THEN "tables"
            ELSE IF f = "tables" THEN "indexes"
            ELSE IF f = "indexes" THEN "triggers" ELSE "ok"

(* Slip: a file that fails is passed over.                                 *)
ApplyFileAnyhow(r) ==
  /\ pc[r] \in Files
  /\ \/ Needs(pc[r]) \subseteq applied /\ applied' = applied \union {pc[r]}
     \/ (\E q \in Requests \ {r} : pc[q] = pc[r]) /\ UNCHANGED applied
  /\ Goto(r, After(pc[r]))
  /\ UNCHANGED <<seeded, holds>>

(* One file, which creates what is not there.  Two processes in one file   *)
(* collide in PostgreSQL's catalogue and one of them fails; not so in the  *)
(* last file, which locks the tables before it replaces their triggers.    *)
ApplyFile(r) ==
  /\ pc[r] \in Files
  /\ \/ /\ Needs(pc[r]) \subseteq applied
        /\ applied' = applied \union {pc[r]}
        /\ Goto(r, After(pc[r]))
     \/ /\ \/ ~ (Needs(pc[r]) \subseteq applied)
           \/ pc[r] # "triggers" /\ \E q \in Requests \ {r} : pc[q] = pc[r]
        /\ Goto(r, "failed")
        /\ UNCHANGED applied
  /\ UNCHANGED <<seeded, holds>>

MigrateDown(r) == Launch(r, "down", "dropTriggers")

DropTriggers(r) ==
  /\ pc[r] = "dropTriggers"
  /\ applied' = applied \ {"triggers"}
  /\ Goto(r, "dropIndexes")
  /\ UNCHANGED <<seeded, holds>>

(* 000003_indexes.down.sql has a syntax error, and ends the command.       *)
DropIndexes(r) ==
  /\ pc[r] = "dropIndexes"
  /\ Goto(r, "failed")
  /\ UNCHANGED setup

Reset(r) == Launch(r, "dropSchema", "dropAll")

(* DropAllTables leaves the types and functions.                           *)
DropAllTables(r) ==
  /\ pc[r] = "dropAll"
  /\ applied' = applied \intersect {"types"}
  /\ userRows' = {} /\ deviceRows' = {} /\ keyRows' = NoKeys
  /\ sample' = [q \in Requests |-> NoSample]
  /\ holds' = [q \in Requests |-> {}]
  /\ Goto(r, "types")

Truncate(r) == Launch(r, "truncate", "truncate")

(* Two of the tables that TruncateAllTables names do not exist; it goes on *)
(* after a statement that fails, but its transaction is aborted.           *)
TruncateAllTables(r) ==
  /\ pc[r] = "truncate"
  /\ Goto(r, "failed")
  /\ UNCHANGED setup

-----------------------------------------------------------------------------
(* The seeds.                                                              *)

SeedRows(r) == Launch(r, "seed", "admin") \/ Launch(r, "seedDev", "admin")

TaskDone(r) == Goto(r, AfterTask(op[r], pc[r]))

(* The user that the statement refers to.                                  *)
Subject(r) == IF pc[r] \in {"admin", "newAdmin", "adminDevice"} THEN "admin" ELSE "alice"

(* Without its table a statement fails, or the user seems not to exist;    *)
(* and a statement fails when it refers to a user that was dropped, or to  *)
(* its device.                                                             *)
SeedFails(r) ==
  /\ \/ ~ Tables /\ pc[r] \in {"newAdmin", "newAlice", "seal"}
     \/ Subject(r) \notin holds[r] /\ pc[r] \in {"adminDevice", "aliceDevice"}
     \/ holds[r] # SeedUsers
          /\ pc[r] \in {"identity", "signed", "oneTime", "dm", "send", "list"}
  /\ Goto(r, "failed")
  /\ UNCHANGED setup

Knows(r) == holds' = [holds EXCEPT ![r] = @ \union {Subject(r)}]

(* Slip: a user that exists is passed over, and the rest with it.          *)
FindUserOrEnd(r) ==
  /\ pc[r] \in SeedUsers
  /\ Goto(r, IF Subject(r) \in userRows THEN "ok"
             ELSE IF pc[r] = "admin" THEN "newAdmin" ELSE "newAlice")
  /\ UNCHANGED setup

FindUser(r) ==
  /\ pc[r] \in SeedUsers
  /\ \/ Subject(r) \in userRows /\ Knows(r) /\ TaskDone(r)
     \/ /\ Subject(r) \notin userRows
        /\ Goto(r, IF pc[r] = "admin" THEN "newAdmin" ELSE "newAlice")
        /\ UNCHANGED holds
  /\ UNCHANGED <<applied, seeded>>

(* The transaction that inserts a user and its settings.                   *)
InsertUser(r) ==
  /\ pc[r] \in {"newAdmin", "newAlice"} /\ Tables
  /\ \/ Subject(r) \in userRows /\ Goto(r, "failed") /\ UNCHANGED <<userRows, holds>>
     \/ /\ Subject(r) \notin userRows
        /\ userRows' = userRows \union {Subject(r)}
        /\ Knows(r) /\ TaskDone(r)
  /\ UNCHANGED <<applied, deviceRows, keyRows, sample>>

(* INSERT ... ON CONFLICT DO UPDATE.                                       *)
SeedDevice(r) ==
  /\ pc[r] \in {"adminDevice", "aliceDevice"} /\ Subject(r) \in holds[r]
  /\ deviceRows' = deviceRows \union {Subject(r)}
  /\ TaskDone(r)
  /\ UNCHANGED <<applied, userRows, keyRows, sample, holds>>

(* The keys of alice's device; those of the administrator's come before or *)
(* after them.  The identity and the signed key are replaced, a one-time   *)
(* key is kept.                                                            *)
SeedKey(r) ==
  /\ pc[r] \in DOMAIN keyRows /\ "alice" \in holds[r]
  /\ keyRows' = IF pc[r] = "oneTime" /\ keyRows.oneTime # Nobody THEN keyRows
                ELSE [keyRows EXCEPT ![pc[r]] = r]
  /\ TaskDone(r)
  /\ UNCHANGED <<applied, userRows, deviceRows, sample, holds>>

(* A statement, or a transaction, that adds rows to the sample.            *)
Adds(r, l, row) ==
  /\ pc[r] = l /\ holds[r] = SeedUsers
  /\ sample' = [sample EXCEPT ![r][row] = TRUE]
  /\ TaskDone(r)
  /\ UNCHANGED <<applied, userRows, deviceRows, keyRows, holds>>

SeedConversation(r) == Adds(r, "dm", "dm")
SeedMessage(r)      == Adds(r, "send", "sent")
SeedBroadcast(r)    == Adds(r, "list", "list")

(* For the participants found, and without an error if there are none.     *)
SeedCiphertexts(r) ==
  \/ Adds(r, "seal", "sealed")
  \/ /\ pc[r] = "seal" /\ Tables /\ holds[r] # SeedUsers
     /\ TaskDone(r)
     /\ UNCHANGED setup

SetupStep(r) ==
  \/ MigrateUp(r) \/ ApplyFile(r) \/ MigrateDown(r) \/ DropTriggers(r) \/ DropIndexes(r)
  \/ Reset(r) \/ DropAllTables(r) \/ Truncate(r) \/ TruncateAllTables(r)
  \/ SeedRows(r) \/ SeedFails(r) \/ FindUser(r) \/ InsertUser(r) \/ SeedDevice(r) \/ SeedKey(r)
  \/ SeedConversation(r) \/ SeedMessage(r) \/ SeedCiphertexts(r) \/ SeedBroadcast(r)

SetupNext == \E r \in Requests : SetupStep(r)

-----------------------------------------------------------------------------
(* What the commands promise.                                              *)

SetupTypeOK ==
  /\ applied \subseteq Files
  /\ userRows \subseteq SeedUsers /\ deviceRows \subseteq SeedUsers
  /\ keyRows \in [{"identity", "signed", "oneTime"} -> Requests \union {Nobody}]
  /\ sample \in [Requests -> [DOMAIN NoSample -> BOOLEAN]]
  /\ holds \in [Requests -> SUBSET SeedUsers]

(* Migrations that ended well, alone or beside others that ran or were     *)
(* killed, left the whole schema, unless a command that drops is still at  *)
(* work or did not end.                                                    *)
SchemaComplete ==
  /\ \A r \in Requests : op[r] \in {"up", "dropSchema"} /\ pc[r] = "ok" =>
       \/ applied = Files
       \/ \E q \in Requests : op[q] \in {"down", "dropSchema"} /\ pc[q] # "ok"

(* A development seed that ended well is complete, whatever runs were      *)
(* killed, failed or overlapped before it; its rows only lack when the     *)
(* tables were dropped.  The identity and the signed key of a device are   *)
(* of one run, unless two runs overlapped or one was killed between them.  *)
SeedWhole ==
  /\ \A r \in Requests : op[r] = "seedDev" /\ pc[r] = "ok" =>
       \/ /\ userRows = SeedUsers /\ deviceRows = SeedUsers
          /\ \A row \in DOMAIN sample[r] : sample[r][row]
          /\ \A k \in DOMAIN keyRows : keyRows[k] # Nobody
       \/ \E q \in Requests : op[q] = "dropSchema"
  /\ keyRows.identity # keyRows.signed =>
       \E r \in Requests : op[r] = "seedDev" /\ (pc[r] # "ok" \/ met[r] # {})
=============================================================================
