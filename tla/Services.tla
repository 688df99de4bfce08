------------------------------ MODULE Services ------------------------------
(***************************************************************************)
(* The services whose requests read rows in one statement and write them   *)
(* in a later one, and the commands that prepare the database.  Each       *)
(* behaviour is of one of them (the variable service of Handlers): they    *)
(* write tables, or columns, of their own.  What one service's deletion of *)
(* a conversation, or a database command's of everything, does to requests *)
(* of another is not modelled.                                             *)
(***************************************************************************)
EXTENDS Accounts, Profiles, Calls, Receipts, ConversationCreate, Conversations,
        Messages, Keys, Uploads, Broadcasts, Setup, TLC

vars == <<handling, accounts, profiles, calls, metric, receipts, creation, conversations,
          messages, keys, uploads, broadcasts, setup>>

Init ==
  /\ HandlersInit
  /\ AccountsInit /\ ProfilesInit /\ CallsInit /\ ReceiptsInit
  /\ CreationInit /\ ConversationsInit /\ MessagesInit
  /\ KeysInit /\ UploadsInit /\ BroadcastsInit /\ SetupInit

(* A request that stops leaves its transaction, if one is open, undone.    *)
(* The creation of a conversation is not interrupted between statements.   *)
Stop ==
  \E r \in Requests :
    /\ Stops(r)
    /\ service = "creation" => op[r] = "other"
    /\ IF service = "receipts" THEN Rollback(r) ELSE UNCHANGED receipts
    /\ IF service = "broadcasts" THEN UndoBulk(r) ELSE UNCHANGED broadcasts
    /\ UNCHANGED <<accounts, profiles, calls, metric, creation, conversations, messages, keys,
                   uploads, setup>>

Next ==
  \/ service = "accounts" /\ AccountsNext
     /\ UNCHANGED <<profiles, calls, metric, receipts, creation, conversations, messages, keys,
                    uploads, broadcasts, setup>>
  \/ service = "profiles" /\ ProfilesNext
     /\ UNCHANGED <<accounts, calls, metric, receipts, creation, conversations, messages, keys,
                    uploads, broadcasts, setup>>
  \/ service \in {"calls", "metrics"} /\ CallsNext
     /\ UNCHANGED <<accounts, profiles, receipts, creation, conversations, messages, keys,
                    uploads, broadcasts, setup>>
  \/ service = "receipts" /\ ReceiptsNext
     /\ UNCHANGED <<accounts, profiles, calls, metric, creation, conversations, messages, keys,
                    uploads, broadcasts, setup>>
  \/ service = "creation" /\ CreationNext
     /\ UNCHANGED <<accounts, profiles, calls, metric, receipts, conversations, messages, keys,
                    uploads, broadcasts, setup>>
  \/ service = "conversations" /\ ConversationsNext
     /\ UNCHANGED <<accounts, profiles, calls, metric, receipts, creation, messages, keys,
                    uploads, broadcasts, setup>>
  \/ service \in {"messages", "hanging"} /\ MessagesNext
     /\ UNCHANGED <<accounts, profiles, calls, metric, receipts, creation, conversations, keys,
                    uploads, broadcasts, setup>>
  \/ service = "keys" /\ KeysNext
     /\ UNCHANGED <<accounts, profiles, calls, metric, receipts, creation, conversations, messages,
                    uploads, broadcasts, setup>>
  \/ service = "uploads" /\ UploadsNext
     /\ UNCHANGED <<accounts, profiles, calls, metric, receipts, creation, conversations, messages,
                    keys, broadcasts, setup>>
  \/ service = "broadcasts" /\ BroadcastsNext
     /\ UNCHANGED <<accounts, profiles, calls, metric, receipts, creation, conversations, messages,
                    keys, uploads, setup>>
  \/ service = "setup" /\ SetupNext
     /\ UNCHANGED <<accounts, profiles, calls, metric, receipts, creation, conversations, messages,
                    keys, uploads, broadcasts>>
  \/ Stop

Spec == Init /\ [][Next]_vars

Symmetry == Permutations(Requests)

(* Every variable has the type its declaration names.                      *)
TypeOK ==
  /\ HandlersTypeOK
  /\ AccountsTypeOK /\ ProfilesTypeOK /\ CallsTypeOK /\ ReceiptsTypeOK
  /\ CreationTypeOK /\ ConversationsTypeOK /\ MessagesTypeOK
  /\ KeysTypeOK /\ UploadsTypeOK /\ BroadcastsTypeOK /\ SetupTypeOK
=============================================================================
