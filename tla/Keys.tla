--------------------------------- MODULE Keys ---------------------------------
(***************************************************************************)
(* EncryptionService: the identity keys, signed prekeys and one-time       *)
(* prekeys of two devices, one with the keys the seed gave it and one      *)
(* without.                                                                *)
(*                                                                         *)
(* No handler sets the id of a key it uploads, so all such rows have the   *)
(* nil id and a table holds one of them at a time (field nil).  Clients    *)
(* choose key_ids that are not in use; those of the seed's one-time        *)
(* prekeys are 1 and 2 (it has five), and 0 is that of an uploaded one.    *)
(***************************************************************************)
EXTENDS Handlers

VARIABLES
  identity,  \* identity_keys
  signed,    \* signed_prekeys
  onetime,   \* onetime_prekeys: the unconsumed
  used,      \* onetime_prekeys: the consumed
  picked     \* the one-time prekey each request has selected, NoKey before

keys == <<identity, signed, onetime, used, picked>>

Devices == {"seeded", "fresh"}
Row(d, isNil) == [device |-> d, nil |-> isNil, active |-> TRUE]
NoKey == 9

KeysInit ==
  /\ identity = {Row("seeded", FALSE)}
  /\ signed = {Row("seeded", FALSE)}
  /\ onetime = {1, 2}
  /\ used = {}
  /\ picked = [r \in Requests |-> NoKey]

NilFree(table) == \A k \in table : ~k.nil

Inactive(table, k) == (table \ {k}) \union {[k EXCEPT !.active = FALSE]}

AsksKeys(r, operation) ==
  /\ Arrive(r, "keys", operation, operation)
  /\ UNCHANGED keys

-----------------------------------------------------------------------------
(* Identity keys.                                                          *)

AskIdentity(r) == AsksKeys(r, "createIdentity")

(* The transaction of a DELETE and an INSERT, which may violate the        *)
(* primary key.                                                            *)
CreateIdentityKey(r) ==
  /\ pc[r] = "createIdentity"
  /\ \E d \in Devices :
       LET others == {k \in identity : k.device # d} IN
       /\ identity' = IF NilFree(others) THEN others \union {Row(d, TRUE)} ELSE identity
       /\ Goto(r, IF NilFree(others) THEN "ok" ELSE "failed")
  /\ UNCHANGED <<signed, onetime, used, picked>>

AskEndIdentity(r) == AsksKeys(r, "endIdentity")

(* DeactivateIdentityKey and DeleteIdentityKey.                            *)
EndIdentityKey(r) ==
  /\ pc[r] = "endIdentity"
  /\ \/ /\ \E k \in identity : identity' \in {identity \ {k}, Inactive(identity, k)}
        /\ Goto(r, "ok")
     \/ /\ identity = {}
        /\ UNCHANGED identity
        /\ Goto(r, "failed")
  /\ UNCHANGED <<signed, onetime, used, picked>>

-----------------------------------------------------------------------------
(* Signed prekeys.                                                         *)

AskSigned(r) == AsksKeys(r, "createSigned")

CreateSignedPreKey(r) ==
  /\ pc[r] = "createSigned"
  /\ \E d \in Devices :
       signed' = IF NilFree(signed) THEN signed \union {Row(d, TRUE)} ELSE signed
  /\ Goto(r, IF NilFree(signed) THEN "ok" ELSE "failed")
  /\ UNCHANGED <<identity, onetime, used, picked>>

AskRotate(r) == AsksKeys(r, "rotate")

Rotated(d) == {[k EXCEPT !.active = @ /\ k.device # d] : k \in signed}

(* The transaction of an UPDATE and an INSERT, rolled back when the INSERT *)
(* violates the primary key.                                               *)
RotateSignedPreKey(r) ==
  /\ pc[r] = "rotate"
  /\ \E d \in Devices :
       signed' = IF NilFree(signed) THEN Rotated(d) \union {Row(d, TRUE)} ELSE signed
  /\ Goto(r, IF NilFree(signed) THEN "ok" ELSE "failed")
  /\ UNCHANGED <<identity, onetime, used, picked>>

AskEndSigned(r) == AsksKeys(r, "endSigned")

DeactivateSignedPreKey(r) ==
  /\ pc[r] = "endSigned"
  /\ \E k \in signed : signed' = Inactive(signed, k)
  /\ Goto(r, "ok")
  /\ UNCHANGED <<identity, onetime, used, picked>>

-----------------------------------------------------------------------------
(* One-time prekeys.                                                       *)

AskUpload(r) == AsksKeys(r, "upload")

(* The transaction of one INSERT for each key of the request; the second   *)
(* has the id of the first.                                                *)
UploadOneTimePreKeys(r) ==
  /\ pc[r] = "upload"
  /\ \E n \in 0 .. 2 :
       LET good == n = 0 \/ (n = 1 /\ 0 \notin onetime \union used) IN
       /\ onetime' = IF good /\ n = 1 THEN onetime \union {0} ELSE onetime
       /\ Goto(r, IF good THEN "ok" ELSE "failed")
  /\ UNCHANGED <<identity, signed, used, picked>>

AskPreKey(r) == AsksKeys(r, "consume")

(* The oldest comes first; the uploaded one has the zero time.  A bundle   *)
(* goes without a prekey when there is none.                               *)
SelectOneTimePreKey(r) ==
  /\ pc[r] = "consume"
  /\ \/ /\ onetime = {}
        /\ Goto(r, IF op[r] = "bundle" THEN "ok" ELSE "failed")
        /\ UNCHANGED picked
     \/ \E k \in onetime :
          /\ \A l \in onetime : k <= l
          /\ picked' = [picked EXCEPT ![r] = k]
          /\ Goto(r, "use")
  /\ UNCHANGED <<identity, signed, onetime, used>>

(* Slip: the prekey is not marked.                                         *)
UseWithoutMark(r) ==
  /\ pc[r] = "use"
  /\ Goto(r, "ok")
  /\ UNCHANGED keys

(* The UPDATE names the row by its id alone.                               *)
UseOneTimePreKey(r) ==
  /\ pc[r] = "use"
  /\ onetime' = onetime \ {picked[r]}
  /\ used' = used \union {picked[r]}
  /\ Goto(r, "ok")
  /\ UNCHANGED <<identity, signed, picked>>

-----------------------------------------------------------------------------
(* Key bundles, of the seeded device.                                      *)

(* The caller owns the device it names.                                    *)
AskBundle(r) ==
  /\ Arrive(r, "keys", "bundle", "identity")
  /\ UNCHANGED keys

GetIdentityKey(r) ==
  /\ pc[r] = "identity"
  /\ Goto(r, IF Row("seeded", TRUE) \in identity \/ Row("seeded", FALSE) \in identity
             THEN "signed" ELSE "failed")
  /\ UNCHANGED keys

GetActiveSignedPreKey(r) ==
  /\ pc[r] = "signed"
  /\ Goto(r, IF Row("seeded", TRUE) \in signed \/ Row("seeded", FALSE) \in signed
             THEN "consume" ELSE "failed")
  /\ UNCHANGED keys

KeysStep(r) ==
  \/ AskIdentity(r) \/ CreateIdentityKey(r) \/ AskEndIdentity(r) \/ EndIdentityKey(r)
  \/ AskSigned(r) \/ CreateSignedPreKey(r) \/ AskRotate(r) \/ RotateSignedPreKey(r)
  \/ AskEndSigned(r) \/ DeactivateSignedPreKey(r)
  \/ AskUpload(r) \/ UploadOneTimePreKeys(r)
  \/ AskPreKey(r) \/ SelectOneTimePreKey(r) \/ UseOneTimePreKey(r)
  \/ AskBundle(r) \/ GetIdentityKey(r) \/ GetActiveSignedPreKey(r)

KeysNext == \E r \in Requests : KeysStep(r)

-----------------------------------------------------------------------------
(* What keys promise.                                                      *)

KeysTypeOK ==
  /\ identity \cup signed \subseteq [device : Devices, nil : BOOLEAN, active : BOOLEAN]
  /\ \A t \in {identity, signed} : Cardinality({k \in t : k.nil}) <= 1
  /\ onetime \subseteq 0 .. 2
  /\ used \subseteq 0 .. 2
  /\ onetime \intersect used = {}
  /\ picked \in [Requests -> 0 .. 2 \union {NoKey}]

(* A one-time prekey is given to two clients only if their requests        *)
(* overlapped.                                                             *)
PreKeyTwiceOnlyByOverlap ==
  \A q, r \in Requests :
    q # r /\ pc[q] = "ok" /\ pc[r] = "ok" /\ picked[q] # NoKey /\ picked[q] = picked[r]
      => q \in met[r]

(* The device of the seed has an active signed prekey until one is         *)
(* deactivated: no rotation leaves it without, whether it succeeds or not. *)
RotationKeepsAKey ==
  (\E k \in signed : k.device = "seeded" /\ k.active)
    \/ \E r \in Requests : op[r] = "endSigned" /\ pc[r] = "ok"

(* GetOneTimePreKey and RotateSignedPreKey: no key twice, no device        *)
(* without one.                                                            *)
KeysHold == PreKeyTwiceOnlyByOverlap /\ RotationKeepsAKey
=============================================================================
