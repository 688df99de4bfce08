----------------------------- MODULE ChatProofs -----------------------------
(***************************************************************************)
(* Proofs about conversations and their creation, messages and receipts.   *)
(***************************************************************************)
EXTENDS AccountProofs, FiniteSetTheorems, WellFoundedInduction

-----------------------------------------------------------------------------
(* The creation of conversations.                                          *)

CreationAct(r) == CreationStep(r) \/ (Stops(r) /\ op[r] = "other" /\ UNCHANGED creation)

LEMMA CreationFrame ==
  [Next]_vars =>
    /\ service = "creation" => (\E r \in Requests : CreationAct(r)) \/ UNCHANGED <<handling, creation>>
    /\ service # "creation" => UNCHANGED creation
  BY DEF Next, CreationNext, Stop, vars, CreationAct

(* A creation is somewhere between two of its statements.                  *)
Bound        == {"insert", "owner", "member", "restore", "giveUp"}
CreateLabels == {"begin", "swap", "commit", "rollback"} \union Bound

Wrote(r, what, t) == [of |-> r, what |-> what, in |-> t] \in written

(* Transactions are of creations that are active, so a change that did not *)
(* go to the pool met one.                                                 *)
ChangesInv ==
  /\ CreationTypeOK
  /\ \A r \in Requests :
       /\ pc[r] \in CreateLabels => Creates(r)
       /\ Creates(r) => pc[r] \in CreateLabels \union {"ok", "failed"}
       /\ pc[r] = "statement" => op[r] = "other"
       /\ tx[r] = "open" => Creates(r) /\ pc[r] \in CreateLabels
       /\ pc[r] = "begin" \/ ~ Creates(r) => tx[r] = "none"
       /\ op[r] = "other" /\ pc[r] = "ok" =>
            Wrote(r, "change", Nobody) \/ \E q \in met[r] : op[q] = "createConversation"

(* A creation that meets no other: whose the repository is, what each      *)
(* statement of an open transaction has left, and what was committed.      *)
IsWhole(r) ==
  /\ pc[r] \in Bound => repo = r
  /\ \A what, t : Wrote(r, what, t) => t = r /\ what \in Whole
  /\ pc[r] \in {"owner", "member", "restore", "commit"} /\ tx[r] = "open" => Wrote(r, "conversation", r)
  /\ pc[r] \in {"member", "restore", "commit"} /\ tx[r] = "open" => Wrote(r, "OWNER", r)
  /\ pc[r] \in {"restore", "commit"} /\ tx[r] = "open" => Wrote(r, "MEMBER", r)
  /\ tx[r] = "committed" => \A what \in Whole : Wrote(r, what, r)
  /\ pc[r] = "ok" => tx[r] = "committed"

CreationInv ==
  /\ \A r \in Requests : Creates(r) /\ MetNoCreation(r) => IsWhole(r)
  /\ \A r \in Requests : op[r] = "none" => \A what, t : ~ Wrote(r, what, t)

(* While no two creations overlap, the next one finds the pool's.          *)
Alone == \A r \in Requests : Creates(r) => MetNoCreation(r)

PoolInv ==
  /\ repo # Nobody => Creates(repo) /\ pc[repo] \in Bound
  /\ \A r \in Requests : Creates(r) /\ pc[r] \in {"swap"} \union Bound => saved[r] = Nobody

LEMMA CreationOthers ==
  ASSUME HandlersInv, NEW r \in Requests, CreationAct(r)
  PROVE  \A q \in Requests \ {r} : pc'[q] = pc[q] /\ op'[q] = op[q]
  BY HandlersStep, CreationMoves, StopsMoves DEF CreationAct, handling

LEMMA CreationKinds ==
  ASSUME HandlersInv, ChangesInv, NEW r \in Requests, CreationAct(r)
  PROVE  \/ BeginCreate(r) \/ SwapRepo(r) \/ InsertConversation(r) \/ AddParticipants(r)
         \/ RestoreRepo(r) \/ EndCreate(r) \/ Abandon(r) \/ Statement(r)
         \/ /\ UNCHANGED creation /\ op[r] # "createConversation"
            /\ \/ op'[r] = "createConversation" /\ pc'[r] = "begin"
               \/ op'[r] = "other" /\ pc'[r] \in {"statement", "failed"}
            /\ op[r] \in {"none", "other"}
  <1> USE DEF HandlersInv, Goto, FailsOnTo, Arrive
  <1>1. CASE Stops(r) /\ op[r] = "other" /\ UNCHANGED creation
    BY <1>1 DEF Stops
  <1>2. CASE CreateConversation(r)
    BY <1>2 DEF CreateConversation
  <1>3. CASE OtherRequest(r)
    BY <1>3 DEF OtherRequest
  <1>4. QED
    BY <1>1, <1>2, <1>3 DEF CreationAct, CreationStep

LEMMA Refusing ==
  ASSUME CreationTypeOK, NEW r \in Requests, NEW next, Refused(r, next)
  PROVE  /\ CreationTypeOK' /\ UNCHANGED <<repo, saved, written>>
         /\ \A q \in Requests : tx'[q] = tx[q] \/ (tx[q] = "open" /\ tx'[q] = "aborted")
         /\ repo \in Requests => tx'[repo] # "open"
  <1>1. UNCHANGED <<repo, saved, written>>
    BY DEF Refused
  <1>2. CASE Usable(repo) /\ repo # Nobody
    <2>1. repo \in Requests /\ tx[repo] = "open" /\ tx' = [tx EXCEPT ![repo] = "aborted"]
      BY <1>2 DEF Refused, Usable
    <2>2. QED
      BY <1>1, <2>1 DEF CreationTypeOK
  <1>3. CASE ~ (Usable(repo) /\ repo # Nobody)
    <2>1. tx' = tx
      BY <1>3 DEF Refused
    <2>2. repo \in Requests => tx[repo] # "open"
      BY <1>3, HandlersAssumption DEF Usable
    <2>3. QED
      BY <1>1, <2>1, <2>2 DEF CreationTypeOK
  <1>4. QED
    BY <1>2, <1>3

LEMMA Inserting ==
  ASSUME CreationTypeOK, NEW r \in Requests, NEW next, NEW what \in Whole \union {"change"}, Insert(r, what, next)
  PROVE  /\ CreationTypeOK' /\ UNCHANGED <<repo, saved, tx>>
         /\ \A o, x, t : Wrote(o, x, t)' <=> Wrote(o, x, t) \/ (o = r /\ x = what /\ t = repo)
         /\ repo \in Requests => tx[repo] = "open"
  <1>1. PICK w : w = [of |-> r, what |-> what, in |-> repo]
    OBVIOUS
  <1>2. w \in [of : Requests, what : Whole \union {"change"}, in : Requests \union {Nobody}]
    BY <1>1 DEF CreationTypeOK
  <1>3. written' = written \union {w} /\ UNCHANGED <<repo, saved, tx>>
    BY <1>1 DEF Insert
  <1>4. \A o, x, t : [of |-> o, what |-> x, in |-> t] = w <=> o = r /\ x = what /\ t = repo
    BY <1>1
  <1>5. \A o, x, t : Wrote(o, x, t)' <=> Wrote(o, x, t) \/ (o = r /\ x = what /\ t = repo)
    BY <1>3, <1>4 DEF Wrote
  <1>6. repo \in Requests => tx[repo] = "open"
    BY HandlersAssumption DEF Insert, Usable
  <1>7. QED
    BY <1>2, <1>3, <1>5, <1>6 DEF CreationTypeOK

LEMMA ChangesStep ==
  ASSUME HandlersInv, HandlersInv', Grows, ChangesInv, NEW r \in Requests, CreationAct(r)
  PROVE  ChangesInv'
  <1>1. \A q \in Requests \ {r} : pc'[q] = pc[q] /\ op'[q] = op[q]
    BY CreationOthers
  <1>2. \A q \in Requests : (\E p \in met[q] : op[p] = "createConversation")
                              => \E p \in met'[q] : op'[p] = "createConversation"
    BY DEF Grows, HandlersInv
  <1>3. Nobody \notin Requests
    BY HandlersAssumption
  <1>4. ASSUME CreationTypeOK',
               \A q \in Requests : \/ tx'[q] = tx[q]
                                   \/ tx[q] \in {"open", "aborted"} /\ tx'[q] # "open"
                                   \/ q = r /\ Creates(r) /\ pc'[r] # "begin",
               \A q \in Requests : \A what : Wrote(q, what, Nobody) => Wrote(q, what, Nobody)',
               \/ Creates(r) /\ Creates(r)' /\ pc'[r] \in CreateLabels \ {"begin"}
               \/ Creates(r) /\ Creates(r)' /\ pc'[r] \in {"ok", "failed"} /\ tx'[r] # "open"
               \/ ~ Creates(r) /\ Creates(r)' /\ pc'[r] = "begin"
               \/ /\ ~ Creates(r) /\ op'[r] = "other" /\ pc'[r] \in {"statement", "failed", "ok"}
                  /\ pc'[r] = "ok" => Wrote(r, "change", Nobody)' \/ \E q \in met[r] : op[q] = "createConversation"
        PROVE  ChangesInv'
    <2>1. ASSUME NEW q \in Requests \ {r}
          PROVE  /\ tx'[q] = "open" => Creates(q)' /\ pc'[q] \in CreateLabels
                 /\ pc'[q] = "begin" \/ ~ Creates(q)' => tx'[q] = "none"
      BY <1>1, <1>4, <2>1 DEF ChangesInv, Creates
    <2>2. /\ tx'[r] = "open" => Creates(r)' /\ pc'[r] \in CreateLabels
          /\ pc'[r] = "begin" \/ ~ Creates(r)' => tx'[r] = "none"
      BY <1>4 DEF ChangesInv, Creates, CreateLabels, Bound
    <2>3. QED
      BY <1>1, <1>2, <1>4, <2>1, <2>2 DEF ChangesInv, Creates, CreateLabels, Bound
  <1>5. CreationTypeOK
    BY DEF ChangesInv
  <1>6. ASSUME Creates(r), op' = op, tx' = tx, written' = written, CreationTypeOK',
               pc'[r] \in CreateLabels \ {"begin"}
        PROVE  ChangesInv'
    BY <1>4, <1>6 DEF Wrote, Creates
  <1>7. CASE BeginCreate(r)
    <2>1. /\ Creates(r) /\ op' = op /\ pc'[r] = "swap" /\ written' = written /\ repo' = repo
          /\ tx' = [tx EXCEPT ![r] = "open"] /\ saved' = [saved EXCEPT ![r] = repo]
      BY <1>7 DEF BeginCreate, Goto, ChangesInv, CreateLabels, HandlersInv
    <2>2. CreationTypeOK'
      BY <1>5, <2>1 DEF CreationTypeOK
    <2>3. \A q \in Requests : tx'[q] = IF q = r THEN "open" ELSE tx[q]
      BY <1>5, <2>1 DEF CreationTypeOK
    <2>4. QED
      BY <1>4, <2>1, <2>2, <2>3 DEF Wrote, Creates, CreateLabels
  <1>8. CASE SwapRepo(r) \/ RestoreRepo(r)
    <2>1. /\ Creates(r) /\ op' = op /\ tx' = tx /\ written' = written
          /\ pc'[r] \in CreateLabels \ {"begin"}
      BY <1>8 DEF SwapRepo, RestoreRepo, Goto, ChangesInv, CreateLabels, Bound, HandlersInv
    <2>2. CreationTypeOK'
      BY <1>5, <1>8 DEF CreationTypeOK, SwapRepo, RestoreRepo
    <2>3. QED
      BY <1>6, <2>1, <2>2
  <1>9. ASSUME NEW what \in Whole, NEW next \in CreateLabels \ {"begin"}, NEW instead \in CreateLabels \ {"begin"},
               Creates(r), Insert(r, what, next) \/ Refused(r, instead)
        PROVE  ChangesInv'
    <2>1. op' = op /\ pc'[r] \in CreateLabels \ {"begin"}
      BY <1>9 DEF Insert, Refused, Goto, HandlersInv
    <2>2. CASE Insert(r, what, next)
      <3>1. /\ CreationTypeOK' /\ tx' = tx
            /\ \A q \in Requests : \A x : Wrote(q, x, Nobody) => Wrote(q, x, Nobody)'
        BY <1>5, <1>9, <2>2, Inserting
      <3>2. QED
        BY <1>4, <1>9, <2>1, <3>1 DEF Creates
    <2>3. CASE Refused(r, instead)
      <3>1. /\ CreationTypeOK' /\ written' = written
            /\ \A q \in Requests : tx'[q] = tx[q] \/ (tx[q] = "open" /\ tx'[q] = "aborted")
        BY <1>5, <2>3, Refusing
      <3>2. QED
        BY <1>4, <1>9, <2>1, <3>1 DEF Creates, Wrote
    <2>4. QED
      BY <1>9, <2>2, <2>3
  <1>10. CASE InsertConversation(r)
    BY <1>9, <1>10 DEF InsertConversation, ChangesInv, CreateLabels, Bound, Whole
  <1>11. CASE AddParticipants(r)
    BY <1>9, <1>11 DEF AddParticipants, ChangesInv, CreateLabels, Bound, Whole
  <1>12. CASE EndCreate(r)
    <2>1. PICK end \in {"committed", "undone"} : tx' = [tx EXCEPT ![r] = end]
      BY <1>12 DEF EndCreate
    <2>2. /\ Creates(r) /\ op' = op /\ written' = written /\ repo' = repo /\ saved' = saved
          /\ pc'[r] \in {"ok", "failed"}
      BY <1>12 DEF EndCreate, Goto, ChangesInv, CreateLabels, HandlersInv
    <2>3. /\ CreationTypeOK'
          /\ \A q \in Requests : tx'[q] = IF q = r THEN end ELSE tx[q]
      BY <1>5, <2>1, <2>2 DEF CreationTypeOK
    <2>4. QED
      BY <1>4, <2>1, <2>2, <2>3 DEF Creates, Wrote
  <1>13. CASE Abandon(r)
    <2>1. /\ op' = op /\ pc' = pc /\ written' = written /\ repo' = repo /\ saved' = saved
          /\ tx' = [tx EXCEPT ![r] = "undone"] /\ tx[r] \in {"open", "aborted"} /\ met' = met
      BY <1>13 DEF Abandon, handling
    <2>2. /\ CreationTypeOK' /\ Creates(r) /\ pc[r] # "begin"
          /\ \A q \in Requests : tx'[q] = IF q = r THEN "undone" ELSE tx[q]
      BY <1>5, <2>1 DEF CreationTypeOK, ChangesInv
    <2>3. QED
      BY <1>5, <2>1, <2>2 DEF ChangesInv, Creates, Wrote
  <1>14. CASE Statement(r)
    <2>1. pc[r] = "statement" /\ op[r] = "other" /\ op' = op /\ pc'[r] \in {"ok", "failed"}
      BY <1>14 DEF Statement, Insert, Refused, Goto, ChangesInv, HandlersInv
    <2>2. CASE Insert(r, "change", "ok")
      <3>1. /\ CreationTypeOK' /\ tx' = tx
            /\ \A q \in Requests : \A x : Wrote(q, x, Nobody) => Wrote(q, x, Nobody)'
            /\ repo = Nobody => Wrote(r, "change", Nobody)'
            /\ repo \in Requests => tx[repo] = "open"
        BY <1>5, <2>2, Inserting
      <3>2. repo \in Requests => repo \in met[r] /\ op[repo] = "createConversation"
        BY <2>1, <3>1 DEF ChangesInv, Creates, HandlersInv, Active, CreateLabels, Bound
      <3>3. repo \in Requests \union {Nobody}
        BY <1>5 DEF CreationTypeOK
      <3>4. QED
        BY <1>4, <2>1, <3>1, <3>2, <3>3 DEF Creates
    <2>3. CASE Refused(r, "failed")
      <3>1. /\ CreationTypeOK' /\ written' = written
            /\ \A q \in Requests : tx'[q] = tx[q] \/ (tx[q] = "open" /\ tx'[q] = "aborted")
        BY <1>5, <2>3, Refusing
      <3>2. pc'[r] = "failed"
        BY <2>3 DEF Refused, Goto, HandlersInv
      <3>3. QED
        BY <1>4, <2>1, <3>1, <3>2 DEF Creates, Wrote
    <2>4. QED
      BY <1>14, <2>2, <2>3 DEF Statement
  <1>15. CASE /\ UNCHANGED creation /\ op[r] # "createConversation"
              /\ \/ op'[r] = "createConversation" /\ pc'[r] = "begin"
                 \/ op'[r] = "other" /\ pc'[r] \in {"statement", "failed"}
              /\ op[r] \in {"none", "other"}
    BY <1>4, <1>5, <1>15 DEF creation, CreationTypeOK, Wrote, Creates
  <1>16. QED
    BY <1>7, <1>8, <1>10, <1>11, <1>12, <1>13, <1>14, <1>15, CreationKinds

LEMMA AloneBefore ==
  ASSUME HandlersInv, Grows
  PROVE  /\ \A r \in Requests : Creates(r) /\ MetNoCreation(r)' => MetNoCreation(r)
         /\ Alone' => Alone
  BY DEF Alone, MetNoCreation, Creates, Grows, HandlersInv

(* A creation is active together only with those it has met.               *)
LEMMA AloneActive ==
  ASSUME HandlersInv, NEW q \in Requests, NEW r \in Requests,
         Creates(q), MetNoCreation(q), Creates(r), Active(q), Active(r)
  PROVE  q = r
  BY DEF MetNoCreation, HandlersInv

(* What a step of request r leaves of another, and who moves the           *)
(* repository.                                                             *)
LEMMA CreationSpares ==
  ASSUME HandlersInv, ChangesInv, NEW r \in Requests, CreationAct(r)
  PROVE  /\ \A q \in Requests \ {r} :
              /\ saved'[q] = saved[q]
              /\ tx'[q] = tx[q] \/ (tx[q] = "open" /\ tx'[q] = "aborted")
              /\ \A what, t : Wrote(q, what, t)' <=> Wrote(q, what, t)
         /\ repo' = repo \/ (Creates(r) /\ pc[r] \in CreateLabels)
  <1>1. CreationTypeOK
    BY DEF ChangesInv
  <1>2. CASE BeginCreate(r) \/ SwapRepo(r) \/ RestoreRepo(r) \/ EndCreate(r) \/ Abandon(r)
    <2>1. /\ written' = written
          /\ \A q \in Requests \ {r} : saved'[q] = saved[q] /\ tx'[q] = tx[q]
      BY <1>1, <1>2 DEF BeginCreate, SwapRepo, RestoreRepo, EndCreate, Abandon, CreationTypeOK
    <2>2. repo' = repo \/ (Creates(r) /\ pc[r] \in CreateLabels)
      BY <1>2 DEF BeginCreate, SwapRepo, RestoreRepo, EndCreate, Abandon, ChangesInv, CreateLabels, Bound
    <2>3. QED
      BY <2>1, <2>2 DEF Wrote
  <1>3. ASSUME NEW what \in Whole \union {"change"}, NEW next, Insert(r, what, next)
        PROVE  /\ UNCHANGED <<repo, saved, tx>>
               /\ \A q \in Requests \ {r} : \A x, t : Wrote(q, x, t)' <=> Wrote(q, x, t)
    BY <1>1, <1>3, Inserting
  <1>4. ASSUME NEW next, Refused(r, next)
        PROVE  /\ UNCHANGED <<repo, saved, written>>
               /\ \A q \in Requests : tx'[q] = tx[q] \/ (tx[q] = "open" /\ tx'[q] = "aborted")
    BY <1>1, <1>4, Refusing
  <1>5. CASE InsertConversation(r) \/ AddParticipants(r) \/ Statement(r)
    <2>1. \/ \E what \in Whole \union {"change"} : \E next : Insert(r, what, next)
          \/ \E next : Refused(r, next)
      BY <1>5 DEF InsertConversation, AddParticipants, Statement, Whole
    <2>2. QED
      BY <1>3, <1>4, <2>1 DEF Wrote
  <1>6. CASE UNCHANGED creation
    BY <1>6 DEF creation, Wrote
  <1>7. QED
    BY <1>2, <1>5, <1>6, CreationKinds

(* A creation that meets no other makes a statement of its own.            *)
LEMMA WholeStep ==
  ASSUME HandlersInv, Grows, ChangesInv, CreationInv, NEW r \in Requests, CreationAct(r),
         Creates(r)', MetNoCreation(r)'
  PROVE  IsWhole(r)'
  <1>1. Nobody \notin Requests /\ CreationTypeOK
    BY HandlersAssumption DEF ChangesInv
  <1>2. Creates(r) => IsWhole(r)
    BY AloneBefore DEF CreationInv
  <1>3. op[r] = "other" => op'[r] # "createConversation"
    BY DEF HandlersInv, Grows
  <1>4. CASE BeginCreate(r)
    <2>1. /\ pc[r] = "begin" /\ Creates(r) /\ pc'[r] = "swap" /\ written' = written
          /\ tx[r] = "none" /\ tx' = [tx EXCEPT ![r] = "open"]
      BY <1>4 DEF BeginCreate, Goto, ChangesInv, CreateLabels, HandlersInv
    <2>2. tx'[r] = "open"
      BY <1>1, <2>1 DEF CreationTypeOK
    <2>3. QED
      BY <1>2, <2>1, <2>2 DEF IsWhole, Bound, Wrote
  <1>5. CASE SwapRepo(r)
    <2>1. /\ pc[r] = "swap" /\ Creates(r) /\ pc'[r] = "insert" /\ repo' = r
          /\ UNCHANGED <<saved, tx, written>>
      BY <1>5 DEF SwapRepo, Goto, ChangesInv, CreateLabels, HandlersInv
    <2>2. QED
      BY <1>2, <2>1 DEF IsWhole, Bound, Wrote
  <1>6. CASE RestoreRepo(r)
    <2>1. /\ pc[r] \in Bound /\ Creates(r) /\ pc[r] \in {"restore", "giveUp"}
          /\ pc'[r] = IF pc[r] = "restore" THEN "commit" ELSE "rollback"
          /\ UNCHANGED <<tx, written>>
      BY <1>6 DEF RestoreRepo, Goto, ChangesInv, CreateLabels, Bound, HandlersInv
    <2>2. QED
      BY <1>2, <2>1 DEF IsWhole, Bound, Wrote
  <1>7. ASSUME NEW what \in Whole, NEW next, Creates(r), pc[r] \in Bound,
               Insert(r, what, next),
               \/ pc[r] = "insert" /\ what = "conversation" /\ next = "owner"
               \/ pc[r] = "owner" /\ what = "OWNER" /\ next = "member"
               \/ pc[r] = "member" /\ what = "MEMBER" /\ next = "restore"
        PROVE  IsWhole(r)'
    <2>1. pc'[r] = next
      BY <1>7 DEF Insert, Goto, HandlersInv
    <2>2. repo = r /\ IsWhole(r)
      BY <1>2, <1>7 DEF IsWhole
    <2>3. /\ UNCHANGED <<repo, saved, tx>> /\ tx[r] = "open"
          /\ \A o, x, t : Wrote(o, x, t)' <=> Wrote(o, x, t) \/ (o = r /\ x = what /\ t = r)
      BY <1>1, <1>7, <2>2, Inserting
    <2>4. \A x, t : Wrote(r, x, t)' <=> Wrote(r, x, t) \/ (x = what /\ t = r)
      BY <2>3
    <2>5. QED
      BY <1>7, <2>1, <2>2, <2>3, <2>4 DEF IsWhole, Bound
  <1>8. ASSUME NEW next \in Bound, Creates(r), pc[r] \in {"insert", "owner", "member"}, Refused(r, next)
        PROVE  IsWhole(r)'
    <2>1. pc'[r] = next
      BY <1>8 DEF Refused, Goto, HandlersInv
    <2>2. repo = r /\ IsWhole(r)
      BY <1>2, <1>8 DEF IsWhole, Bound
    <2>3. /\ UNCHANGED <<repo, saved, written>> /\ tx'[r] # "open"
          /\ tx'[r] = tx[r] \/ (tx[r] = "open" /\ tx'[r] = "aborted")
      BY <1>1, <1>8, <2>2, Refusing
    <2>4. \A x, t : Wrote(r, x, t)' <=> Wrote(r, x, t)
      BY <2>3 DEF Wrote
    <2>5. pc'[r] # "ok"
      BY <1>8, <2>1 DEF Bound
    <2>6. QED
      BY <1>8, <2>1, <2>2, <2>3, <2>4, <2>5 DEF IsWhole, Bound
  <1>9. CASE InsertConversation(r)
    <2>1. Creates(r) /\ pc[r] = "insert"
      BY <1>9 DEF InsertConversation, ChangesInv, CreateLabels, Bound
    <2>2. QED
      BY <1>7, <1>8, <1>9, <2>1 DEF InsertConversation, Bound, Whole
  <1>10. CASE AddParticipants(r)
    <2>1. Creates(r) /\ pc[r] \in {"owner", "member"}
      BY <1>10 DEF AddParticipants, ChangesInv, CreateLabels, Bound
    <2>2. CASE pc[r] = "owner"
      BY <1>7, <1>8, <1>10, <2>1, <2>2 DEF AddParticipants, Bound, Whole
    <2>3. CASE pc[r] = "member"
      BY <1>7, <1>8, <1>10, <2>1, <2>3 DEF AddParticipants, Bound, Whole
    <2>4. QED
      BY <2>1, <2>2, <2>3
  <1>11. CASE EndCreate(r)
    <2>1. PICK good \in BOOLEAN : good = (pc[r] = "commit" /\ tx[r] = "open")
      OBVIOUS
    <2>2. /\ pc[r] \in {"commit", "rollback"} /\ Creates(r) /\ UNCHANGED <<repo, saved, written>>
          /\ pc'[r] = (IF good THEN "ok" ELSE "failed")
          /\ tx' = [tx EXCEPT ![r] = IF good THEN "committed" ELSE "undone"]
      BY <1>11, <2>1 DEF EndCreate, Goto, ChangesInv, CreateLabels, HandlersInv
    <2>3. tx'[r] = IF good THEN "committed" ELSE "undone"
      BY <1>1, <2>2 DEF CreationTypeOK
    <2>4. \A x, t : Wrote(r, x, t)' <=> Wrote(r, x, t)
      BY <2>2 DEF Wrote
    <2>5. CASE good
      <3>1. pc[r] = "commit" /\ tx[r] = "open" /\ pc'[r] = "ok" /\ tx'[r] = "committed"
        BY <2>1, <2>2, <2>3, <2>5
      <3>2. QED
        BY <1>2, <2>2, <2>4, <3>1 DEF IsWhole, Bound, Whole
    <2>6. CASE ~ good
      <3>1. pc'[r] = "failed" /\ tx'[r] = "undone"
        BY <2>2, <2>3, <2>6
      <3>2. QED
        BY <1>2, <2>2, <2>4, <3>1 DEF IsWhole, Bound
    <2>7. QED
      BY <2>5, <2>6
  <1>12. CASE Abandon(r)
    <2>1. /\ op' = op /\ pc' = pc /\ UNCHANGED <<repo, saved, written>>
          /\ tx' = [tx EXCEPT ![r] = "undone"] /\ tx[r] \in {"open", "aborted"}
      BY <1>12 DEF Abandon, handling
    <2>2. tx'[r] = "undone" /\ IsWhole(r)
      BY <1>1, <1>2, <2>1 DEF CreationTypeOK, Creates
    <2>3. \A x, t : Wrote(r, x, t)' <=> Wrote(r, x, t)
      BY <2>1 DEF Wrote
    <2>4. QED
      BY <2>1, <2>2, <2>3 DEF IsWhole
  <1>13. CASE Statement(r)
    <2>1. op[r] = "other"
      BY <1>13 DEF Statement, ChangesInv
    <2>2. QED
      BY <1>3, <2>1 DEF Creates
  <1>14. CASE /\ UNCHANGED creation /\ op[r] # "createConversation"
              /\ \/ op'[r] = "createConversation" /\ pc'[r] = "begin"
                 \/ op'[r] = "other" /\ pc'[r] \in {"statement", "failed"}
              /\ op[r] \in {"none", "other"}
    <2>1. op[r] = "none" /\ pc'[r] = "begin" /\ tx[r] = "none"
      BY <1>3, <1>14 DEF Creates, ChangesInv
    <2>2. QED
      BY <1>14, <2>1 DEF creation, CreationInv, IsWhole, Bound, Wrote
  <1>15. QED
    BY <1>4, <1>5, <1>6, <1>9, <1>10, <1>11, <1>12, <1>13, <1>14, CreationKinds

(* A step of another request does not touch it: a creation that would move *)
(* the repository is not active with it.                                   *)
LEMMA CreationInvStep ==
  ASSUME HandlersInv, Grows, ChangesInv, CreationInv, NEW r \in Requests, CreationAct(r)
  PROVE  CreationInv'
  <1>1. \A q \in Requests \ {r} : pc'[q] = pc[q] /\ op'[q] = op[q]
    BY CreationOthers
  <1>2. ASSUME NEW q \in Requests \ {r}, Creates(q)', MetNoCreation(q)' PROVE IsWhole(q)'
    <2>1. Creates(q) /\ MetNoCreation(q) /\ IsWhole(q)
      BY <1>1, <1>2, AloneBefore DEF Creates, CreationInv
    <2>2. pc[q] \in Bound => repo' = q
      <3>1. \A p \in {q, r} : pc[p] \in CreateLabels => Active(p)
        BY DEF CreateLabels, Bound, Active
      <3>2. pc[q] \in Bound => repo' = repo
        BY <2>1, <3>1, CreationSpares, AloneActive DEF CreateLabels
      <3>3. QED
        BY <2>1, <3>2 DEF IsWhole
    <2>3. QED
      BY <1>1, <2>1, <2>2, CreationSpares DEF IsWhole, Bound
  <1>3. (\A q \in Requests : op[q] = "none" => \A what, t : ~ Wrote(q, what, t))'
    <2>1. op'[r] # "none"
      <3>1. CASE op[r] \in {"createConversation", "other"}
        BY <3>1 DEF HandlersInv, Grows
      <3>2. CASE op[r] \notin {"createConversation", "other"}
        <4>1. pc[r] \notin CreateLabels \union {"statement"} /\ tx[r] = "none"
          BY <3>2 DEF ChangesInv, Creates
        <4>2. QED
          BY <4>1, CreationKinds DEF BeginCreate, SwapRepo, InsertConversation, AddParticipants, RestoreRepo,
                                     EndCreate, Abandon, Statement, CreateLabels, Bound
      <3>3. QED
        BY <3>1, <3>2
    <2>2. QED
      BY <1>1, <2>1, CreationSpares DEF CreationInv
  <1>4. QED
    BY <1>2, <1>3, WholeStep DEF CreationInv

LEMMA PoolStep ==
  ASSUME HandlersInv, Grows, ChangesInv, CreationInv, Alone, PoolInv, NEW r \in Requests, CreationAct(r)
  PROVE  PoolInv'
  <1>1. \A q \in Requests \ {r} : pc'[q] = pc[q] /\ op'[q] = op[q]
    BY CreationOthers
  <1>2. Nobody \notin Requests /\ repo \in Requests \union {Nobody} /\ CreationTypeOK
    BY HandlersAssumption DEF ChangesInv, CreationTypeOK
  <1>3. ASSUME repo' = repo, repo = r => Creates(r)' /\ pc'[r] \in Bound,
               Creates(r)' /\ pc'[r] \in {"swap"} \union Bound => saved'[r] = Nobody
        PROVE  PoolInv'
    BY <1>1, <1>2, <1>3, CreationSpares DEF PoolInv, Creates
  <1>4. ASSUME Creates(r), pc[r] \in CreateLabels
        PROVE  /\ \A q \in Requests \ {r} : pc[q] \notin CreateLabels
               /\ IsWhole(r)
    <2>1. \A q \in Requests : pc[q] \in CreateLabels => Active(q) /\ Creates(q)
      BY DEF ChangesInv, CreateLabels, Bound, Active
    <2>2. QED
      BY <1>4, <2>1, AloneActive DEF Alone, CreationInv
  <1>5. CASE BeginCreate(r)
    <2>1. /\ pc[r] = "begin" /\ Creates(r) /\ op' = op /\ pc'[r] = "swap" /\ repo' = repo
          /\ saved' = [saved EXCEPT ![r] = repo]
      BY <1>5 DEF BeginCreate, Goto, ChangesInv, CreateLabels, HandlersInv
    <2>2. repo = Nobody
      BY <1>2, <1>4, <2>1 DEF PoolInv, CreateLabels, Bound
    <2>3. saved'[r] = Nobody
      BY <1>2, <2>1, <2>2 DEF CreationTypeOK
    <2>4. QED
      BY <1>2, <1>3, <2>1, <2>2, <2>3
  <1>6. CASE SwapRepo(r)
    <2>1. /\ pc[r] = "swap" /\ Creates(r) /\ op' = op /\ pc'[r] = "insert" /\ repo' = r /\ saved' = saved
      BY <1>6 DEF SwapRepo, Goto, ChangesInv, CreateLabels, HandlersInv
    <2>2. QED
      BY <1>1, <2>1 DEF PoolInv, Creates, Bound
  <1>7. CASE RestoreRepo(r)
    <2>1. /\ pc[r] \in Bound /\ pc[r] \in {"restore", "giveUp"} /\ Creates(r) /\ op' = op
          /\ pc'[r] \in {"commit", "rollback"}
          /\ repo' = saved[r] /\ saved' = [saved EXCEPT ![r] = Nobody]
      BY <1>7 DEF RestoreRepo, Goto, ChangesInv, CreateLabels, Bound, HandlersInv
    <2>2. repo' = Nobody
      BY <2>1 DEF PoolInv
    <2>3. QED
      BY <1>1, <2>1, <2>2, CreationSpares DEF PoolInv, Creates, Bound
  <1>8. CASE InsertConversation(r) \/ AddParticipants(r)
    <2>1. /\ repo' = repo /\ saved' = saved /\ op' = op /\ pc[r] \in Bound /\ Creates(r) /\ pc'[r] \in Bound
      BY <1>8 DEF InsertConversation, AddParticipants, Insert, Refused, Goto, ChangesInv, CreateLabels, Bound,
                  HandlersInv
    <2>2. QED
      BY <1>3, <2>1 DEF PoolInv, Creates
  <1>9. CASE EndCreate(r)
    <2>1. /\ pc[r] \in {"commit", "rollback"} /\ pc'[r] \in {"ok", "failed"} /\ UNCHANGED <<repo, saved>>
      BY <1>9 DEF EndCreate, Goto, HandlersInv
    <2>2. QED
      BY <1>2, <1>3, <2>1 DEF PoolInv, Bound
  <1>10. CASE Abandon(r)
    BY <1>10 DEF Abandon, handling, PoolInv, Creates
  <1>11. CASE Statement(r)
    <2>1. /\ op[r] = "other" /\ op' = op /\ UNCHANGED <<repo, saved>>
      BY <1>11 DEF Statement, Insert, Refused, Goto, ChangesInv
    <2>2. QED
      BY <1>2, <1>3, <2>1 DEF PoolInv, Creates
  <1>12. CASE /\ UNCHANGED creation /\ op[r] # "createConversation"
              /\ \/ op'[r] = "createConversation" /\ pc'[r] = "begin"
                 \/ op'[r] = "other" /\ pc'[r] \in {"statement", "failed"}
              /\ op[r] \in {"none", "other"}
    <2>1. UNCHANGED <<repo, saved>> /\ repo # r /\ pc'[r] \notin {"swap"} \union Bound
      BY <1>2, <1>12 DEF creation, PoolInv, Creates, Bound
    <2>2. QED
      BY <1>2, <1>3, <2>1
  <1>13. QED
    BY <1>5, <1>6, <1>7, <1>8, <1>9, <1>10, <1>11, <1>12, CreationKinds

(* Between the behaviours of this service the repository is the pool's.    *)
AllOfCreation ==
  /\ service = "creation" => ChangesInv /\ CreationInv /\ (Alone => PoolInv)
  /\ service # "creation" => repo = Nobody

LEMMA CreationInitially == Init => AllOfCreation
  <1> SUFFICES ASSUME Init PROVE AllOfCreation
    OBVIOUS
  <1>1. /\ \A r \in Requests : op[r] = "none" /\ pc[r] = "new" /\ tx[r] = "none"
        /\ repo = Nobody /\ \A r, what, t : ~ Wrote(r, what, t)
    BY DEF Init, HandlersInit, CreationInit, Wrote
  <1>2. CreationTypeOK
    BY DEF Init, CreationInit, CreationTypeOK
  <1>3. ChangesInv
    BY <1>1, <1>2 DEF ChangesInv, Creates, CreateLabels, Bound
  <1>4. CreationInv /\ PoolInv
    BY <1>1 DEF CreationInv, PoolInv, Creates
  <1>5. QED
    BY <1>1, <1>3, <1>4 DEF AllOfCreation

LEMMA CreationNextInv ==
  HandlersInv /\ HandlersInv' /\ Grows /\ AllOfCreation /\ [Next]_vars => AllOfCreation'
  <1> SUFFICES ASSUME HandlersInv, HandlersInv', Grows, AllOfCreation, [Next]_vars
               PROVE  AllOfCreation'
    OBVIOUS
  <1>1. service' = service
    BY DEF Grows
  <1>2. CASE service # "creation"
    BY <1>1, <1>2, CreationFrame DEF AllOfCreation, creation
  <1>3. CASE service = "creation" /\ UNCHANGED <<handling, creation>>
    BY <1>1, <1>3 DEF AllOfCreation, handling, creation, ChangesInv, CreationInv, IsWhole, Alone, Creates,
                      MetNoCreation, PoolInv, CreationTypeOK, Wrote
  <1>4. CASE service = "creation" /\ \E r \in Requests : CreationAct(r)
    <2>1. PICK r \in Requests : CreationAct(r)
      BY <1>4
    <2>2. ChangesInv'
      BY <1>4, <2>1, ChangesStep DEF AllOfCreation
    <2>3. CreationInv' /\ (Alone' => PoolInv')
      BY <1>4, <2>1, AloneBefore, CreationInvStep, PoolStep DEF AllOfCreation
    <2>4. QED
      BY <1>1, <1>4, <2>2, <2>3 DEF AllOfCreation
  <1>5. QED
    BY <1>2, <1>3, <1>4, CreationFrame

LEMMA Creating == Spec => []AllOfCreation
  BY Requesting, CreationInitially, CreationNextInv, HandlersNext, PTL DEF Spec

(* A change that was answered is stored, unless the creation of a           *)
(* conversation was active together with it: only a creation's transaction  *)
(* can take another request's statement and lose it.                        *)
THEOREM LossNeedsCreation == Spec => []ChangeLostOnlyToCreation
  <1>1. HandlersInv /\ AllOfCreation => ChangeLostOnlyToCreation
    <2> SUFFICES ASSUME HandlersInv, AllOfCreation, NEW r \in Requests, op[r] = "other", pc[r] = "ok"
                 PROVE  "change" \in Stored(r) \/ \E q \in met[r] : Creates(q)
      BY DEF ChangeLostOnlyToCreation
    <2>1. service = "creation"
      BY DEF HandlersInv, Belongs, BesideCall, Marks
    <2>2. ASSUME Wrote(r, "change", Nobody) PROVE "change" \in Stored(r)
      BY <2>2 DEF Wrote, Stored, Committed
    <2>3. QED
      BY <2>1, <2>2 DEF AllOfCreation, ChangesInv, Creates
  <1>2. QED
    BY <1>1, Requesting, Creating, PTL

(* A creation that no other one overlaps is stored whole or not at all, and *)
(* whole if it was answered, whatever its statements met, whenever its      *)
(* client went away and however overlapping creations before it left the    *)
(* repository; and where none overlap, after the last the repository is the *)
(* pool's again.                                                            *)
THEOREM CreationsAreWhole == Spec => []CreatedAsOne
  <1>1. HandlersInv /\ AllOfCreation => CreatedAsOne
    <2> SUFFICES ASSUME HandlersInv, AllOfCreation PROVE CreatedAsOne
      OBVIOUS
    <2>1. ASSUME NEW r \in Requests, Creates(r), MetNoCreation(r)
          PROVE  Stored(r) \in {{}, Whole} /\ (pc[r] = "ok" => Stored(r) = Whole)
      <3>1. service = "creation"
        BY <2>1 DEF HandlersInv, Belongs, BesideCall, Marks, Creates
      <3>2. IsWhole(r) /\ CreationTypeOK /\ r # Nobody
        BY <2>1, <3>1, HandlersAssumption DEF AllOfCreation, ChangesInv, CreationInv
      <3>3. \A w \in written : w = [of |-> w.of, what |-> w.what, in |-> w.in]
        BY <3>2 DEF CreationTypeOK
      <3>4. \A w \in written : w.of = r => w.in = r /\ w.what \in Whole
        BY <3>2, <3>3 DEF IsWhole, Wrote
      <3>5. CASE tx[r] = "committed"
        <4>1. ASSUME NEW what \in Whole PROVE what \in Stored(r)
          <5>1. PICK w \in written : w = [of |-> r, what |-> what, in |-> r]
            BY <3>2, <3>5 DEF IsWhole, Wrote
          <5>2. w.of = r /\ w.what = what /\ w.in = r /\ Committed(r)
            BY <3>5, <5>1 DEF Committed
          <5>3. QED
            BY <5>2 DEF Stored
        <4>2. Stored(r) = Whole
          BY <3>4, <4>1 DEF Stored
        <4>3. QED
          BY <4>2
      <3>6. CASE tx[r] # "committed"
        <4>1. ~ Committed(r)
          BY <3>2, <3>6 DEF Committed
        <4>2. Stored(r) = {} /\ pc[r] # "ok"
          BY <3>2, <3>4, <3>6, <4>1 DEF Stored, IsWhole
        <4>3. QED
          BY <4>2
      <3>7. QED
        BY <3>5, <3>6
    <2>2. ASSUME \A r \in Requests : Creates(r) => MetNoCreation(r) /\ ~ Active(r) PROVE repo = Nobody
      <3>1. service = "creation" => repo \in Requests \union {Nobody}
        BY DEF AllOfCreation, ChangesInv, CreationTypeOK
      <3>2. QED
        BY <2>2, <3>1 DEF AllOfCreation, Alone, PoolInv, Bound, Active
    <2>3. QED
      BY <2>1, <2>2 DEF CreatedAsOne
  <1>2. QED
    BY <1>1, Requesting, Creating, PTL

-----------------------------------------------------------------------------
(* Counting answers.                                                       *)

Answers(r, o) == op'[r] = o /\ pc'[r] = "ok"

(* The answered requests after a step: the one that moved may be a new one. *)
LEMMA AnsweredStep ==
  ASSUME HandlersInv, NEW r \in Requests, Moves(r), NEW o, IsFiniteSet(Answered(o))
  PROVE  /\ IsFiniteSet(Answered(o)') /\ Cardinality(Answered(o)) \in Nat
         /\ Cardinality(Answered(o))' = IF Answers(r, o) THEN Cardinality(Answered(o)) + 1
                                        ELSE Cardinality(Answered(o))
  <1>1. /\ \A q \in Requests \ {r} : pc'[q] = pc[q] /\ op'[q] = op[q]
        /\ pc[r] \notin {"ok", "failed"}
    BY HandlersStep DEF Moves, Arrive, Active
  <1>2. r \notin Answered(o)
    BY <1>1 DEF Answered
  <1>3. Cardinality(Answered(o)) \in Nat
    BY FS_CardinalityType
  <1>4. CASE Answers(r, o)
    <2>1. Answered(o)' = Answered(o) \union {r}
      BY <1>1, <1>4 DEF Answered, Answers
    <2>2. QED
      BY <1>2, <1>3, <1>4, <2>1, FS_AddElement
  <1>5. CASE ~ Answers(r, o)
    <2>1. Answered(o)' = Answered(o)
      BY <1>1, <1>5 DEF Answered, Answers
    <2>2. QED
      BY <1>3, <1>5, <2>1
  <1>6. QED
    BY <1>4, <1>5

-----------------------------------------------------------------------------
(* Conversations.                                                          *)

ConversationsAct(r) == ConversationsStep(r) \/ (Stops(r) /\ UNCHANGED conversations)

LEMMA ConversationsFrame ==
  [Next]_vars =>
    /\ service = "conversations" =>
         (\E r \in Requests : ConversationsAct(r)) \/ UNCHANGED <<handling, conversations>>
    /\ service # "conversations" => UNCHANGED conversations
  BY DEF Next, ConversationsNext, Stop, vars, ConversationsAct

LEMMA ConversationsActMoves == ASSUME NEW r \in Requests, ConversationsAct(r) PROVE Moves(r)
  BY ConversationsMoves, StopsMoves DEF ConversationsAct

(* Which statement a request of each kind may be at.                       *)
ConversationLabel(r) ==
  /\ pc[r] \in {"read", "write"} => op[r] \in {"subject", "description"}
  /\ pc[r] \in {"increment", "insertSequence", "updateSequence"} => op[r] = "increment"
  /\ pc[r] \in {"invite_link", "delete", "add", "remove", "role", "flag", "readUpTo"} => op[r] = pc[r]

ConversationLabelsInv == \A r \in Requests : ConversationLabel(r)

(* What the step of a request does to the others, and to the sets of       *)
(* requests that were answered.                                            *)
LEMMA ConversationsOthers ==
  ASSUME HandlersInv, NEW r \in Requests, ConversationsAct(r)
  PROVE  /\ \A q \in Requests \ {r} : pc'[q] = pc[q] /\ op'[q] = op[q]
         /\ pc[r] \notin {"ok", "failed"} /\ pc'[r] # "new"
         /\ \A q \in Requests \ {r} : Active(q) => r \in met'[q]
         /\ \A q \in Requests : met[q] \subseteq met'[q]
  <1>1. /\ \A q \in Requests \ {r} : pc'[q] = pc[q] /\ op'[q] = op[q]
        /\ \A q \in Requests : met[q] \subseteq met'[q]
    BY HandlersStep, ConversationsActMoves DEF Grows
  <1>2. pc[r] \notin {"ok", "failed"} /\ pc'[r] # "new"
    BY ConversationsActMoves, Moved DEF Moves, Arrive, Active
  <1>3. \A q \in Requests \ {r} : Active(q) => r \in met'[q]
    <2>1. PICK s, o, l : Arrive(r, s, o, l) \/ (Active(r) /\ (Goto(r, l) \/ FailsOnTo(r, l)))
      BY ConversationsActMoves DEF Moves
    <2>2. CASE Arrive(r, s, o, l)
      BY <2>2 DEF Arrive
    <2>3. CASE Active(r)
      BY <1>1, <2>3 DEF HandlersInv
    <2>4. QED
      BY <2>1, <2>2, <2>3
  <1>4. QED
    BY <1>1, <1>2, <1>3

LEMMA ConversationLabelsStep ==
  ASSUME HandlersInv, ConversationLabelsInv, NEW r \in Requests, ConversationsAct(r)
  PROVE  ConversationLabelsInv'
  <1> USE DEF HandlersInv, Goto, FailsOnTo, Arrive, Asks, Affects, ChangeMember
  <1>1. \A q \in Requests \ {r} : pc'[q] = pc[q] /\ op'[q] = op[q]
    BY ConversationsOthers
  <1>2. SUFFICES ConversationLabel(r)'
    BY <1>1 DEF ConversationLabelsInv, ConversationLabel
  <1>3. ConversationLabel(r)
    BY DEF ConversationLabelsInv
  <1>4. CASE Stops(r)
    BY <1>3, <1>4 DEF Stops, ConversationLabel
  <1>5. CASE UpdateConversation(r) \/ ReadConversation(r) \/ WriteConversation(r)
    BY <1>3, <1>5 DEF UpdateConversation, ReadConversation, WriteConversation, ConversationLabel
  <1>6. CASE AskLink(r) \/ RegenerateInviteLink(r) \/ AskDelete(r) \/ Delete(r)
    BY <1>3, <1>6 DEF AskLink, RegenerateInviteLink, AskDelete, Delete, ConversationLabel
  <1>7. CASE AskAdd(r) \/ AddParticipant(r) \/ AskRemove(r) \/ RemoveParticipant(r)
    BY <1>3, <1>7 DEF AskAdd, AddParticipant, AskRemove, RemoveParticipant, ConversationLabel
  <1>8. CASE AskRole(r) \/ UpdateParticipantRole(r) \/ AskFlag(r) \/ SetFlag(r)
    BY <1>3, <1>8 DEF AskRole, UpdateParticipantRole, AskFlag, SetFlag, ConversationLabel
  <1>9. CASE AskRead(r) \/ UpdateLastReadSequence(r)
    BY <1>3, <1>9 DEF AskRead, UpdateLastReadSequence, ConversationLabel
  <1>10. CASE AskNumber(r) \/ SelectSequence(r) \/ WriteSequence(r) \/ AssignMessageSequence(r)
    BY <1>3, <1>10 DEF AskNumber, SelectSequence, WriteSequence, AssignMessageSequence, ConversationLabel
  <1>11. QED
    BY <1>4, <1>5, <1>6, <1>7, <1>8, <1>9, <1>10 DEF ConversationsAct, ConversationsStep

-----------------------------------------------------------------------------
(* The columns of the conversation.                                        *)

Overtaken(c) ==
  \E p \in Requests : op[p] \in {"subject", "description"} /\ pc[p] = "ok" /\ latest[c] \in met[p]

(* A column differs from what it was last given only where an answered     *)
(* Update met that request; and a struct that is still to be written only  *)
(* where its own request met it.                                           *)
ColumnsInv ==
  /\ conversation = [c \in Columns |-> conversation[c]] /\ latest = [c \in Columns |-> latest[c]]
  /\ struct = [r \in Requests |-> struct[r]]
  /\ \A c \in Columns : conversation[c] = latest[c] \/ Overtaken(c)
  /\ \A r \in Requests : pc[r] = "write" =>
       /\ struct[r] = [c \in Columns |-> struct[r][c]] /\ struct[r][op[r]] = r
       /\ \A c \in Columns \ {op[r]} : struct[r][c] = latest[c] \/ latest[c] \in met[r] \/ Overtaken(c)

(* What a step does to them.                                               *)
LeavesColumns(r) == /\ UNCHANGED <<conversation, latest, struct>>
                    /\ pc'[r] # "write"
GivesLink(r)     == /\ conversation' = [conversation EXCEPT !["invite_link"] = r]
                    /\ latest' = [latest EXCEPT !["invite_link"] = r]
                    /\ struct' = struct /\ pc'[r] # "write"
ReadsColumns(r)  == /\ struct' = [struct EXCEPT ![r] = [conversation EXCEPT ![op[r]] = r]]
                    /\ UNCHANGED <<conversation, latest>> /\ op'[r] = op[r]
                    /\ op[r] \in {"subject", "description"}
WritesColumns(r) == /\ conversation' = struct[r] /\ latest' = [latest EXCEPT ![op[r]] = r]
                    /\ struct' = struct /\ pc[r] = "write" /\ pc'[r] = "ok" /\ op'[r] = op[r]
                    /\ op[r] \in {"subject", "description"}

LEMMA ColumnsKinds ==
  ASSUME HandlersInv, ConversationLabelsInv, NEW r \in Requests, ConversationsAct(r)
  PROVE  LeavesColumns(r) \/ GivesLink(r) \/ ReadsColumns(r) \/ WritesColumns(r)
  <1> USE DEF HandlersInv, Goto, FailsOnTo, Arrive, Asks, Affects, ChangeMember, conversations
  <1>1. ConversationLabel(r)
    BY DEF ConversationLabelsInv
  <1>2. CASE Stops(r) /\ UNCHANGED conversations
    BY <1>2 DEF Stops, LeavesColumns
  <1>3. CASE UpdateConversation(r) \/ AskLink(r) \/ AskDelete(r) \/ Delete(r)
    BY <1>3 DEF UpdateConversation, AskLink, AskDelete, Delete, LeavesColumns
  <1>4. CASE ReadConversation(r)
    BY <1>1, <1>4 DEF ReadConversation, ConversationLabel, ReadsColumns
  <1>5. CASE WriteConversation(r)
    BY <1>1, <1>5 DEF WriteConversation, ConversationLabel, WritesColumns, LeavesColumns
  <1>6. CASE RegenerateInviteLink(r)
    BY <1>6 DEF RegenerateInviteLink, GivesLink, LeavesColumns
  <1>7. CASE AskAdd(r) \/ AddParticipant(r) \/ AskRemove(r) \/ RemoveParticipant(r)
    BY <1>7 DEF AskAdd, AddParticipant, AskRemove, RemoveParticipant, LeavesColumns
  <1>8. CASE AskRole(r) \/ UpdateParticipantRole(r) \/ AskFlag(r) \/ SetFlag(r)
    BY <1>8 DEF AskRole, UpdateParticipantRole, AskFlag, SetFlag, LeavesColumns
  <1>9. CASE AskRead(r) \/ UpdateLastReadSequence(r)
    BY <1>9 DEF AskRead, UpdateLastReadSequence, LeavesColumns
  <1>10. CASE AskNumber(r) \/ SelectSequence(r) \/ WriteSequence(r) \/ AssignMessageSequence(r)
    BY <1>10 DEF AskNumber, SelectSequence, WriteSequence, AssignMessageSequence, LeavesColumns
  <1>11. QED
    BY <1>2, <1>3, <1>4, <1>5, <1>6, <1>7, <1>8, <1>9, <1>10 DEF ConversationsAct, ConversationsStep

LEMMA ColumnsStep ==
  ASSUME HandlersInv, HandlersInv', Grows, ConversationLabelsInv, ColumnsInv,
         NEW r \in Requests, ConversationsAct(r)
  PROVE  ColumnsInv'
  <1>1. /\ \A q \in Requests \ {r} : pc'[q] = pc[q] /\ op'[q] = op[q]
        /\ \A q \in Requests \ {r} : Active(q) => r \in met'[q]
        /\ \A q \in Requests : met[q] \subseteq met'[q]
    BY ConversationsOthers
  <1>2. \A c \in Columns : latest'[c] = latest[c] /\ Overtaken(c) => Overtaken(c)'
    BY <1>1 DEF Overtaken, Grows, Active
  <1>3. /\ conversation = [c \in Columns |-> conversation[c]] /\ latest = [c \in Columns |-> latest[c]]
        /\ struct = [q \in Requests |-> struct[q]]
        /\ \A c \in Columns : conversation[c] = latest[c] \/ Overtaken(c)
    BY DEF ColumnsInv
  <1>4. \A q \in Requests : pc[q] = "write" =>
          /\ struct[q] = [c \in Columns |-> struct[q][c]] /\ struct[q][op[q]] = q
          /\ \A c \in Columns \ {op[q]} : struct[q][c] = latest[c] \/ latest[c] \in met[q] \/ Overtaken(c)
    BY DEF ColumnsInv
  <1>5. CASE LeavesColumns(r)
    BY <1>1, <1>2, <1>3, <1>4, <1>5 DEF LeavesColumns, ColumnsInv
  <1>6. CASE GivesLink(r)
    <2>1. /\ \A c \in Columns : c = "invite_link" => conversation'[c] = r /\ latest'[c] = r
          /\ \A c \in Columns : c # "invite_link" => conversation'[c] = conversation[c] /\ latest'[c] = latest[c]
          /\ conversation' = [c \in Columns |-> conversation'[c]] /\ latest' = [c \in Columns |-> latest'[c]]
      BY <1>3, <1>6 DEF GivesLink
    <2>2. \A q \in Requests : pc'[q] = "write" => q # r /\ pc[q] = "write" /\ op'[q] = op[q] /\ r \in met'[q]
      BY <1>1, <1>6 DEF GivesLink, Active
    <2>3. struct' = struct
      BY <1>6 DEF GivesLink
    <2>4. QED
      BY <1>1, <1>2, <1>3, <1>4, <2>1, <2>2, <2>3 DEF ColumnsInv
  <1>7. CASE ReadsColumns(r)
    <2>1. /\ conversation' = conversation /\ latest' = latest /\ op'[r] = op[r] /\ op[r] \in Columns
          /\ struct'[r] = [conversation EXCEPT ![op[r]] = r]
          /\ \A q \in Requests \ {r} : struct'[q] = struct[q]
          /\ struct' = [q \in Requests |-> struct'[q]]
      BY <1>3, <1>7 DEF ReadsColumns, Columns
    <2>2. /\ struct'[r] = [c \in Columns |-> struct'[r][c]] /\ struct'[r][op[r]] = r
          /\ \A c \in Columns \ {op[r]} : struct'[r][c] = conversation[c]
      BY <1>3, <2>1
    <2>3. QED
      BY <1>1, <1>2, <1>3, <1>4, <2>1, <2>2 DEF ColumnsInv
  <1>8. CASE WritesColumns(r)
    <2>1. /\ conversation' = struct[r] /\ struct' = struct /\ pc[r] = "write" /\ pc'[r] = "ok" /\ op'[r] = op[r]
          /\ op[r] \in Columns /\ op[r] \in {"subject", "description"}
          /\ latest'[op[r]] = r /\ \A c \in Columns \ {op[r]} : latest'[c] = latest[c]
          /\ latest' = [c \in Columns |-> latest'[c]]
      BY <1>3, <1>8 DEF WritesColumns, Columns
    <2>2. /\ conversation' = [c \in Columns |-> conversation'[c]] /\ conversation'[op[r]] = r
          /\ \A c \in Columns \ {op[r]} : conversation'[c] = latest[c] \/ latest[c] \in met[r] \/ Overtaken(c)
      BY <1>4, <2>1
    <2>3. \A c \in Columns \ {op[r]} : latest[c] \in met[r] => Overtaken(c)'
      BY <1>1, <2>1 DEF Overtaken
    <2>4. \A q \in Requests : pc'[q] = "write" => q # r /\ pc[q] = "write" /\ op'[q] = op[q] /\ r \in met'[q]
      BY <1>1, <2>1 DEF Active
    <2>5. QED
      BY <1>1, <1>2, <1>3, <1>4, <2>1, <2>2, <2>3, <2>4 DEF ColumnsInv
  <1>9. QED
    BY <1>5, <1>6, <1>7, <1>8, ColumnsKinds

-----------------------------------------------------------------------------
(* Sequence numbers.                                                       *)

Numbered(q) == op[q] \in {"increment", "message"} /\ pc[q] = "ok"
Doubled(q)  == \E p \in Requests : op[p] = "increment" /\ pc[p] = "ok" /\ q \in met[p]

(* An answered number is at most the sequence's, and less than one that an *)
(* increment is about to write, unless an increment met its request.       *)
NumbersInv ==
  /\ present \in BOOLEAN /\ (~ present => sequence = NoSequence)
  /\ sequence \in Nat \union {NoSequence} /\ number \in [Requests -> Nat]
  /\ \A q \in Requests : present /\ Numbered(q) =>
       sequence # NoSequence /\ (number[q] <= sequence \/ Doubled(q))
  /\ \A p \in Requests : pc[p] = "insertSequence" => number[p] = 1
  /\ \A p \in Requests : pc[p] = "updateSequence" =>
       /\ present => sequence # NoSequence
       /\ \A q \in Requests : Numbered(q) => number[q] < number[p] \/ q \in met[p] \/ Doubled(q)
  /\ \A q, r \in Requests : Numbered(q) /\ Numbered(r) /\ q # r /\ number[q] = number[r] =>
       Doubled(q) \/ Doubled(r)

(* What a step does to them.                                               *)
LeavesNumbers(r) == /\ UNCHANGED <<present, sequence, number>>
                    /\ ~ Numbered(r)' /\ pc'[r] \notin {"insertSequence", "updateSequence"}
DropsSequence(r) == /\ present' = FALSE /\ sequence' = NoSequence /\ number' = number
                    /\ ~ Numbered(r)' /\ pc'[r] \notin {"insertSequence", "updateSequence"}
TakesNumber(r)   == /\ UNCHANGED <<present, sequence>> /\ ~ Numbered(r)'
                    /\ \/ sequence = NoSequence /\ pc'[r] = "insertSequence" /\ number' = [number EXCEPT ![r] = 1]
                       \/ sequence # NoSequence /\ pc'[r] = "updateSequence"
                          /\ number' = [number EXCEPT ![r] = sequence + 1]
StartsSequence(r) == /\ present /\ sequence = NoSequence /\ sequence' = 1
                     /\ pc[r] = "insertSequence" /\ pc'[r] = "ok" /\ UNCHANGED <<present, number>>
SetsSequence(r)   == /\ pc[r] = "updateSequence" /\ pc'[r] = "ok" /\ op'[r] = "increment"
                     /\ sequence' = IF sequence = NoSequence THEN sequence ELSE number[r]
                     /\ UNCHANGED <<present, number>>
SendsMessage(r)   == /\ present /\ present' = present /\ pc[r] = "new" /\ pc'[r] = "ok"
                     /\ sequence' = (IF sequence = NoSequence THEN 1 ELSE sequence + 1)
                     /\ number' = [number EXCEPT ![r] = sequence']

LEMMA NumbersKinds ==
  ASSUME HandlersInv, ConversationLabelsInv, NEW r \in Requests, ConversationsAct(r)
  PROVE  \/ LeavesNumbers(r) \/ DropsSequence(r) \/ TakesNumber(r)
         \/ StartsSequence(r) \/ SetsSequence(r) \/ SendsMessage(r)
  <1> USE DEF HandlersInv, Goto, FailsOnTo, Arrive, Asks, Affects, ChangeMember, conversations, Numbered
  <1>1. ConversationLabel(r)
    BY DEF ConversationLabelsInv
  <1>2. CASE Stops(r) /\ UNCHANGED conversations
    BY <1>2 DEF Stops, LeavesNumbers
  <1>3. CASE UpdateConversation(r) \/ ReadConversation(r) \/ WriteConversation(r)
    BY <1>1, <1>3 DEF UpdateConversation, ReadConversation, WriteConversation, LeavesNumbers, ConversationLabel
  <1>4. CASE AskLink(r) \/ RegenerateInviteLink(r) \/ AskDelete(r)
    BY <1>1, <1>4 DEF AskLink, RegenerateInviteLink, AskDelete, LeavesNumbers, ConversationLabel
  <1>5. CASE Delete(r)
    BY <1>1, <1>5 DEF Delete, DropsSequence, ConversationLabel
  <1>6. CASE AskAdd(r) \/ AddParticipant(r) \/ AskRemove(r) \/ RemoveParticipant(r)
    BY <1>1, <1>6 DEF AskAdd, AddParticipant, AskRemove, RemoveParticipant, LeavesNumbers, ConversationLabel
  <1>7. CASE AskRole(r) \/ UpdateParticipantRole(r) \/ AskFlag(r) \/ SetFlag(r)
    BY <1>1, <1>7 DEF AskRole, UpdateParticipantRole, AskFlag, SetFlag, LeavesNumbers, ConversationLabel
  <1>8. CASE AskRead(r) \/ UpdateLastReadSequence(r) \/ AskNumber(r)
    BY <1>1, <1>8 DEF AskRead, UpdateLastReadSequence, AskNumber, LeavesNumbers, ConversationLabel
  <1>9. CASE SelectSequence(r)
    BY <1>1, <1>9 DEF SelectSequence, TakesNumber, ConversationLabel
  <1>10. CASE WriteSequence(r)
    BY <1>1, <1>10 DEF WriteSequence, StartsSequence, SetsSequence, LeavesNumbers, ConversationLabel
  <1>11. CASE AssignMessageSequence(r)
    BY <1>11 DEF AssignMessageSequence, SendsMessage
  <1>12. QED
    BY <1>2, <1>3, <1>4, <1>5, <1>6, <1>7, <1>8, <1>9, <1>10, <1>11 DEF ConversationsAct, ConversationsStep

LEMMA NumbersStep ==
  ASSUME HandlersInv, HandlersInv', Grows, ConversationLabelsInv, NumbersInv,
         NEW r \in Requests, ConversationsAct(r)
  PROVE  NumbersInv'
  <1>1. /\ \A q \in Requests \ {r} : pc'[q] = pc[q] /\ op'[q] = op[q]
        /\ pc[r] \notin {"ok", "failed"}
        /\ \A q \in Requests \ {r} : Active(q) => r \in met'[q]
        /\ \A q \in Requests : met[q] \subseteq met'[q]
    BY ConversationsOthers
  <1>2. /\ \A q \in Requests : Doubled(q) => Doubled(q)'
        /\ \A q \in Requests \ {r} : Numbered(q)' <=> Numbered(q)
    BY <1>1 DEF Doubled, Numbered
  <1>3. NoSequence = -1
    BY DEF NoSequence
  <1>4. ~ Numbered(r)
    BY <1>1 DEF Numbered
  <1> HIDE DEF NoSequence
  <1>5. CASE LeavesNumbers(r)
    <2>1. /\ present' = present /\ sequence' = sequence /\ number' = number
          /\ ~ Numbered(r)' /\ pc'[r] \notin {"insertSequence", "updateSequence"}
      BY <1>5 DEF LeavesNumbers
    <2>2. QED
      BY <1>1, <1>2, <2>1 DEF NumbersInv
  <1>6. CASE DropsSequence(r)
    <2>1. /\ present' = FALSE /\ sequence' = NoSequence /\ number' = number
          /\ ~ Numbered(r)' /\ pc'[r] \notin {"insertSequence", "updateSequence"}
      BY <1>6 DEF DropsSequence
    <2>2. QED
      BY <1>1, <1>2, <2>1 DEF NumbersInv
  <1>7. CASE TakesNumber(r)
    <2>1. /\ present' = present /\ sequence' = sequence /\ ~ Numbered(r)'
          /\ \A q \in Requests \ {r} : number'[q] = number[q]
          /\ number' \in [Requests -> Nat]
          /\ \/ sequence = NoSequence /\ pc'[r] = "insertSequence" /\ number'[r] = 1
             \/ sequence # NoSequence /\ pc'[r] = "updateSequence" /\ number'[r] = sequence + 1
      BY <1>7 DEF TakesNumber, NumbersInv
    <2>2. \A q \in Requests : Numbered(q) /\ sequence # NoSequence => number[q] < sequence + 1 \/ Doubled(q)
      BY <1>3 DEF NumbersInv
    <2>3. (\A p \in Requests : pc[p] = "updateSequence" =>
            /\ present => sequence # NoSequence
            /\ \A q \in Requests : Numbered(q) => number[q] < number[p] \/ q \in met[p] \/ Doubled(q))'
      BY <1>1, <1>2, <1>4, <2>1, <2>2 DEF NumbersInv
    <2>4. QED
      BY <1>1, <1>2, <1>4, <2>1, <2>3 DEF NumbersInv
  <1>8. CASE StartsSequence(r)
    <2>1. /\ present /\ sequence = NoSequence /\ sequence' = 1
          /\ pc[r] = "insertSequence" /\ pc'[r] = "ok" /\ present' = present /\ number' = number
      BY <1>8 DEF StartsSequence
    <2>2. /\ \A q \in Requests \ {r} : ~ Numbered(q)'
          /\ \A q \in Requests : pc'[q] # "updateSequence"
          /\ number[r] = 1
      BY <1>1, <1>2, <2>1 DEF NumbersInv
    <2>3. QED
      BY <1>1, <1>3, <2>1, <2>2 DEF NumbersInv
  <1>9. CASE SetsSequence(r)
    <2>1. /\ pc[r] = "updateSequence" /\ pc'[r] = "ok" /\ op'[r] = "increment"
          /\ sequence' = IF sequence = NoSequence THEN sequence ELSE number[r]
          /\ present' = present /\ number' = number
      BY <1>9 DEF SetsSequence
    <2>2. \A q \in Requests \ {r} : Numbered(q)' => number[q] < number[r] \/ Doubled(q)'
      BY <1>1, <1>2, <2>1 DEF NumbersInv, Doubled
    <2>3. \A p \in Requests : pc'[p] = "updateSequence" => p # r /\ pc[p] = "updateSequence" /\ r \in met'[p]
      BY <1>1, <2>1 DEF Active
    <2>4. /\ present => sequence # NoSequence
          /\ number \in [Requests -> Nat] /\ sequence' \in Nat \union {NoSequence}
          /\ sequence # NoSequence => sequence' = number[r] /\ sequence' # NoSequence
      BY <1>3, <2>1 DEF NumbersInv
    <2>5. (\A q \in Requests : present /\ Numbered(q) =>
             sequence # NoSequence /\ (number[q] <= sequence \/ Doubled(q)))'
      BY <2>1, <2>2, <2>4
    <2>6. (\A p \in Requests : pc[p] = "updateSequence" =>
            /\ present => sequence # NoSequence
            /\ \A q \in Requests : Numbered(q) => number[q] < number[p] \/ q \in met[p] \/ Doubled(q))'
      BY <1>1, <1>2, <2>1, <2>3, <2>4 DEF NumbersInv
    <2>7. (\A q, p \in Requests : Numbered(q) /\ Numbered(p) /\ q # p /\ number[q] = number[p] =>
             Doubled(q) \/ Doubled(p))'
      BY <1>1, <1>2, <2>1, <2>2, <2>4 DEF NumbersInv
    <2>8. QED
      BY <1>1, <2>1, <2>4, <2>5, <2>6, <2>7 DEF NumbersInv
  <1>10. CASE SendsMessage(r)
    <2>1. /\ present /\ present' = present /\ pc[r] = "new" /\ pc'[r] = "ok"
          /\ sequence' = IF sequence = NoSequence THEN 1 ELSE sequence + 1
          /\ number' = [number EXCEPT ![r] = sequence']
      BY <1>10 DEF SendsMessage
    <2>2. /\ sequence' \in Nat /\ sequence' # NoSequence /\ number' \in [Requests -> Nat]
          /\ number'[r] = sequence' /\ \A q \in Requests \ {r} : number'[q] = number[q]
      BY <1>3, <2>1 DEF NumbersInv
    <2>3. \A q \in Requests \ {r} : Numbered(q)' => number[q] < sequence' \/ Doubled(q)'
      BY <1>2, <1>3, <2>1 DEF NumbersInv
    <2>4. \A p \in Requests : pc'[p] \in {"insertSequence", "updateSequence"} => p # r /\ pc[p] = pc'[p] /\ r \in met'[p]
      BY <1>1, <2>1 DEF Active
    <2>5. (\A q \in Requests : present /\ Numbered(q) =>
             sequence # NoSequence /\ (number[q] <= sequence \/ Doubled(q)))'
      BY <2>2, <2>3 DEF NumbersInv
    <2>6. (\A p \in Requests : pc[p] = "updateSequence" =>
            /\ present => sequence # NoSequence
            /\ \A q \in Requests : Numbered(q) => number[q] < number[p] \/ q \in met[p] \/ Doubled(q))'
      BY <1>1, <1>2, <2>1, <2>2, <2>4 DEF NumbersInv
    <2>7. (\A q, p \in Requests : Numbered(q) /\ Numbered(p) /\ q # p /\ number[q] = number[p] =>
             Doubled(q) \/ Doubled(p))'
      BY <1>1, <1>2, <2>2, <2>3 DEF NumbersInv
    <2>8. QED
      BY <1>1, <2>1, <2>2, <2>4, <2>5, <2>6, <2>7 DEF NumbersInv
  <1>11. QED
    BY <1>5, <1>6, <1>7, <1>8, <1>9, <1>10, NumbersKinds

-----------------------------------------------------------------------------
(* The participant.                                                        *)

MemberRow == [role : Roles, flags : SUBSET Flags, read : 0 .. 1]
Counted   == {"add", "remove", "delete"}

MembersInv ==
  /\ present \in BOOLEAN
  /\ member = Gone \/ member \in MemberRow
  /\ \A o \in Counted : IsFiniteSet(Answered(o))
  /\ AnswersAddUp

(* What a step does to the row and to the answers.                         *)
LeavesRows(r) == /\ UNCHANGED <<present, member>>
                 /\ \A o \in Counted : ~ Answers(r, o)
ChangesRow(r) == /\ present' = present /\ \A o \in Counted : ~ Answers(r, o)
                 /\ \/ member' = Gone /\ member = Gone
                    \/ member' \in MemberRow /\ member # Gone
Joins(r)      == /\ present /\ present' = present /\ member = Gone /\ member' \in MemberRow
                 /\ Answers(r, "add")
Leaves(r)     == /\ present' = present /\ member # Gone /\ member' = Gone
                 /\ Answers(r, "remove")
Disbands(r)   == /\ present' = FALSE /\ member' = Gone
                 /\ present => Answers(r, "delete")
                 /\ ~ present => ~ Answers(r, "delete")

LEMMA JoinIsRow == \A role \in Roles : Join(role) \in MemberRow
  BY DEF Join, MemberRow

LEMMA GoneIsNoRow == Gone \notin MemberRow
  <1>1. Gone.role = "none"
    BY DEF Gone
  <1>2. \A m \in MemberRow : m.role # "none"
    BY DEF MemberRow, Roles
  <1>3. QED
    BY <1>1, <1>2

LEMMA RowsKinds ==
  ASSUME HandlersInv, ConversationLabelsInv, MembersInv, NEW r \in Requests, ConversationsAct(r)
  PROVE  LeavesRows(r) \/ ChangesRow(r) \/ Joins(r) \/ Leaves(r) \/ Disbands(r)
  <1> USE DEF HandlersInv, Goto, FailsOnTo, Arrive, Asks, Affects, conversations, Answers, Counted
  <1>1. ConversationLabel(r)
    BY DEF ConversationLabelsInv
  <1>2. CASE Stops(r) /\ UNCHANGED conversations
    BY <1>2 DEF Stops, LeavesRows
  <1>3. CASE UpdateConversation(r) \/ ReadConversation(r) \/ WriteConversation(r)
    BY <1>1, <1>3 DEF UpdateConversation, ReadConversation, WriteConversation, LeavesRows, ConversationLabel
  <1>4. CASE AskLink(r) \/ RegenerateInviteLink(r) \/ AskDelete(r)
    BY <1>1, <1>4 DEF AskLink, RegenerateInviteLink, AskDelete, LeavesRows, ConversationLabel
  <1>5. CASE Delete(r)
    BY <1>1, <1>5 DEF Delete, Disbands, ConversationLabel
  <1>6. CASE AskAdd(r) \/ AskRemove(r) \/ AskRole(r) \/ AskFlag(r) \/ AskRead(r) \/ AskNumber(r)
    BY <1>6 DEF AskAdd, AskRemove, AskRole, AskFlag, AskRead, AskNumber, LeavesRows
  <1>7. CASE AddParticipant(r)
    BY <1>1, <1>7, JoinIsRow DEF AddParticipant, Joins, LeavesRows, ConversationLabel, MembersInv
  <1>8. CASE RemoveParticipant(r)
    BY <1>1, <1>8 DEF RemoveParticipant, ChangeMember, Leaves, ChangesRow, ConversationLabel
  <1>9. CASE UpdateParticipantRole(r)
    <2>1. PICK role \in Roles : ChangeMember(r, [member EXCEPT !.role = role])
      BY <1>9 DEF UpdateParticipantRole
    <2>2. member \in MemberRow => [member EXCEPT !.role = role] \in MemberRow
      BY DEF MemberRow
    <2>3. QED
      BY <1>1, <1>9, <2>1, <2>2 DEF ChangeMember, ChangesRow, UpdateParticipantRole, ConversationLabel, MembersInv
  <1>10. CASE SetFlag(r)
    <2>1. PICK m : /\ ChangeMember(r, m)
                   /\ \E f \in Flags : m \in {[member EXCEPT !.flags = @ \union {f}],
                                             [member EXCEPT !.flags = @ \ {f}]}
      BY <1>10 DEF SetFlag
    <2>2. member \in MemberRow => m \in MemberRow
      BY <2>1 DEF MemberRow
    <2>3. QED
      BY <1>1, <1>10, <2>1, <2>2 DEF ChangeMember, ChangesRow, SetFlag, ConversationLabel, MembersInv
  <1>11. CASE UpdateLastReadSequence(r)
    <2>1. PICK n \in 0 .. 1 : ChangeMember(r, [member EXCEPT !.read = n])
      BY <1>11 DEF UpdateLastReadSequence
    <2>2. member \in MemberRow => [member EXCEPT !.read = n] \in MemberRow
      BY DEF MemberRow
    <2>3. QED
      BY <1>1, <1>11, <2>1, <2>2 DEF ChangeMember, ChangesRow, UpdateLastReadSequence, ConversationLabel, MembersInv
  <1>12. CASE SelectSequence(r) \/ WriteSequence(r) \/ AssignMessageSequence(r)
    BY <1>1, <1>12 DEF SelectSequence, WriteSequence, AssignMessageSequence, LeavesRows, ConversationLabel
  <1>13. QED
    BY <1>2, <1>3, <1>4, <1>5, <1>6, <1>7, <1>8, <1>9, <1>10, <1>11, <1>12 DEF ConversationsAct, ConversationsStep

LEMMA MembersStep ==
  ASSUME HandlersInv, ConversationLabelsInv, MembersInv, NEW r \in Requests, ConversationsAct(r)
  PROVE  MembersInv'
  <1> DEFINE N(o) == Cardinality(Answered(o))
  <1>1. /\ \A o \in Counted : IsFiniteSet(Answered(o)') /\ N(o) \in Nat
        /\ \A o \in Counted : N(o)' = IF Answers(r, o) THEN N(o) + 1 ELSE N(o)
    BY AnsweredStep, ConversationsActMoves DEF MembersInv
  <1>2. PICK adds, removes, deletes : adds = N("add") /\ removes = N("remove") /\ deletes = N("delete")
    OBVIOUS
  <1>3. PICK adds2, removes2, deletes2 : adds2 = N("add")' /\ removes2 = N("remove")' /\ deletes2 = N("delete")'
    OBVIOUS
  <1>4. /\ adds \in Nat /\ removes \in Nat /\ deletes \in Nat
        /\ adds2 = IF Answers(r, "add") THEN adds + 1 ELSE adds
        /\ removes2 = IF Answers(r, "remove") THEN removes + 1 ELSE removes
        /\ deletes2 = IF Answers(r, "delete") THEN deletes + 1 ELSE deletes
    BY <1>1, <1>2, <1>3 DEF Counted
  <1>5. /\ present => adds + 1 - removes = IF member = Gone THEN 0 ELSE 1
        /\ deletes = IF present THEN 0 ELSE 1
    BY <1>2 DEF MembersInv, AnswersAddUp
  <1>6. present \in BOOLEAN /\ (member = Gone \/ member \in MemberRow)
    BY DEF MembersInv
  <1> HIDE DEF N
  <1>7. /\ present' \in BOOLEAN /\ (member' = Gone \/ member' \in MemberRow)
        /\ present' => adds2 + 1 - removes2 = IF member' = Gone THEN 0 ELSE 1
        /\ deletes2 = IF present' THEN 0 ELSE 1
    <2>1. CASE LeavesRows(r)
      BY <1>4, <1>5, <1>6, <2>1 DEF LeavesRows, Counted
    <2>2. CASE ChangesRow(r)
      BY <1>4, <1>5, <1>6, <2>2, GoneIsNoRow DEF ChangesRow, Counted
    <2>3. CASE Joins(r)
      <3>1. ~ Answers(r, "remove") /\ ~ Answers(r, "delete")
        BY <2>3 DEF Joins, Answers
      <3>2. QED
        BY <1>4, <1>5, <1>6, <2>3, <3>1, GoneIsNoRow DEF Joins
    <2>4. CASE Leaves(r)
      <3>1. ~ Answers(r, "add") /\ ~ Answers(r, "delete")
        BY <2>4 DEF Leaves, Answers
      <3>2. QED
        BY <1>4, <1>5, <1>6, <2>4, <3>1 DEF Leaves
    <2>5. CASE Disbands(r)
      <3>1. present' = FALSE /\ member' = Gone
        BY <2>5 DEF Disbands
      <3>2. deletes2 = 1
        BY <1>4, <1>5, <2>5 DEF Disbands
      <3>3. QED
        BY <3>1, <3>2
    <2>6. QED
      BY <2>1, <2>2, <2>3, <2>4, <2>5, RowsKinds
  <1>8. AnswersAddUp'
    BY <1>3, <1>7 DEF AnswersAddUp, N
  <1>9. QED
    BY <1>1, <1>7, <1>8 DEF MembersInv

-----------------------------------------------------------------------------

ConversationsInv == ConversationLabelsInv /\ ColumnsInv /\ NumbersInv /\ MembersInv

(* In a behaviour of another service, nobody writes to the conversation.   *)
AllOfConversations ==
  /\ service = "conversations" => ConversationsInv
  /\ service # "conversations" => conversation = latest /\ present = TRUE /\ member # Gone

LEMMA ConversationsInitially == Init => AllOfConversations
  <1> SUFFICES ASSUME Init PROVE ConversationsInv /\ conversation = latest /\ present = TRUE /\ member # Gone
    BY DEF AllOfConversations
  <1>1. \A r \in Requests : op[r] = "none" /\ pc[r] = "new"
    BY DEF Init, HandlersInit
  <1>2. /\ present = TRUE /\ conversation = Unset /\ latest = Unset
        /\ struct = [r \in Requests |-> Unset] /\ member = Join("MEMBER")
        /\ sequence \in {NoSequence, 0} /\ number = [r \in Requests |-> 0]
    BY DEF Init, ConversationsInit
  <1>3. ConversationLabelsInv
    BY <1>1 DEF ConversationLabelsInv, ConversationLabel
  <1>4. ColumnsInv
    BY <1>1, <1>2 DEF ColumnsInv, Unset
  <1>5. NumbersInv
    BY <1>1, <1>2 DEF NumbersInv, Numbered
  <1>6. \A o : Answered(o) = {}
    BY <1>1 DEF Answered
  <1>7. member \in MemberRow /\ member # Gone
    BY <1>2, JoinIsRow, GoneIsNoRow DEF Roles
  <1>8. MembersInv
    BY <1>2, <1>6, <1>7, FS_EmptySet DEF MembersInv, AnswersAddUp
  <1>9. QED
    BY <1>2, <1>3, <1>4, <1>5, <1>7, <1>8 DEF ConversationsInv

LEMMA ConversationsNextInv ==
  HandlersInv /\ HandlersInv' /\ Grows /\ AllOfConversations /\ [Next]_vars => AllOfConversations'
  <1> SUFFICES ASSUME HandlersInv, HandlersInv', Grows, AllOfConversations, [Next]_vars, service = "conversations"
               PROVE  ConversationsInv'
    BY ConversationsFrame DEF AllOfConversations, Grows, conversations
  <1>1. CASE \E r \in Requests : ConversationsAct(r)
    BY <1>1, ConversationLabelsStep, ColumnsStep, NumbersStep, MembersStep
       DEF AllOfConversations, ConversationsInv
  <1>2. CASE UNCHANGED <<handling, conversations>>
    <2>1. /\ UNCHANGED <<op, pc, met, present, conversation, latest>>
          /\ UNCHANGED <<struct, member, sequence, number>>
      BY <1>2 DEF handling, conversations
    <2>2. ConversationLabelsInv' /\ ColumnsInv'
      BY <2>1 DEF AllOfConversations, ConversationsInv, ConversationLabelsInv, ConversationLabel, ColumnsInv, Overtaken
    <2>3. NumbersInv'
      BY <2>1 DEF AllOfConversations, ConversationsInv, NumbersInv, Numbered, Doubled
    <2>4. MembersInv'
      BY <2>1 DEF AllOfConversations, ConversationsInv, MembersInv, AnswersAddUp, Answered
    <2>5. QED
      BY <2>2, <2>3, <2>4 DEF ConversationsInv
  <1>3. QED
    BY <1>1, <1>2, ConversationsFrame

LEMMA Conversing == Spec => []AllOfConversations
  BY Requesting, ConversationsInitially, ConversationsNextInv, HandlersNext, PTL DEF Spec

(* An Update loses a column, and an increment gives out a number again,    *)
(* only when it overlapped the request that is wronged; and each answered  *)
(* addition, removal or deletion is one change of the rows.                *)
THEOREM ConversationsKept == Spec => []ConversationsHold
  <1>1. HandlersInv /\ AllOfConversations => ConversationsHold
    <2> SUFFICES ASSUME HandlersInv, AllOfConversations PROVE ConversationsHold
      OBVIOUS
    <2>1. CASE service = "conversations"
      <3>1. ConversationsInv
        BY <2>1 DEF AllOfConversations
      <3>2. ColumnLostOnlyToOverlap
        BY <3>1 DEF ConversationsInv, ColumnsInv, Overtaken, ColumnLostOnlyToOverlap, Answered
      <3>3. NumberTwiceOnlyByOverlap
        <4>1. ASSUME NEW q \in Requests, NEW r \in Requests, Numbered(q), Numbered(r), q # r, number[q] = number[r]
              PROVE  \E p \in Answered("increment") : met[p] \intersect {q, r} # {}
          <5>1. Doubled(q) \/ Doubled(r)
            BY <3>1, <4>1 DEF ConversationsInv, NumbersInv
          <5>2. QED
            BY <5>1 DEF Doubled, Answered
        <4>2. QED
          BY <4>1 DEF NumberTwiceOnlyByOverlap, Answered, Numbered
      <3>4. QED
        BY <3>1, <3>2, <3>3 DEF ConversationsInv, MembersInv, ConversationsHold
    <2>2. CASE service # "conversations"
      <3>1. \A r \in Requests : op[r] \notin {"subject", "description", "increment", "message", "add", "remove", "delete"}
        BY <2>2 DEF HandlersInv, Belongs, BesideCall, Marks
      <3>2. /\ Answered("increment") = {} /\ Answered("message") = {}
            /\ Answered("add") = {} /\ Answered("remove") = {} /\ Answered("delete") = {}
        BY <3>1 DEF Answered
      <3>3. ColumnLostOnlyToOverlap /\ NumberTwiceOnlyByOverlap
        BY <2>2, <3>2 DEF AllOfConversations, ColumnLostOnlyToOverlap, NumberTwiceOnlyByOverlap
      <3>4. AnswersAddUp
        BY <2>2, <3>2, FS_EmptySet DEF AllOfConversations, AnswersAddUp
      <3>5. QED
        BY <3>3, <3>4 DEF ConversationsHold
    <2>3. QED
      BY <2>1, <2>2
  <1>2. QED
    BY <1>1, Requesting, Conversing, PTL

-----------------------------------------------------------------------------
(* What hangs on a message, and the history.                               *)

MessagesAct(r) == MessagesStep(r) \/ (Stops(r) /\ UNCHANGED messages)

LEMMA MessagesFrame ==
  [Next]_vars =>
    /\ service \in {"messages", "hanging"} => (\E r \in Requests : MessagesAct(r)) \/ UNCHANGED <<handling, messages>>
    /\ service \notin {"messages", "hanging"} => UNCHANGED messages
  BY DEF Next, MessagesNext, Stop, vars, MessagesAct

LEMMA MessagesActMoves == ASSUME NEW r \in Requests, MessagesAct(r) PROVE Moves(r)
  BY MessagesMoves, StopsMoves DEF MessagesAct

HangingOps == {"react", "unreact", "star", "unstar", "vote", "unvote", "mention"}

MessageLabel(r) ==
  /\ pc[r] \in HangingOps \union {"send", "softDelete", "hardDelete"} => op[r] = pc[r]
  /\ pc[r] = "page" => op[r] = "history"
  /\ op[r] = "history" => pc[r] \in {"page", "ok", "failed"}
  /\ op[r] \in HangingOps => pc[r] \in {op[r], "ok", "failed"}

MessageLabelsInv == \A r \in Requests : MessageLabel(r)

LEMMA MessagesOthers ==
  ASSUME HandlersInv, NEW r \in Requests, MessagesAct(r)
  PROVE  \A q \in Requests \ {r} : pc'[q] = pc[q] /\ op'[q] = op[q]
  BY HandlersStep, MessagesActMoves

LEMMA MessageLabelsStep ==
  ASSUME HandlersInv, MessageLabelsInv, NEW r \in Requests, MessagesAct(r)
  PROVE  MessageLabelsInv'
  <1> USE DEF HandlersInv, Goto, FailsOnTo, Arrive, HangingOps
  <1>1. \A q \in Requests \ {r} : pc'[q] = pc[q] /\ op'[q] = op[q]
    BY MessagesOthers
  <1>2. SUFFICES MessageLabel(r)'
    BY <1>1 DEF MessageLabelsInv, MessageLabel
  <1>3. MessageLabel(r)
    BY DEF MessageLabelsInv
  <1>4. CASE Stops(r)
    BY <1>3, <1>4 DEF Stops, MessageLabel
  <1>5. CASE AskSend(r) \/ Send(r)
    BY <1>3, <1>5 DEF AskSend, Send, AsksMessage, MessageLabel
  <1>6. CASE AskDeletion(r) \/ SoftDelete(r) \/ HardDelete(r)
    BY <1>3, <1>6 DEF AskDeletion, SoftDelete, HardDelete, WriteMessage, MessageLabel
  <1>7. CASE AskHanging(r) \/ AskHistory(r)
    BY <1>3, <1>7 DEF AskHanging, AskHistory, AsksMessage, MessageLabel
  <1>8. CASE AddReaction(r) \/ RemoveReaction(r) \/ StarMessage(r) \/ UnstarMessage(r)
    BY <1>3, <1>8 DEF AddReaction, RemoveReaction, StarMessage, UnstarMessage, InsertHanging, DeleteHanging, MessageLabel
  <1>9. CASE VotePoll(r) \/ RemoveVote(r) \/ AddMention(r)
    BY <1>3, <1>9 DEF VotePoll, RemoveVote, AddMention, InsertHanging, DeleteHanging, MessageLabel
  <1>10. CASE GetConversationMessages(r)
    BY <1>3, <1>10 DEF GetConversationMessages, MessageLabel
  <1>11. QED
    BY <1>4, <1>5, <1>6, <1>7, <1>8, <1>9, <1>10 DEF MessagesAct, MessagesStep

(* The rows of the messages, and what a step does to them.                 *)
MessageRow(m) == m = [f \in {"there", "seq", "deleted"} |-> m[f]]
Readable(m) == m.there /\ ~ m.deleted

LEMMA SeededFacts ==
  /\ Seeded \subseteq Messages /\ Messages \subseteq Nat \ {0} /\ 1 \in Seeded
  /\ Seeded \subseteq Numbers \ {0}
  /\ Numbers \subseteq Nat /\ 0 \in Numbers
  BY MessagesAssumption DEF Seeded, Messages, Numbers

RowsInv ==
  /\ rows = [i \in Messages |-> rows[i]] /\ \A i \in Messages : MessageRow(rows[i])
  /\ target \in [Requests -> Seeded]

KeepsTargets(r)  == /\ RowsInv'
                    /\ pc[r] # "new" => target'[r] = target[r]
                    /\ \A q \in Requests \ {r} : target'[q] = target[q]
ErasesMessage(r) == /\ op[r] \in Deletions /\ op'[r] = op[r] /\ Active(r)
                    /\ \A j \in Messages : j # target[r] => rows'[j] = rows[j]
                    /\ rows'[target[r]].there => rows[target[r]].there /\ rows'[target[r]].seq = rows[target[r]].seq
AddsMessage      == \E i \in Messages \ Seeded :
                      rows'[i].seq = 0 /\ \A j \in Messages : j # i => rows'[j] = rows[j]

LEMMA MarkedDeleted ==
  ASSUME NEW m, MessageRow(m), NEW w, w = [m EXCEPT !.deleted = TRUE]
  PROVE  MessageRow(w) /\ (w.there <=> m.there) /\ w.seq = m.seq
  <1>1. PICK yes : yes = TRUE
    OBVIOUS
  <1>2. w = [m EXCEPT !.deleted = yes]
    BY <1>1
  <1>3. QED
    BY <1>2 DEF MessageRow

LEMMA Absent == MessageRow(NoMessage) /\ ~ NoMessage.there /\ NoMessage.seq = 0
  <1>1. PICK no : no = FALSE
    OBVIOUS
  <1>2. /\ MessageRow([there |-> no, seq |-> 0, deleted |-> no])
        /\ [there |-> no, seq |-> 0, deleted |-> no].there = no
    BY DEF MessageRow
  <1>3. QED
    BY <1>1, <1>2 DEF NoMessage

LEMMA MessagesKinds ==
  ASSUME HandlersInv, MessageLabelsInv, RowsInv, NEW r \in Requests, MessagesAct(r)
  PROVE  KeepsTargets(r) /\ (rows' = rows \/ ErasesMessage(r) \/ AddsMessage)
  <1> USE DEF HandlersInv, Goto, FailsOnTo, Arrive
  <1>1. /\ MessageLabel(r) /\ target[r] \in Seeded /\ Seeded \subseteq Messages
        /\ MessageRow(rows[target[r]])
    BY SeededFacts DEF MessageLabelsInv, RowsInv
  <1>2. ASSUME UNCHANGED <<rows, target>> PROVE KeepsTargets(r) /\ rows' = rows
    BY <1>2 DEF KeepsTargets, RowsInv, MessageRow
  <1>3. CASE AskDeletion(r)
    <2>1. PICK i \in Seeded : target' = [target EXCEPT ![r] = i]
      BY <1>3 DEF AskDeletion
    <2>2. rows' = rows /\ pc[r] = "new"
      BY <1>3 DEF AskDeletion
    <2>3. RowsInv'
      BY <2>1, <2>2 DEF RowsInv, MessageRow
    <2>4. QED
      BY <2>1, <2>2, <2>3 DEF KeepsTargets, RowsInv
  <1>4. PICK gone : gone = [rows[target[r]] EXCEPT !.deleted = TRUE]
    OBVIOUS
  <1>5. MessageRow(gone) /\ (gone.there <=> rows[target[r]].there) /\ gone.seq = rows[target[r]].seq
    BY <1>1, <1>4, MarkedDeleted
  <1>6. CASE SoftDelete(r) \/ HardDelete(r)
    <2>1. PICK m \in {gone, NoMessage} :
            rows' = IF rows[target[r]].there THEN [rows EXCEPT ![target[r]] = m] ELSE rows
      BY <1>4, <1>6 DEF SoftDelete, HardDelete, WriteMessage
    <2>2. op[r] \in Deletions /\ op' = op /\ Active(r) /\ target' = target
      BY <1>1, <1>6 DEF SoftDelete, HardDelete, WriteMessage, MessageLabel, Deletions, Active
    <2>3. MessageRow(m) /\ (m.there => m.seq = rows[target[r]].seq)
      BY <1>5, <2>1, Absent
    <2>4. /\ rows' = [j \in Messages |-> rows'[j]]
          /\ \A j \in Messages : j # target[r] => rows'[j] = rows[j]
          /\ rows'[target[r]] = IF rows[target[r]].there THEN m ELSE rows[target[r]]
      BY <1>1, <2>1 DEF RowsInv
    <2>5. \A j \in Messages : MessageRow(rows'[j])
      BY <2>3, <2>4 DEF RowsInv
    <2>6. KeepsTargets(r)
      BY <2>2, <2>4, <2>5 DEF KeepsTargets, RowsInv
    <2>7. QED
      BY <2>2, <2>3, <2>4, <2>6 DEF ErasesMessage
  <1>7. CASE Send(r)
    <2>1. PICK i, m : /\ i \in Messages \ Seeded /\ m = [NoMessage EXCEPT !.there = TRUE]
                      /\ rows' = [rows EXCEPT ![i] = m]
      BY <1>7 DEF Send
    <2>2. MessageRow(m) /\ m.seq = 0
      <3>1. PICK yes : yes = TRUE
        OBVIOUS
      <3>2. m = [NoMessage EXCEPT !.there = yes]
        BY <2>1, <3>1
      <3>3. QED
        BY <3>2, Absent DEF MessageRow
    <2>3. /\ rows' = [j \in Messages |-> rows'[j]]
          /\ \A j \in Messages : rows'[j] = IF j = i THEN m ELSE rows[j]
      BY <2>1 DEF RowsInv
    <2>4. (\A j \in Messages : MessageRow(rows'[j])) /\ target' = target
      BY <1>7, <2>2, <2>3 DEF RowsInv, Send
    <2>5. KeepsTargets(r)
      BY <2>3, <2>4 DEF KeepsTargets, RowsInv
    <2>6. i \in Messages \ Seeded
      BY <2>1
    <2>7. rows'[i].seq = 0
      BY <2>2, <2>3, <2>6
    <2>8. \A j \in Messages : j # i => rows'[j] = rows[j]
      BY <2>3
    <2>9. AddsMessage
      BY <2>6, <2>7, <2>8, Zenon DEF AddsMessage
    <2>10. QED
      BY <2>5, <2>9
  <1>8. CASE AskSend(r) \/ AskHanging(r) \/ AskHistory(r) \/ GetConversationMessages(r)
    BY <1>2, <1>8 DEF AskSend, AskHanging, AskHistory, GetConversationMessages, AsksMessage, messages
  <1>9. CASE AddReaction(r) \/ RemoveReaction(r) \/ StarMessage(r) \/ UnstarMessage(r)
    BY <1>2, <1>9 DEF AddReaction, RemoveReaction, StarMessage, UnstarMessage, InsertHanging, DeleteHanging
  <1>10. CASE VotePoll(r) \/ RemoveVote(r) \/ AddMention(r)
    BY <1>2, <1>10 DEF VotePoll, RemoveVote, AddMention, InsertHanging, DeleteHanging
  <1>11. CASE UNCHANGED messages
    BY <1>2, <1>11 DEF messages
  <1>12. QED
    BY <1>3, <1>6, <1>7, <1>8, <1>9, <1>10, <1>11 DEF MessagesAct, MessagesStep

(* The tables of reactions, stars and votes, each with its operations.     *)
HangingTables == {<<"react", "unreact", "reaction">>, <<"star", "unstar", "star">>, <<"vote", "unvote", "vote">>}

HangingInv ==
  /\ \A o \in HangingOps : IsFiniteSet(Answered(o))
  /\ HangingAddsUp

LeavesTable(r, t)  == ~ Answers(r, t[1]) /\ ~ Answers(r, t[2]) /\ (t[3] \in hanging' <=> t[3] \in hanging)
AddsToTable(r, t)  == Answers(r, t[1]) /\ ~ Answers(r, t[2]) /\ t[3] \notin hanging /\ t[3] \in hanging'
TakesFrom(r, t)    == Answers(r, t[2]) /\ ~ Answers(r, t[1]) /\ t[3] \in hanging /\ t[3] \notin hanging'

LEMMA TablesKinds ==
  ASSUME HandlersInv, MessageLabelsInv, RowsInv, NEW r \in Requests, MessagesAct(r),
         rows'[1].there, NEW t \in HangingTables
  PROVE  LeavesTable(r, t) \/ AddsToTable(r, t) \/ TakesFrom(r, t)
  <1> USE DEF HandlersInv, Goto, FailsOnTo, Arrive, Answers, HangingTables
  <1>1. MessageLabel(r) /\ target[r] \in Seeded /\ 1 \in Seeded /\ Seeded \subseteq Messages
    BY SeededFacts DEF MessageLabelsInv, RowsInv
  <1>2. /\ t[1] \in HangingOps /\ t[2] \in HangingOps /\ t[1] # t[2] /\ t[3] # "mention"
        /\ t \in {<<"react", "unreact", "reaction">>, <<"star", "unstar", "star">>, <<"vote", "unvote", "vote">>}
    BY DEF HangingOps
  <1>3. ASSUME hanging' = hanging, op'[r] \notin HangingOps \/ pc'[r] # "ok" PROVE LeavesTable(r, t)
    BY <1>2, <1>3 DEF LeavesTable
  <1>4. CASE Stops(r) /\ UNCHANGED messages
    BY <1>3, <1>4 DEF Stops, messages
  <1>8. ASSUME target[r] = 1, rows' = IF rows[target[r]].there THEN [rows EXCEPT ![target[r]] = NoMessage] ELSE rows
        PROVE  FALSE
    <2>1. rows' = IF rows[1].there THEN [rows EXCEPT ![1] = NoMessage] ELSE rows
      BY <1>8
    <2>2. rows'[1] = IF rows[1].there THEN NoMessage ELSE rows[1]
      BY <1>1, <2>1 DEF RowsInv
    <2>3. QED
      BY <2>2, Absent
  <1>10. CASE SoftDelete(r)
    BY <1>1, <1>3, <1>10 DEF SoftDelete, WriteMessage, MessageLabel, HangingOps
  <1>11. CASE HardDelete(r)
    BY <1>1, <1>3, <1>8, <1>11 DEF HardDelete, WriteMessage, MessageLabel, HangingOps
  <1>12. CASE AskSend(r) \/ Send(r) \/ AskDeletion(r) \/ AskHistory(r) \/ GetConversationMessages(r)
    BY <1>1, <1>3, <1>12 DEF AskSend, Send, AskDeletion, AskHistory, GetConversationMessages, AsksMessage, messages,
       MessageLabel, HangingOps
  <1>13. CASE AskHanging(r)
    BY <1>3, <1>13 DEF AskHanging, AsksMessage, messages
  <1>14. ASSUME NEW o \in HangingOps, op[r] = o, op' = op, NEW table,
                NEW u \in HangingTables, u[1] = o, u[3] = table, InsertHanging(r, o, table)
         PROVE  LeavesTable(r, t) \/ AddsToTable(r, t)
    BY <1>2, <1>14 DEF InsertHanging, LeavesTable, AddsToTable
  <1>15. ASSUME NEW o \in HangingOps, op[r] = o, op' = op, NEW table,
                NEW u \in HangingTables, u[2] = o, u[3] = table, DeleteHanging(r, o, table)
         PROVE  LeavesTable(r, t) \/ TakesFrom(r, t)
    BY <1>2, <1>15 DEF DeleteHanging, LeavesTable, TakesFrom
  <1>16. CASE AddReaction(r) \/ StarMessage(r) \/ VotePoll(r)
    <2>1. op[r] = pc[r] /\ op' = op
      BY <1>1, <1>16 DEF AddReaction, StarMessage, VotePoll, InsertHanging, MessageLabel, HangingOps
    <2>2. PICK u \in HangingTables : pc[r] = u[1] /\ InsertHanging(r, u[1], u[3])
      BY <1>16 DEF AddReaction, StarMessage, VotePoll, InsertHanging
    <2>3. u[1] \in HangingOps
      BY <2>2 DEF HangingOps
    <2>4. QED
      BY <1>14, <2>1, <2>2, <2>3
  <1>17. CASE RemoveReaction(r) \/ UnstarMessage(r) \/ RemoveVote(r)
    <2>1. op[r] = pc[r] /\ op' = op
      BY <1>1, <1>17 DEF RemoveReaction, UnstarMessage, RemoveVote, DeleteHanging, MessageLabel, HangingOps
    <2>2. PICK u \in HangingTables : pc[r] = u[2] /\ DeleteHanging(r, u[2], u[3])
      BY <1>17 DEF RemoveReaction, UnstarMessage, RemoveVote, DeleteHanging
    <2>3. u[2] \in HangingOps
      BY <2>2 DEF HangingOps
    <2>4. QED
      BY <1>15, <2>1, <2>2, <2>3
  <1>18. CASE AddMention(r)
    <2>1. /\ op'[r] = "mention"
          /\ hanging' = hanging \union {"mention"} \/ hanging' = hanging
      BY <1>1, <1>18 DEF AddMention, InsertHanging, MessageLabel, HangingOps
    <2>2. QED
      BY <1>2, <2>1 DEF LeavesTable
  <1>19. QED
    BY <1>4, <1>10, <1>11, <1>12, <1>13, <1>16, <1>17, <1>18
       DEF MessagesAct, MessagesStep

LEMMA HangingStep ==
  ASSUME HandlersInv, MessageLabelsInv, RowsInv, HangingInv, NEW r \in Requests, MessagesAct(r)
  PROVE  HangingInv'
  <1>1. \A o \in HangingOps :
          /\ IsFiniteSet(Answered(o)') /\ Cardinality(Answered(o)) \in Nat
          /\ Cardinality(Answered(o))' = IF Answers(r, o) THEN Cardinality(Answered(o)) + 1
                                         ELSE Cardinality(Answered(o))
    BY AnsweredStep, MessagesActMoves DEF HangingInv
  <1>2. rows'[1].there => rows[1].there
    <2>1. 1 \in Seeded /\ 1 \in Messages /\ \A i \in Messages \ Seeded : i # 1
      BY SeededFacts
    <2>2. QED
      BY <2>1, MessagesKinds DEF ErasesMessage, AddsMessage
  <1>3. ASSUME rows'[1].there, NEW t \in HangingTables
        PROVE  Cardinality(Answered(t[1]))' = Cardinality(Answered(t[2]))' + (IF t[3] \in hanging' THEN 1 ELSE 0)
    <2>1. /\ Cardinality(Answered(t[1])) = Cardinality(Answered(t[2])) + (IF t[3] \in hanging THEN 1 ELSE 0)
          /\ t[1] \in HangingOps /\ t[2] \in HangingOps
      <3>1. t[1] \in HangingOps /\ t[2] \in HangingOps
        BY <1>3 DEF HangingTables, HangingOps
      <3>2. rows[1].there /\ HangingAddsUp
        BY <1>2, <1>3 DEF HangingInv
      <3>3. QED
        BY <1>3, <3>1, <3>2 DEF HangingAddsUp, HangingTables, Answered
    <2>2. PICK a, b, a2, b2 : /\ a = Cardinality(Answered(t[1])) /\ a2 = Cardinality(Answered(t[1]))'
                              /\ b = Cardinality(Answered(t[2])) /\ b2 = Cardinality(Answered(t[2]))'
      OBVIOUS
    <2>3. /\ a \in Nat /\ a2 = IF Answers(r, t[1]) THEN a + 1 ELSE a
          /\ b \in Nat /\ b2 = IF Answers(r, t[2]) THEN b + 1 ELSE b
      BY <1>1, <2>1, <2>2
    <2>4. LeavesTable(r, t) \/ AddsToTable(r, t) \/ TakesFrom(r, t)
      BY <1>3, TablesKinds
    <2>5. a2 = b2 + (IF t[3] \in hanging' THEN 1 ELSE 0)
      BY <2>1, <2>2, <2>3, <2>4 DEF LeavesTable, AddsToTable, TakesFrom
    <2>6. QED
      BY <2>2, <2>5
  <1>4. HangingAddsUp'
    BY <1>3 DEF HangingAddsUp, HangingTables, Answered
  <1>5. QED
    BY <1>1, <1>4 DEF HangingInv

(* The history.  A message is missing from the list only if a request has  *)
(* asked for its deletion.                                                 *)
Touched(i) == \E q \in Requests : op[q] \in Deletions /\ target[q] = i

ListInv ==
  /\ \A i \in Seeded : (rows[i].there => rows[i].seq = i) /\ (Readable(rows[i]) \/ Touched(i))
  /\ \A i \in Messages \ Seeded : rows[i].seq = 0

LEMMA TouchedStays ==
  ASSUME HandlersInv, Grows, RowsInv, MessageLabelsInv, NEW r \in Requests, MessagesAct(r)
  PROVE  \A i \in Seeded : Touched(i) => Touched(i)'
  <1>1. KeepsTargets(r)
    BY MessagesKinds
  <1>2. \A q \in Requests : op[q] \in Deletions => pc[q] # "new"
    BY DEF HandlersInv, Deletions
  <1>3. \A q \in Requests : op[q] \in Deletions => op'[q] = op[q] /\ target'[q] = target[q]
    BY <1>1, <1>2 DEF Grows, KeepsTargets
  <1>4. QED
    BY <1>3 DEF Touched

LEMMA ListStep ==
  ASSUME HandlersInv, Grows, RowsInv, MessageLabelsInv, ListInv, NEW r \in Requests, MessagesAct(r)
  PROVE  ListInv'
  <1>1. KeepsTargets(r)
    BY MessagesKinds
  <1>2. \A i \in Seeded : Touched(i) => Touched(i)'
    BY TouchedStays
  <1>3. Seeded \subseteq Messages /\ target[r] \in Seeded
    BY SeededFacts DEF RowsInv
  <1>4. CASE rows' = rows
    BY <1>2, <1>4 DEF ListInv
  <1>5. CASE ErasesMessage(r)
    <2>1. PICK i \in Seeded : i = target[r] /\ i = target'[r] /\ i \in Messages
      BY <1>1, <1>3, <1>5 DEF ErasesMessage, KeepsTargets, Active
    <2>2. /\ op'[r] \in Deletions
          /\ \A j \in Messages : j # i => rows'[j] = rows[j]
          /\ rows'[i].there => rows[i].there /\ rows'[i].seq = rows[i].seq
      BY <1>5, <2>1 DEF ErasesMessage
    <2>3. Touched(i)'
      BY <2>1, <2>2 DEF Touched
    <2>4. QED
      BY <1>2, <1>3, <2>1, <2>2, <2>3 DEF ListInv
  <1>6. CASE AddsMessage
    <2>1. PICK i \in Messages \ Seeded : rows'[i].seq = 0 /\ \A j \in Messages : j # i => rows'[j] = rows[j]
      BY <1>6 DEF AddsMessage
    <2>2. QED
      BY <1>2, <1>3, <2>1 DEF ListInv
  <1>7. QED
    BY <1>4, <1>5, <1>6, MessagesKinds

(* A reader has been shown nothing twice, nothing of the seed before the   *)
(* point it has reached, and whatever it was offered from that point on,   *)
(* unless a request has asked for its deletion.                            *)
WalkRow == [shown : SUBSET Messages, again : SUBSET Messages, before : Numbers, offered : SUBSET Seeded]

OnItsWay(r) ==
  /\ walk[r].again = {}
  /\ walk[r].before = 0 => walk[r].shown = {}
  /\ \A i \in walk[r].shown : i \in Seeded => walk[r].before <= i
  /\ \A i \in walk[r].offered \ walk[r].shown : Touched(i) \/ walk[r].before = 0 \/ i < walk[r].before

AtItsEnd(r) ==
  /\ walk[r].again = {}
  /\ \A i \in walk[r].offered \ walk[r].shown : Touched(i)

WalkInv ==
  /\ walk \in [Requests -> WalkRow]
  /\ \A r \in Requests : /\ pc[r] = "new" => walk[r] = NoWalk
                         /\ pc[r] = "page" => OnItsWay(r)
                         /\ op[r] = "history" /\ pc[r] = "ok" => AtItsEnd(r)

LEMMA WalkKinds ==
  ASSUME HandlersInv, MessageLabelsInv, NEW r \in Requests, MessagesAct(r)
  PROVE  \/ walk' = walk /\ pc'[r] # "page" /\ ~ Answers(r, "history")
         \/ AskHistory(r)
         \/ GetConversationMessages(r)
  <1> USE DEF HandlersInv, Goto, FailsOnTo, Arrive, Answers
  <1>1. MessageLabel(r)
    BY DEF MessageLabelsInv
  <1>2. CASE Stops(r) /\ UNCHANGED messages
    BY <1>2 DEF Stops, messages
  <1>3. CASE AskSend(r) \/ AskDeletion(r) \/ AskHanging(r)
    BY <1>3 DEF AskSend, AskDeletion, AskHanging, AsksMessage, messages
  <1>4. CASE Send(r) \/ SoftDelete(r) \/ HardDelete(r)
    BY <1>1, <1>4 DEF Send, SoftDelete, HardDelete, WriteMessage, MessageLabel, HangingOps
  <1>5. CASE AddReaction(r) \/ RemoveReaction(r) \/ StarMessage(r) \/ UnstarMessage(r)
    BY <1>1, <1>5 DEF AddReaction, RemoveReaction, StarMessage, UnstarMessage, InsertHanging, DeleteHanging,
       MessageLabel, HangingOps
  <1>6. CASE VotePoll(r) \/ RemoveVote(r) \/ AddMention(r)
    BY <1>1, <1>6 DEF VotePoll, RemoveVote, AddMention, InsertHanging, DeleteHanging, MessageLabel, HangingOps
  <1>7. QED
    BY <1>2, <1>3, <1>4, <1>5, <1>6 DEF MessagesAct, MessagesStep

LEMMA LeastNumber ==
  ASSUME NEW S, S \subseteq Nat, S # {} PROVE \E n \in S : \A k \in S : n <= k
  <1>1. PICK n \in S : \A k \in S : ~ (<<k, n>> \in OpToRel(<, Nat))
    BY NatLessThanWellFounded, WFMin
  <1>2. ASSUME NEW k \in S PROVE n <= k
    <2>1. k \in Nat /\ n \in Nat
      OBVIOUS
    <2>2. ~ (k < n)
      BY <1>1, <2>1 DEF OpToRel
    <2>3. QED
      BY <2>1, <2>2
  <1>3. QED
    BY <1>2

LEMMA MessagesFinite ==
  ASSUME NEW P, P \subseteq Messages PROVE IsFiniteSet(P) /\ Cardinality(P) \in Nat
  <1>1. 1 \in Int /\ MessageCount \in Int
    BY MessagesAssumption
  <1>2. IsFiniteSet(Messages)
    BY <1>1, FS_Interval DEF Messages
  <1>3. QED
    BY <1>2, FS_Subset, FS_CardinalityType

(* A page: its messages are listed, those with a number are older than any *)
(* shown before, and those it leaves out are older still.                  *)
LEMMA PageHolds ==
  ASSUME RowsInv, ListInv, NEW b \in Numbers, NEW P \in Pages(b)
  PROVE  /\ P \subseteq Messages
         /\ \A i \in P : IF i \in Seeded THEN rows[i].seq = i /\ (b = 0 \/ i < b)
                         ELSE rows[i].seq = 0 /\ b = 0
         /\ \A i \in Seeded \ P : Touched(i) \/ (b # 0 /\ b <= i)
              \/ (Cardinality(P) >= PageSize /\ \A j \in P : j \in Seeded => i < j)
  <1>1. /\ P \subseteq Candidates(b)
        /\ Cardinality(P) < PageSize => P = Candidates(b)
        /\ \A i \in P, j \in Candidates(b) \ P : Newer(i, j)
        /\ Cardinality(P) \in Nat /\ PageSize \in Nat
    <2>1. P \subseteq Messages
      BY DEF Pages, Candidates
    <2>2. QED
      BY <2>1, MessagesFinite, MessagesAssumption DEF Pages
  <1>2. \A i \in Candidates(b) : i \in Messages /\ Readable(rows[i]) /\ (b > 0 => rows[i].seq \in 1 .. b - 1)
    BY DEF Candidates, Listed, Readable
  <1>3. \A i \in Messages : Readable(rows[i]) /\ (b > 0 => rows[i].seq \in 1 .. b - 1) => i \in Candidates(b)
    BY DEF Candidates, Listed, Readable
  <1>4. /\ Seeded \subseteq Nat \ {0} /\ Seeded \subseteq Messages
        /\ \A i \in Seeded : Readable(rows[i]) => rows[i].seq = i
        /\ \A i \in Messages \ Seeded : rows[i].seq = 0
    <2>1. Seeded \subseteq Nat \ {0} /\ Seeded \subseteq Messages
      BY SeededFacts
    <2>2. QED
      BY <2>1 DEF ListInv, Readable
  <1>5. \A i \in P : i \in Messages /\ IF i \in Seeded THEN rows[i].seq = i /\ (b = 0 \/ i < b)
                                       ELSE rows[i].seq = 0 /\ b = 0
    <2>1. SUFFICES ASSUME NEW i \in P
                   PROVE  i \in Messages /\ IF i \in Seeded THEN rows[i].seq = i /\ (b = 0 \/ i < b)
                                             ELSE rows[i].seq = 0 /\ b = 0
      OBVIOUS
    <2>2. PICK n : n = rows[i].seq
      OBVIOUS
    <2>3. i \in Messages /\ Readable(rows[i]) /\ (b > 0 => n \in 1 .. b - 1)
      BY <1>1, <1>2, <2>2
    <2>4. IF i \in Seeded THEN n = i ELSE n = 0
      BY <1>4, <2>2, <2>3
    <2>5. b \in Nat /\ (b > 0 => n \in 1 .. b - 1)
      BY <2>3, SeededFacts
    <2>6. IF i \in Seeded THEN n = i /\ (b = 0 \/ i < b) ELSE n = 0 /\ b = 0
      BY <1>4, <2>4, <2>5
    <2>7. QED
      BY <2>2, <2>3, <2>6
  <1>6. ASSUME NEW i \in Seeded \ P, ~ Touched(i), b = 0 \/ i < b
        PROVE  Cardinality(P) >= PageSize /\ \A j \in P : j \in Seeded => i < j
    <2>1. Readable(rows[i]) /\ rows[i].seq = i
      BY <1>4, <1>6 DEF ListInv
    <2>2. i \in Candidates(b)
      <3>1. b \in Nat /\ i \in Nat \ {0}
        BY <1>4, SeededFacts
      <3>2. b > 0 => i \in 1 .. b - 1
        BY <1>6, <3>1
      <3>3. QED
        BY <1>3, <1>4, <2>1, <3>2
    <2>3. ~ (Cardinality(P) < PageSize)
      BY <1>1, <2>2
    <2>4. \A j \in P : Newer(j, i)
      BY <1>1, <2>2
    <2>5. \A j \in P : j \in Seeded => i < j
      BY <1>4, <1>5, <2>1, <2>4 DEF Newer
    <2>6. QED
      BY <1>1, <2>3, <2>5
  <1>7. b \in Nat /\ Seeded \subseteq Nat
    BY SeededFacts
  <1>8. QED
    BY <1>5, <1>6, <1>7

LEMMA WalkStep ==
  ASSUME HandlersInv, Grows, RowsInv, MessageLabelsInv, ListInv, WalkInv,
         NEW r \in Requests, MessagesAct(r)
  PROVE  WalkInv'
  <1>1. /\ \A q \in Requests \ {r} : pc'[q] = pc[q] /\ op'[q] = op[q]
        /\ pc'[r] # "new"
    BY MessagesOthers, MessagesActMoves, Moved
  <1>2. \A i \in Seeded : Touched(i) => Touched(i)'
    BY TouchedStays
  <1>3. walk \in [Requests -> WalkRow]
    BY DEF WalkInv
  <1>4. ASSUME NEW q \in Requests, walk'[q] = walk[q]
        PROVE  (OnItsWay(q) => OnItsWay(q)') /\ (AtItsEnd(q) => AtItsEnd(q)')
    <2>1. walk[q].offered \subseteq Seeded
      BY <1>3 DEF WalkRow
    <2>2. QED
      BY <1>2, <1>4, <2>1 DEF OnItsWay, AtItsEnd
  <1>5. ASSUME \A q \in Requests \ {r} : walk'[q] = walk[q], walk' \in [Requests -> WalkRow],
               pc'[r] = "page" => OnItsWay(r)',
               op'[r] = "history" /\ pc'[r] = "ok" => AtItsEnd(r)'
        PROVE  WalkInv'
    BY <1>1, <1>4, <1>5 DEF WalkInv
  <1>6. CASE walk' = walk /\ pc'[r] # "page" /\ ~ Answers(r, "history")
    BY <1>3, <1>5, <1>6 DEF Answers
  <1>7. CASE AskHistory(r)
    <2>1. PICK offers : offers = {i \in Messages : Listed(i) /\ rows[i].seq # 0}
      OBVIOUS
    <2>2. /\ pc[r] = "new" /\ pc'[r] = "page" /\ walk' = [walk EXCEPT ![r].offered = offers]
      BY <1>7, <2>1 DEF AskHistory, Arrive, HandlersInv
    <2>3. offers \subseteq Seeded
      BY <2>1 DEF ListInv
    <2>4. walk[r] = [shown |-> {}, again |-> {}, before |-> 0, offered |-> {}]
      BY <2>2 DEF WalkInv, NoWalk
    <2>5. walk'[r] = [shown |-> {}, again |-> {}, before |-> 0, offered |-> offers]
      BY <1>3, <2>2, <2>4
    <2>6. [shown |-> {}, again |-> {}, before |-> 0, offered |-> offers] \in WalkRow
      BY <2>3, SeededFacts DEF WalkRow
    <2>7. walk' \in [Requests -> WalkRow] /\ \A q \in Requests \ {r} : walk'[q] = walk[q]
      BY <1>3, <2>2, <2>5, <2>6
    <2>8. OnItsWay(r)'
      BY <2>5 DEF OnItsWay
    <2>9. QED
      BY <1>5, <2>2, <2>7, <2>8
  <1>8. CASE GetConversationMessages(r)
    <2>1. PICK w \in WalkRow : w = walk[r]
      BY <1>3
    <2>2. pc[r] = "page" /\ OnItsWay(r)
      BY <1>8 DEF GetConversationMessages, WalkInv
    <2>3. PICK P \in Pages(walk[r].before) :
            LET numbers == {rows[i].seq : i \in P} \ {0} IN
            /\ walk' = [walk EXCEPT ![r].shown = @ \union P,
                                    ![r].again = @ \union (P \intersect walk[r].shown),
                                    ![r].before = IF numbers = {} THEN 0
                                                  ELSE CHOOSE n \in numbers : \A k \in numbers : n <= k]
            /\ Goto(r, IF Cardinality(P) < PageSize THEN "ok"
                       ELSE IF numbers = {} THEN "failed" ELSE "page")
      BY <1>8 DEF GetConversationMessages
    <2>4. PICK numbers : numbers = {rows[i].seq : i \in P} \ {0}
      OBVIOUS
    <2>5. PICK b : b = IF numbers = {} THEN 0 ELSE CHOOSE n \in numbers : \A k \in numbers : n <= k
      OBVIOUS
    <2>6. PICK v : v = [w EXCEPT !.shown = @ \union P, !.again = @ \union (P \intersect w.shown), !.before = b]
      OBVIOUS
    <2>7. /\ walk' = [walk EXCEPT ![r] = v]
          /\ pc' = [pc EXCEPT ![r] = IF Cardinality(P) < PageSize THEN "ok"
                                     ELSE IF numbers = {} THEN "failed" ELSE "page"]
      <3>1. /\ walk' = [walk EXCEPT ![r].shown = @ \union P,
                                     ![r].again = @ \union (P \intersect walk[r].shown), ![r].before = b]
            /\ pc' = [pc EXCEPT ![r] = IF Cardinality(P) < PageSize THEN "ok"
                                       ELSE IF numbers = {} THEN "failed" ELSE "page"]
        BY <2>3, <2>4, <2>5 DEF Goto
      <3>2. QED
        BY <1>3, <2>1, <2>6, <3>1 DEF WalkRow
    <2>8. /\ w.before \in Numbers /\ P \in Pages(w.before) /\ w.offered \subseteq Seeded
          /\ w.shown \subseteq Messages
      BY <2>1, <2>3 DEF WalkRow
    <2>9. /\ P \subseteq Messages
          /\ \A i \in P : IF i \in Seeded THEN rows[i].seq = i /\ (w.before = 0 \/ i < w.before)
                          ELSE rows[i].seq = 0 /\ w.before = 0
          /\ \A i \in Seeded \ P : Touched(i) \/ (w.before # 0 /\ w.before <= i)
               \/ (Cardinality(P) >= PageSize /\ \A j \in P : j \in Seeded => i < j)
      BY <2>8, PageHolds
    <2>10. /\ Seeded \subseteq Nat \ {0} /\ Seeded \subseteq Numbers /\ 0 \in Numbers
           /\ w.before \in Nat
      BY <2>8, SeededFacts
    <2>11. numbers = P \intersect Seeded
      BY <2>4, <2>9, <2>10
    <2>12. /\ b \in Numbers /\ (numbers = {} => b = 0)
           /\ numbers # {} => b \in numbers /\ \A k \in numbers : b <= k
      <3>1. numbers # {} => \E n \in numbers : \A k \in numbers : n <= k
        BY <2>10, <2>11, LeastNumber
      <3>2. numbers # {} => b \in numbers /\ \A k \in numbers : b <= k
        BY <2>5, <3>1
      <3>3. QED
        BY <2>5, <2>10, <2>11, <3>2
    <2>13. /\ w.again = {} /\ (w.before = 0 => w.shown = {})
           /\ \A i \in w.shown : i \in Seeded => w.before <= i
           /\ \A i \in w.offered \ w.shown : Touched(i) \/ w.before = 0 \/ i < w.before
      BY <2>1, <2>2 DEF OnItsWay
    <2>14. P \intersect w.shown = {}
      <3>1. ASSUME NEW i \in P, i \in w.shown PROVE FALSE
        <4>1. w.before # 0
          BY <2>13, <3>1
        <4>2. i \in Seeded /\ i < w.before /\ w.before <= i
          BY <2>9, <2>13, <3>1, <4>1
        <4>3. i \in Nat /\ w.before \in Nat
          BY <2>10, <4>2
        <4>4. QED
          BY <4>2, <4>3
      <3>2. QED
        BY <3>1
    <2>15. /\ v.shown = w.shown \union P /\ v.again = {} /\ v.before = b /\ v.offered = w.offered
           /\ v \in WalkRow
      <3>1. /\ v.shown = w.shown \union P /\ v.again = {} /\ v.before = b /\ v.offered = w.offered
            /\ v = [shown |-> w.shown \union P, again |-> {}, before |-> b, offered |-> w.offered]
        BY <2>1, <2>6, <2>13, <2>14 DEF WalkRow
      <3>2. w.shown \union P \subseteq Messages
        BY <2>8, <2>9
      <3>3. QED
        BY <2>8, <2>12, <3>1, <3>2 DEF WalkRow
    <2>16. /\ walk' \in [Requests -> WalkRow] /\ walk'[r] = v /\ \A q \in Requests \ {r} : walk'[q] = walk[q]
           /\ pc'[r] = IF Cardinality(P) < PageSize THEN "ok" ELSE IF numbers = {} THEN "failed" ELSE "page"
      BY <1>3, <2>7, <2>15 DEF HandlersInv
    <2>17. ASSUME NEW i \in v.offered \ v.shown, ~ Touched(i)'
           PROVE  Cardinality(P) >= PageSize /\ \A j \in P : j \in Seeded => i < j
      <3>1. i \in Seeded \ P /\ i \notin w.shown /\ i \in w.offered
        BY <2>8, <2>15, <2>17
      <3>2. ~ Touched(i)
        BY <1>2, <2>17, <3>1
      <3>3. w.before = 0 \/ i < w.before
        BY <2>13, <3>1, <3>2
      <3>4. i \in Nat /\ w.before \in Nat
        BY <2>10, <3>1
      <3>5. ~ (w.before # 0 /\ w.before <= i)
        BY <3>3, <3>4
      <3>6. QED
        BY <2>9, <3>1, <3>2, <3>5
    <2>18. Cardinality(P) \in Nat /\ PageSize \in Nat
      BY <2>9, MessagesFinite, MessagesAssumption
    <2>19. pc'[r] = "page" => OnItsWay(r)'
      <3>1. SUFFICES ASSUME numbers # {} PROVE OnItsWay(r)'
        BY <2>16
      <3>2. b \in P /\ b \in Seeded /\ b # 0
        BY <2>10, <2>11, <2>12, <3>1
      <3>3. \A i \in v.shown : i \in Seeded => b <= i
        <4>1. SUFFICES ASSUME NEW i \in v.shown, i \in Seeded PROVE b <= i
          OBVIOUS
        <4>2. CASE i \in P
          BY <2>11, <2>12, <3>1, <4>1, <4>2
        <4>3. CASE i \in w.shown
          <5>1. w.before <= i /\ i \in Nat /\ b \in Nat /\ w.before \in Nat
            BY <2>10, <2>13, <3>2, <4>1, <4>3
          <5>2. b < w.before
            BY <2>9, <2>13, <3>2, <4>3
          <5>3. QED
            BY <5>1, <5>2
        <4>4. QED
          BY <2>15, <4>1, <4>2, <4>3
      <3>4. \A i \in v.offered \ v.shown : Touched(i)' \/ i < b
        BY <2>17, <3>2
      <3>5. walk'[r].again = {} /\ walk'[r].before = b /\ walk'[r].shown = v.shown /\ walk'[r].offered = v.offered
        BY <2>15, <2>16
      <3>6. QED
        BY <3>2, <3>3, <3>4, <3>5 DEF OnItsWay
    <2>20. pc'[r] = "ok" => AtItsEnd(r)'
      <3>1. SUFFICES ASSUME Cardinality(P) < PageSize PROVE AtItsEnd(r)'
        BY <2>16
      <3>2. \A i \in v.offered \ v.shown : Touched(i)'
        BY <2>17, <2>18, <3>1
      <3>3. walk'[r].again = {} /\ walk'[r].shown = v.shown /\ walk'[r].offered = v.offered
        BY <2>15, <2>16
      <3>4. QED
        BY <3>2, <3>3 DEF AtItsEnd
    <2>21. QED
      BY <1>5, <2>16, <2>19, <2>20
  <1>9. QED
    BY <1>6, <1>7, <1>8, WalkKinds

-----------------------------------------------------------------------------

MessagesInv == MessageLabelsInv /\ RowsInv /\ HangingInv /\ ListInv /\ WalkInv

(* In a behaviour of another service nothing hangs on a message.           *)
AllOfMessages ==
  /\ service \in {"messages", "hanging"} => MessagesInv
  /\ service \notin {"messages", "hanging"} => hanging = {}

LEMMA MessagesInitially == Init => AllOfMessages
  <1> SUFFICES ASSUME Init PROVE MessagesInv /\ hanging = {}
    BY DEF AllOfMessages
  <1>1. \A r \in Requests : op[r] = "none" /\ pc[r] = "new"
    BY DEF Init, HandlersInit
  <1>2. /\ rows = [i \in Messages |-> IF i \in Seeded THEN [there |-> TRUE, seq |-> i, deleted |-> FALSE] ELSE NoMessage]
        /\ hanging = {} /\ walk = [r \in Requests |-> NoWalk]
    BY DEF Init, MessagesInit
  <1>3. MessageLabelsInv
    BY <1>1 DEF MessageLabelsInv, MessageLabel, HangingOps
  <1>4. \A o \in HangingOps : Answered(o) = {}
    BY <1>1 DEF Answered, HangingOps
  <1>5. HangingAddsUp
    <2>1. \A t \in HangingTables : Answered(t[1]) = {} /\ Answered(t[2]) = {}
      BY <1>4 DEF HangingTables, HangingOps
    <2>2. \A t \in HangingTables : Cardinality(Answered(t[1])) = Cardinality(Answered(t[2])) + (IF t[3] \in hanging THEN 1 ELSE 0)
      <3>1. \A t \in HangingTables : Cardinality(Answered(t[1])) = 0 /\ Cardinality(Answered(t[2])) = 0
        BY <2>1, FS_EmptySet
      <3>2. QED
        BY <1>2, <3>1
    <2>3. QED
      BY <2>2 DEF HangingAddsUp, HangingTables, Answered
  <1>6. HangingInv
    BY <1>4, <1>5, FS_EmptySet DEF HangingInv
  <1>7. ListInv
    <2>1. PICK yes, no : yes = TRUE /\ no = FALSE
      OBVIOUS
    <2>2. \A i : /\ [there |-> yes, seq |-> i, deleted |-> no].seq = i
                 /\ [there |-> yes, seq |-> i, deleted |-> no].there = yes
                 /\ [there |-> yes, seq |-> i, deleted |-> no].deleted = no
      OBVIOUS
    <2>3. \A i : /\ Readable([there |-> TRUE, seq |-> i, deleted |-> FALSE])
                 /\ [there |-> TRUE, seq |-> i, deleted |-> FALSE].seq = i
      BY <2>1, <2>2 DEF Readable
    <2>4. Seeded \subseteq Messages
      BY SeededFacts
    <2>5. /\ \A i \in Seeded : rows[i] = [there |-> TRUE, seq |-> i, deleted |-> FALSE]
          /\ \A i \in Messages \ Seeded : rows[i] = NoMessage
      BY <1>2, <2>4
    <2>6. QED
      BY <1>1, <2>3, <2>5, Absent DEF ListInv
  <1>8. WalkInv
    <2>1. NoWalk \in WalkRow
      BY SeededFacts DEF NoWalk, WalkRow
    <2>2. QED
      BY <1>1, <1>2, <2>1 DEF WalkInv
  <1>9. RowsInv
    <2>1. \A i \in Messages : MessageRow(rows[i])
      <3>1. PICK yes, no : yes = TRUE /\ no = FALSE
        OBVIOUS
      <3>2. \A i : MessageRow([there |-> yes, seq |-> i, deleted |-> no])
        BY DEF MessageRow
      <3>3. \A i : MessageRow([there |-> TRUE, seq |-> i, deleted |-> FALSE])
        BY <3>1, <3>2
      <3>4. QED
        BY <1>2, <3>3, Absent
    <2>2. rows = [i \in Messages |-> rows[i]]
      BY <1>2
    <2>3. target \in [Requests -> Seeded]
      BY SeededFacts DEF Init, MessagesInit
    <2>4. QED
      BY <2>1, <2>2, <2>3 DEF RowsInv
  <1>10. QED
    BY <1>2, <1>3, <1>6, <1>7, <1>8, <1>9 DEF MessagesInv

LEMMA MessagesNextInv ==
  HandlersInv /\ Grows /\ AllOfMessages /\ [Next]_vars => AllOfMessages'
  <1> SUFFICES ASSUME HandlersInv, Grows, AllOfMessages, [Next]_vars, service \in {"messages", "hanging"}
               PROVE  MessagesInv'
    BY MessagesFrame DEF AllOfMessages, Grows, messages
  <1>1. CASE \E r \in Requests : MessagesAct(r)
    <2>1. RowsInv'
      BY <1>1, MessagesKinds DEF AllOfMessages, MessagesInv, KeepsTargets
    <2>2. QED
      BY <1>1, <2>1, MessageLabelsStep, HangingStep, ListStep, WalkStep DEF AllOfMessages, MessagesInv
  <1>2. CASE UNCHANGED <<handling, messages>>
    <2>1. UNCHANGED <<op, pc, rows, target, hanging, walk>>
      BY <1>2 DEF handling, messages
    <2>2. MessageLabelsInv' /\ RowsInv' /\ ListInv'
      BY <2>1 DEF AllOfMessages, MessagesInv, MessageLabelsInv, MessageLabel, RowsInv, MessageRow, ListInv, Touched,
         Readable
    <2>3. HangingInv'
      BY <2>1 DEF AllOfMessages, MessagesInv, HangingInv, HangingAddsUp, Answered
    <2>4. WalkInv'
      BY <2>1 DEF AllOfMessages, MessagesInv, WalkInv, OnItsWay, AtItsEnd, Touched
    <2>5. QED
      BY <2>2, <2>3, <2>4 DEF MessagesInv
  <1>3. QED
    BY <1>1, <1>2, MessagesFrame

LEMMA Paging == Spec => []AllOfMessages
  BY Requesting, MessagesInitially, MessagesNextInv, HandlersNext, PTL DEF Spec

(* A client that reads the history to its end is shown each message that   *)
(* had a number when it began and that no request deletes, and none twice, *)
(* whatever is sent and deleted meanwhile; and while the message is there, *)
(* the rows of reactions, stars and votes are what their answers add up to. *)
THEOREM MessagesKept == Spec => []MessagesHold
  <1>1. HandlersInv /\ AllOfMessages => MessagesHold
    <2> SUFFICES ASSUME HandlersInv, AllOfMessages PROVE MessagesHold
      OBVIOUS
    <2>1. CASE service \in {"messages", "hanging"}
      <3>1. HistoryComplete
        BY <2>1 DEF AllOfMessages, MessagesInv, WalkInv, AtItsEnd, Touched, HistoryComplete
      <3>2. QED
        BY <2>1, <3>1 DEF AllOfMessages, MessagesInv, HangingInv, MessagesHold
    <2>2. CASE service \notin {"messages", "hanging"}
      <3>1. \A r \in Requests : op[r] \notin HangingOps \union {"history"}
        BY <2>2 DEF HandlersInv, Belongs, BesideCall, Marks, HangingOps
      <3>2. \A t \in HangingTables : Answered(t[1]) = {} /\ Answered(t[2]) = {}
        BY <3>1 DEF Answered, HangingTables, HangingOps
      <3>3. \A t \in HangingTables :
              Cardinality(Answered(t[1])) = Cardinality(Answered(t[2])) + (IF t[3] \in hanging THEN 1 ELSE 0)
        BY <2>2, <3>2, FS_EmptySet DEF AllOfMessages
      <3>4. HangingAddsUp
        BY <3>3 DEF HangingAddsUp, HangingTables, Answered
      <3>5. QED
        BY <3>1, <3>4 DEF HistoryComplete, MessagesHold
    <2>3. QED
      BY <2>1, <2>2
  <1>2. QED
    BY <1>1, Requesting, Paging, PTL

-----------------------------------------------------------------------------
(* Receipts.                                                               *)

ReceiptsAct(r) == ReceiptsStep(r) \/ (Stops(r) /\ Rollback(r))

LEMMA ReceiptsFrame ==
  [Next]_vars /\ service = "receipts" => (\E r \in Requests : ReceiptsAct(r)) \/ UNCHANGED <<handling, receipts>>
  BY DEF Next, ReceiptsNext, Stop, vars, ReceiptsAct

LEMMA ReceiptsActMoves == ASSUME NEW r \in Requests, ReceiptsAct(r) PROVE Moves(r)
  BY ReceiptsMoves, StopsMoves DEF ReceiptsAct

LEMMA ReceiptsOthers ==
  ASSUME HandlersInv, NEW r \in Requests, ReceiptsAct(r)
  PROVE  \A q \in Requests \ {r} : pc'[q] = pc[q] /\ op'[q] = op[q]
  BY HandlersStep, ReceiptsActMoves

MarkColumns == {"delivered", "read"}
ReceiptRow(w) == w = [f \in {"status", "delivered", "read", "played"} |-> w[f]]
Marking == {"update", "insert"}

(* A row that a transaction wrote is the committed row with its mark, which *)
(* nobody changes before it ends.                                          *)
RowHeld(i) ==
  /\ ReceiptRow(receipt[i])
  /\ writer[i] \in Requests \union {Nobody}
  /\ writer[i] # Nobody => draft[i] = MarkRow(writer[i], receipt[i])

(* A list that is still to be marked holds message 1, or message 1 is      *)
(* marked already; and a request for one message holds no row while it     *)
(* waits for one.                                                          *)
ListHeld(r) ==
  /\ pc[r] \in Marking => op[r] \in Marks /\ (todo[r] \in Lists \/ (todo[r] = << 2 >> /\ writer[1] = r))
  /\ pc[r] \in Marking /\ op[r] \in MarkColumns => todo[r] = << 1 >> /\ \A i \in Marked : writer[i] # r
  /\ pc[r] = "record" => op[r] \in Marks /\ writer[1] = r
  /\ pc[r] = "play" => op[r] = "played"
  /\ \A i \in Marked : writer[i] = r => pc[r] \in Marking \union {"record"}

(* What a request leaves is committed when it is answered, and not before. *)
MarkLeft(r) ==
  /\ op[r] \in MarkColumns /\ pc[r] = "ok" => <<op[r], r>> \in marks
  /\ op[r] \in Marks /\ pc[r] = "ok" => receipt[1][Column(r)] # Nobody
  /\ \A i \in Marked, c \in MarkColumns : receipt[i][c] = r => pc[r] = "ok"
  /\ \A o : <<o, r>> \in marks => pc[r] = "ok"

Raced(r) == \E q \in met[r] : pc[q] = "ok" \/ op[q] \in {"bulkDelivered", "bulkRead"}

MarkRaced(r) ==
  /\ pc[r] = "insert" /\ receipt[Head(todo[r])] # NoReceipt => \E q \in met[r] : pc[q] = "ok"
  /\ op[r] \in Marks /\ pc[r] = "failed" /\ r \notin faulted => Raced(r)

ReceiptsInv ==
  /\ receipt = [i \in Marked |-> receipt[i]] /\ draft = [i \in Marked |-> draft[i]]
  /\ writer = [i \in Marked |-> writer[i]] /\ todo = [r \in Requests |-> todo[r]]
  /\ \A i \in Marked : RowHeld(i)
  /\ \A r \in Requests : ListHeld(r) /\ MarkLeft(r) /\ MarkRaced(r)

LEMMA MarkedRow ==
  ASSUME NEW r \in Requests, NEW w, ReceiptRow(w)
  PROVE  /\ ReceiptRow(MarkRow(r, w)) /\ Column(r) \in MarkColumns
         /\ MarkRow(r, w)[Column(r)] = r
         /\ \A c \in MarkColumns \ {Column(r)} : MarkRow(r, w)[c] = w[c]
  BY DEF ReceiptRow, MarkRow, Column, MarkColumns

LEMMA ListOf ==
  ASSUME NEW l \in Lists \union {<< 2 >>}
  PROVE  /\ Head(l) \in Marked
         /\ l = << 1 >> => Head(l) = 1
         /\ ~ Len(l) > 1 => l \in {<< 1 >>, << 2 >>} /\ Head(l) \in {1, 2} /\ (l = << 2 >> \/ Head(l) = 1)
         /\ Len(l) > 1 => l # << 1 >> /\ l # << 2 >> /\ (Tail(l) = << 1 >> \/ (Tail(l) = << 2 >> /\ Head(l) = 1))
  <1>1. CASE l = << 1 >>
    BY <1>1 DEF Marked
  <1>2. CASE l = <<2>>
    BY <1>2 DEF Marked
  <1>3. CASE l = <<1, 2>>
    BY <1>3 DEF Marked
  <1>4. CASE l = <<2, 1>>
    BY <1>4 DEF Marked
  <1>5. QED
    BY <1>1, <1>2, <1>3, <1>4 DEF Lists

(* What a step does to the receipts.                                       *)
AsksMark(r) ==
  /\ UNCHANGED <<receipt, draft, writer, marks>> /\ pc[r] = "new"
  /\ \E l \in Lists :
       \/ /\ pc'[r] = "update" /\ op'[r] \in Marks /\ todo'[r] = l
          /\ op'[r] \in MarkColumns => l = <<1>>
       \/ pc'[r] \in {"play", "failed"} /\ op'[r] = "played"
  /\ todo' = [q \in Requests |-> todo'[q]] /\ \A q \in Requests \ {r} : todo'[q] = todo[q]
FindsNone(r) ==
  /\ UNCHANGED receipts /\ pc[r] = "update" /\ pc'[r] = "insert" /\ op'[r] = op[r]
  /\ receipt[Head(todo[r])] = NoReceipt
Writes(r) ==
  /\ pc[r] \in Marking /\ op'[r] = op[r]
  /\ \E i \in Marked :
       /\ i = Head(todo[r]) /\ writer[i] \in {Nobody, r}
       /\ writer' = [writer EXCEPT ![i] = r]
       /\ draft' = [draft EXCEPT ![i] = MarkRow(r, receipt[i])]
  /\ todo' = [todo EXCEPT ![r] = Tail(todo[r])]
  /\ pc'[r] = IF Len(todo[r]) > 1 THEN "update" ELSE "record"
  /\ UNCHANGED <<receipt, marks>>
GivesRowsUp(r) ==
  /\ pc[r] # "new" /\ pc'[r] = "failed" /\ op'[r] = op[r] /\ Rollback(r)
  /\ op[r] \in Marks => r \in faulted' \/ Raced(r)
Commits(r) ==
  /\ pc[r] = "record" /\ pc'[r] = "ok" /\ op'[r] = op[r] /\ Release(r)
  /\ receipt' = [i \in Marked |-> IF writer[i] = r THEN draft[i] ELSE receipt[i]]
  /\ marks \subseteq marks' /\ marks' \subseteq marks \union {<<op[r], r>>}
  /\ op[r] \in MarkColumns => <<op[r], r>> \in marks'
  /\ todo' = todo
Plays(r) ==
  /\ pc[r] = "play" /\ pc'[r] = "ok" /\ op'[r] = op[r]
  /\ \/ receipt' = receipt
     \/ receipt[1] # NoReceipt /\ writer[1] = Nobody /\ receipt' = [receipt EXCEPT ![1].played = r]
  /\ UNCHANGED <<draft, writer, todo, marks>>

LEMMA ReceiptsKinds ==
  ASSUME HandlersInv, ReceiptsInv, NEW r \in Requests, ReceiptsAct(r)
  PROVE  AsksMark(r) \/ FindsNone(r) \/ Writes(r) \/ GivesRowsUp(r) \/ Commits(r) \/ Plays(r)
  <1> USE DEF HandlersInv, Goto, FailsOnTo, Arrive
  <1>1. ListHeld(r) /\ MarkRaced(r)
    BY DEF ReceiptsInv
  <1>2. pc[r] \in Marking => Head(todo[r]) \in Marked
    BY <1>1, ListOf DEF ListHeld
  <1>3. CASE Stops(r) /\ Rollback(r)
    BY <1>3 DEF Stops, Active, GivesRowsUp
  <1>4. CASE Mark(r)
    <2>1. PICK o \in Marks, l \in Lists :
            /\ o \in {"delivered", "read"} => l = <<1>>
            /\ Arrive(r, "receipts", o, "update") /\ todo' = [todo EXCEPT ![r] = l]
      BY <1>4 DEF Mark
    <2>2. todo' = [q \in Requests |-> todo'[q]] /\ todo'[r] = l /\ \A q \in Requests \ {r} : todo'[q] = todo[q]
      BY <2>1 DEF ReceiptsInv
    <2>3. UNCHANGED <<receipt, draft, writer, marks>> /\ pc[r] = "new" /\ pc'[r] = "update" /\ op'[r] = o
      BY <1>4, <2>1 DEF Mark
    <2>4. QED
      BY <2>1, <2>2, <2>3 DEF AsksMark, MarkColumns
  <1>5. CASE AskPlayed(r)
    <2>1. <<1>> \in Lists
      BY DEF Lists
    <2>2. /\ UNCHANGED receipts /\ pc[r] = "new" /\ pc'[r] = "play" /\ op'[r] = "played"
      BY <1>5 DEF AskPlayed
    <2>3. QED
      BY <2>1, <2>2 DEF AsksMark, receipts, ReceiptsInv
  <1>6. ASSUME WriteMark(r), pc[r] \in Marking PROVE Writes(r)
    BY <1>2, <1>6 DEF WriteMark, Writes
  <1>7. CASE UpdateReceipt(r)
    BY <1>6, <1>7 DEF UpdateReceipt, FindsNone, Marking
  <1>8. CASE CreateReceipt(r)
    <2>1. CASE WriteMark(r)
      BY <1>6, <1>8, <2>1 DEF CreateReceipt, Marking
    <2>2. CASE receipt[Head(todo[r])] # NoReceipt /\ Goto(r, "failed") /\ Rollback(r)
      BY <1>1, <1>8, <2>2 DEF CreateReceipt, GivesRowsUp, MarkRaced, Raced
    <2>3. QED
      BY <1>8, <2>1, <2>2 DEF CreateReceipt
  <1>9. CASE Deadlock(r)
    <2>1. PICK q \in Requests \ {r} : WaitsFor(q, r) /\ WaitsFor(r, q)
      BY <1>9 DEF Deadlock
    <2>2. q \in met[r]
      BY <2>1 DEF WaitsFor, Active
    <2>3. op[q] \in {"bulkDelivered", "bulkRead"}
      <3>1. ListHeld(q) /\ writer[Head(todo[r])] = q /\ pc[q] \in Marking /\ Head(todo[r]) \in Marked
        BY <1>2, <2>1 DEF WaitsFor, Marking, ReceiptsInv
      <3>2. QED
        BY <3>1 DEF ListHeld, Marks, MarkColumns
    <2>4. QED
      BY <1>9, <2>1, <2>2, <2>3 DEF Deadlock, GivesRowsUp, Raced, WaitsFor
  <1>10. CASE CommitMark(r)
    BY <1>10 DEF CommitMark, Commits, MarkColumns
  <1>11. CASE MarkAsPlayed(r)
    BY <1>11 DEF MarkAsPlayed, Plays
  <1>12. QED
    BY <1>3, <1>4, <1>5, <1>7, <1>8, <1>9, <1>10, <1>11 DEF ReceiptsAct, ReceiptsStep

(* What the writers and the rows are after the end of a transaction.       *)
LEMMA Released ==
  ASSUME NEW r, Release(r)
  PROVE  /\ writer' = [i \in Marked |-> writer'[i]] /\ draft' = [i \in Marked |-> draft'[i]]
         /\ \A i \in Marked : /\ writer[i] = r => writer'[i] = Nobody
                              /\ writer[i] # r => writer'[i] = writer[i] /\ draft'[i] = draft[i]
  BY DEF Release

LEMMA RowsHeldStep ==
  ASSUME HandlersInv, ReceiptsInv, NEW r \in Requests, ReceiptsAct(r)
  PROVE  /\ (receipt = [i \in Marked |-> receipt[i]] /\ draft = [i \in Marked |-> draft[i]])'
         /\ (writer = [i \in Marked |-> writer[i]] /\ todo = [q \in Requests |-> todo[q]])'
         /\ (\A i \in Marked : RowHeld(i))'
  <1>1. /\ receipt = [i \in Marked |-> receipt[i]] /\ draft = [i \in Marked |-> draft[i]]
        /\ writer = [i \in Marked |-> writer[i]] /\ todo = [q \in Requests |-> todo[q]]
        /\ \A i \in Marked : RowHeld(i)
        /\ r # Nobody /\ ListHeld(r)
    BY HandlersAssumption DEF ReceiptsInv
  <1>2. \A q \in Requests : (\E i \in Marked : writer[i] = q) \/ (q = r /\ op'[r] = op[r]) => op'[q] = op[q]
    <2>1. \A q \in Requests : (\E i \in Marked : writer[i] = q) => pc[q] # "new"
      BY DEF ReceiptsInv, ListHeld, Marking
    <2>2. QED
      BY <2>1, HandlersStep, ReceiptsActMoves DEF Grows
  <1>3. ASSUME NEW i \in Marked, NEW q \in Requests, NEW w, ReceiptRow(w),
               (\E j \in Marked : writer[j] = q) \/ (q = r /\ op'[r] = op[r]),
               writer'[i] = q, receipt'[i] = w, draft'[i] = MarkRow(q, w)
        PROVE  RowHeld(i)'
    <2>1. op'[q] = op[q]
      BY <1>2, <1>3
    <2>2. (draft[i] = MarkRow(writer[i], receipt[i]))'
      BY <1>3, <2>1 DEF MarkRow, Column
    <2>3. QED
      BY <1>3, <2>2 DEF RowHeld, ReceiptRow
  <1>4. ASSUME NEW i \in Marked, NEW w, ReceiptRow(w), writer'[i] = Nobody, receipt'[i] = w
        PROVE  RowHeld(i)'
    BY <1>4 DEF RowHeld, ReceiptRow
  <1>5. ASSUME NEW i \in Marked, writer'[i] = writer[i], receipt'[i] = receipt[i], draft'[i] = draft[i]
        PROVE  RowHeld(i)'
    <2>1. PICK q, w : q = writer[i] /\ w = receipt[i]
      OBVIOUS
    <2>2. RowHeld(i) /\ ReceiptRow(w)
      BY <1>1, <2>1 DEF RowHeld
    <2>3. CASE q = Nobody
      BY <1>4, <1>5, <2>1, <2>2, <2>3
    <2>4. CASE q # Nobody
      <3>1. q \in Requests /\ draft[i] = MarkRow(q, w)
        BY <2>1, <2>2, <2>4 DEF RowHeld
      <3>2. QED
        BY <1>3, <1>5, <2>1, <2>2, <3>1
    <2>5. QED
      BY <2>3, <2>4
  <1>6. CASE AsksMark(r) \/ FindsNone(r)
    <2>1. UNCHANGED <<receipt, draft, writer>> /\ todo' = [q \in Requests |-> todo'[q]]
      BY <1>1, <1>6 DEF AsksMark, FindsNone, receipts
    <2>2. \A i \in Marked : RowHeld(i)'
      BY <1>5, <2>1
    <2>3. QED
      BY <1>1, <2>1, <2>2
  <1>7. CASE Writes(r)
    <2>1. PICK j \in Marked :
            /\ writer[j] \in {Nobody, r} /\ writer' = [writer EXCEPT ![j] = r]
            /\ draft' = [draft EXCEPT ![j] = MarkRow(r, receipt[j])]
      BY <1>7 DEF Writes
    <2>2. receipt' = receipt /\ op'[r] = op[r] /\ todo' = [todo EXCEPT ![r] = Tail(todo[r])]
      BY <1>7 DEF Writes
    <2>3. /\ writer' = [i \in Marked |-> writer'[i]] /\ draft' = [i \in Marked |-> draft'[i]]
          /\ todo' = [q \in Requests |-> todo'[q]]
          /\ \A i \in Marked \ {j} : writer'[i] = writer[i] /\ draft'[i] = draft[i]
          /\ writer'[j] = r /\ draft'[j] = MarkRow(r, receipt[j])
      BY <1>1, <2>1, <2>2
    <2>4. RowHeld(j)'
      <3>1. PICK w : w = receipt[j]
        OBVIOUS
      <3>2. ReceiptRow(w) /\ receipt'[j] = w /\ draft'[j] = MarkRow(r, w)
        BY <1>1, <2>2, <2>3, <3>1 DEF RowHeld
      <3>3. QED
        BY <1>3, <2>2, <2>3, <3>2
    <2>5. \A i \in Marked : RowHeld(i)'
      BY <1>5, <2>2, <2>3, <2>4
    <2>6. QED
      BY <1>1, <2>2, <2>3, <2>5
  <1>8. CASE GivesRowsUp(r)
    <2>1. receipt' = receipt /\ todo' = todo /\ Release(r)
      BY <1>8 DEF GivesRowsUp, Rollback
    <2>2. ASSUME NEW i \in Marked PROVE RowHeld(i)'
      <3>1. PICK w : w = receipt[i]
        OBVIOUS
      <3>2. ReceiptRow(w) /\ receipt'[i] = w
        BY <1>1, <2>1, <3>1 DEF RowHeld
      <3>3. QED
        BY <1>4, <1>5, <2>1, <3>2, Released
    <2>3. QED
      BY <1>1, <2>1, <2>2, Released
  <1>9. CASE Commits(r)
    <2>1. /\ receipt' = [i \in Marked |-> receipt'[i]] /\ todo' = todo /\ Release(r)
          /\ \A i \in Marked : receipt'[i] = IF writer[i] = r THEN draft[i] ELSE receipt[i]
      BY <1>9 DEF Commits
    <2>2. ASSUME NEW i \in Marked PROVE RowHeld(i)'
      <3>1. CASE writer[i] = r
        <4>1. PICK w : w = draft[i]
          OBVIOUS
        <4>2. PICK old : old = receipt[i]
          OBVIOUS
        <4>3. ReceiptRow(old) /\ w = MarkRow(r, old)
          BY <1>1, <3>1, <4>1, <4>2 DEF RowHeld
        <4>4. ReceiptRow(w)
          BY <4>3, MarkedRow
        <4>5. receipt'[i] = w /\ writer'[i] = Nobody
          BY <2>1, <3>1, <4>1, Released
        <4>6. QED
          BY <1>4, <4>4, <4>5
      <3>2. CASE writer[i] # r
        BY <1>5, <2>1, <3>2, Released
      <3>3. QED
        BY <3>1, <3>2
    <2>3. QED
      BY <1>1, <2>1, <2>2, Released
  <1>10. CASE Plays(r)
    <2>1. UNCHANGED <<draft, writer, todo>>
      BY <1>10 DEF Plays
    <2>2. CASE receipt' = receipt
      BY <1>1, <1>5, <2>1, <2>2
    <2>3. CASE writer[1] = Nobody /\ receipt' = [receipt EXCEPT ![1].played = r]
      <3>1. 1 \in Marked
        BY DEF Marked
      <3>2. PICK w : w = [receipt[1] EXCEPT !.played = r]
        OBVIOUS
      <3>3. ReceiptRow(w)
        BY <1>1, <3>1, <3>2 DEF RowHeld, ReceiptRow
      <3>4. /\ receipt' = [i \in Marked |-> receipt'[i]] /\ receipt'[1] = w
            /\ \A i \in Marked \ {1} : receipt'[i] = receipt[i]
        BY <1>1, <2>3, <3>1, <3>2
      <3>5. \A i \in Marked : RowHeld(i)'
        BY <1>4, <1>5, <2>1, <2>3, <3>1, <3>3, <3>4
      <3>6. QED
        BY <1>1, <2>1, <3>4, <3>5
    <2>4. QED
      BY <1>10, <2>2, <2>3 DEF Plays
  <1>11. QED
    BY <1>6, <1>7, <1>8, <1>9, <1>10, ReceiptsKinds

LEMMA ListHeldStep ==
  ASSUME HandlersInv, ReceiptsInv, NEW r \in Requests, ReceiptsAct(r), NEW q \in Requests
  PROVE  ListHeld(q)'
  <1>1. /\ r # Nobody /\ ListHeld(q) /\ ListHeld(r)
        /\ todo = [p \in Requests |-> todo[p]] /\ writer = [i \in Marked |-> writer[i]]
    BY HandlersAssumption DEF ReceiptsInv
  <1>2. q # r => pc'[q] = pc[q] /\ op'[q] = op[q]
    BY ReceiptsOthers
  <1>3. 1 \in Marked
    BY DEF Marked
  <1>4. CASE AsksMark(r)
    BY <1>1, <1>2, <1>4 DEF AsksMark, ListHeld, Marking, Marks
  <1>5. CASE FindsNone(r)
    BY <1>1, <1>2, <1>5 DEF FindsNone, ListHeld, Marking, receipts
  <1>6. CASE Writes(r)
    <2>1. PICK j \in Marked :
            /\ j = Head(todo[r]) /\ writer[j] \in {Nobody, r} /\ writer' = [writer EXCEPT ![j] = r]
      BY <1>6 DEF Writes
    <2>2. /\ \A i \in Marked : writer'[i] = IF i = j THEN r ELSE writer[i]
          /\ \A p \in Requests : todo'[p] = IF p = r THEN Tail(todo[r]) ELSE todo[p]
          /\ op'[r] = op[r] /\ pc[r] \in Marking
          /\ pc'[r] = IF Len(todo[r]) > 1 THEN "update" ELSE "record"
      BY <1>1, <1>6, <2>1 DEF Writes
    <2>3. CASE q # r
      <3>1. /\ pc'[q] = pc[q] /\ op'[q] = op[q] /\ todo'[q] = todo[q]
            /\ \A i \in Marked : writer[i] = q <=> writer'[i] = q
        BY <1>2, <2>1, <2>2, <2>3, HandlersAssumption
      <3>2. QED
        BY <1>1, <1>3, <3>1 DEF ListHeld
    <2>4. CASE q = r
      <3>1. todo[r] \in Lists \union {<<2>>}
        BY <1>1, <2>2 DEF ListHeld
      <3>2. CASE Len(todo[r]) > 1
        <4>1. /\ todo[r] # <<1>> /\ todo[r] # <<2>>
              /\ Tail(todo[r]) = <<1>> \/ (Tail(todo[r]) = <<2>> /\ Head(todo[r]) = 1)
          BY <3>1, <3>2, ListOf
        <4>2. op[r] \notin MarkColumns /\ op[r] \in Marks
          BY <1>1, <2>2, <4>1 DEF ListHeld
        <4>3. <<1>> \in Lists
          BY DEF Lists
        <4>4. QED
          BY <1>3, <2>1, <2>2, <2>4, <3>2, <4>1, <4>2, <4>3 DEF ListHeld, Marking
      <3>3. CASE ~ Len(todo[r]) > 1
        <4>1. todo[r] = <<2>> \/ Head(todo[r]) = 1
          BY <3>1, <3>3, ListOf
        <4>2. writer'[1] = r
          <5>1. <<2>> \notin Lists
            BY DEF Lists
          <5>2. QED
            BY <1>1, <1>3, <2>1, <2>2, <4>1, <5>1 DEF ListHeld
        <4>3. QED
          BY <1>1, <2>2, <2>4, <3>3, <4>2 DEF ListHeld, Marking
      <3>4. QED
        BY <3>2, <3>3
    <2>5. QED
      BY <2>3, <2>4
  <1>7. CASE GivesRowsUp(r) \/ Commits(r)
    <2>1. Release(r) /\ todo' = todo /\ pc'[r] \in {"ok", "failed"} /\ op'[r] = op[r]
      BY <1>7 DEF GivesRowsUp, Commits, Rollback
    <2>2. \A i \in Marked : /\ writer[i] = r => writer'[i] = Nobody
                            /\ writer[i] # r => writer'[i] = writer[i]
      BY <2>1, Released
    <2>3. q # Nobody
      BY HandlersAssumption
    <2>4. QED
      BY <1>1, <1>2, <1>3, <2>1, <2>2, <2>3 DEF ListHeld, Marking
  <1>8. CASE Plays(r)
    BY <1>1, <1>2, <1>8 DEF Plays, ListHeld, Marking
  <1>9. QED
    BY <1>4, <1>5, <1>6, <1>7, <1>8, ReceiptsKinds

LEMMA MarkLeftStep ==
  ASSUME HandlersInv, HandlersInv', Grows, ReceiptsInv, NEW r \in Requests, ReceiptsAct(r), NEW q \in Requests
  PROVE  MarkLeft(q)'
  <1>1. /\ r # Nobody /\ MarkLeft(q) /\ MarkLeft(r) /\ ListHeld(r) /\ 1 \in Marked
        /\ receipt = [i \in Marked |-> receipt[i]] /\ \A i \in Marked : RowHeld(i)
    BY HandlersAssumption DEF ReceiptsInv, Marked
  <1>2. q # r => pc'[q] = pc[q] /\ op'[q] = op[q]
    BY ReceiptsOthers
  <1>3. pc[q] = "ok" => pc'[q] = "ok" /\ op'[q] = op[q]
    BY DEF Grows, Active
  <1>4. ASSUME UNCHANGED <<receipt, marks>>, pc'[r] # "ok" PROVE MarkLeft(q)'
    <2>1. pc'[q] = "ok" => pc[q] = "ok"
      BY <1>2, <1>4
    <2>2. QED
      BY <1>1, <1>3, <1>4, <2>1 DEF MarkLeft, Column
  <1>5. CASE AsksMark(r) \/ FindsNone(r) \/ Writes(r) \/ GivesRowsUp(r)
    <2>1. UNCHANGED <<receipt, marks>> /\ pc'[r] # "ok"
      BY <1>5 DEF AsksMark, FindsNone, Writes, GivesRowsUp, Rollback, receipts
    <2>2. QED
      BY <1>4, <2>1
  <1>6. CASE Commits(r)
    <2>1. /\ \A i \in Marked : receipt'[i] = IF writer[i] = r THEN draft[i] ELSE receipt[i]
          /\ marks \subseteq marks' /\ marks' \subseteq marks \union {<<op[r], r>>}
          /\ op[r] \in MarkColumns => <<op[r], r>> \in marks'
          /\ pc'[r] = "ok" /\ op'[r] = op[r] /\ op[r] \in Marks /\ writer[1] = r
      BY <1>1, <1>6 DEF Commits, ListHeld
    <2>2. ASSUME NEW i \in Marked, writer[i] = r
          PROVE  /\ receipt'[i][Column(r)] = r
                 /\ \A c \in MarkColumns : receipt'[i][c] = r \/ receipt'[i][c] = receipt[i][c]
      <3>1. PICK w : w = receipt[i]
        OBVIOUS
      <3>2. ReceiptRow(w) /\ receipt'[i] = MarkRow(r, w)
        BY <1>1, <2>1, <2>2, <3>1 DEF RowHeld
      <3>3. QED
        BY <3>1, <3>2, MarkedRow
    <2>3. \A i \in Marked, c \in MarkColumns : receipt'[i][c] = r \/ receipt'[i][c] = receipt[i][c]
      BY <2>1, <2>2
    <2>4. \A o : <<o, q>> \in marks' => <<o, q>> \in marks \/ q = r
      BY <2>1
    <2>5. Column(q) \in MarkColumns /\ (pc'[q] = "ok" => Column(q)' = Column(q))
      BY <1>2, <2>1 DEF Column, MarkColumns
    <2>6. op'[q] \in Marks /\ pc'[q] = "ok" => receipt'[1][Column(q)] # Nobody
      <3>1. CASE q = r
        BY <1>1, <2>1, <2>2, <3>1
      <3>2. CASE q # r
        BY <1>1, <1>2, <2>3, <2>5, <3>2 DEF MarkLeft
      <3>3. QED
        BY <3>1, <3>2
    <2>7. op'[q] \in MarkColumns /\ pc'[q] = "ok" => <<op'[q], q>> \in marks'
      BY <1>1, <1>2, <2>1 DEF MarkLeft
    <2>8. \A i \in Marked, c \in MarkColumns : receipt'[i][c] = q => pc'[q] = "ok"
      BY <1>1, <1>3, <2>1, <2>3 DEF MarkLeft
    <2>9. \A o : <<o, q>> \in marks' => pc'[q] = "ok"
      BY <1>1, <1>3, <2>1, <2>4 DEF MarkLeft
    <2>10. QED
      BY <2>5, <2>6, <2>7, <2>8, <2>9 DEF MarkLeft
  <1>7. CASE Plays(r)
    <2>1. /\ marks' = marks /\ op'[r] = op[r] /\ op[r] = "played" /\ pc'[r] = "ok"
      BY <1>1, <1>7 DEF Plays, ListHeld
    <2>2. \A i \in Marked, c \in MarkColumns : receipt'[i][c] = receipt[i][c]
      <3>1. CASE receipt' = receipt
        BY <3>1
      <3>2. CASE receipt' = [receipt EXCEPT ![1].played = r]
        <4>1. PICK w : w = receipt[1]
          OBVIOUS
        <4>2. ReceiptRow(w) /\ receipt' = [receipt EXCEPT ![1] = [w EXCEPT !.played = r]]
          BY <1>1, <3>2, <4>1 DEF RowHeld
        <4>3. \A c \in MarkColumns : [w EXCEPT !.played = r][c] = w[c]
          BY <4>2 DEF ReceiptRow, MarkColumns
        <4>4. QED
          BY <1>1, <4>1, <4>2, <4>3
      <3>3. QED
        BY <1>7, <3>1, <3>2 DEF Plays
    <2>3. Column(q) \in MarkColumns /\ (pc'[q] = "ok" => Column(q)' = Column(q))
      BY <1>2, <2>1 DEF Column, MarkColumns
    <2>4. op'[q] \in Marks /\ pc'[q] = "ok" => op[q] \in Marks /\ pc[q] = "ok" /\ q # r
      BY <1>2, <2>1 DEF Marks
    <2>5. op'[q] \in MarkColumns /\ pc'[q] = "ok" => op'[q] = op[q] /\ pc[q] = "ok"
      BY <1>2, <2>1 DEF MarkColumns
    <2>6. op'[q] \in Marks /\ pc'[q] = "ok" => receipt'[1][Column(q)] # Nobody
      BY <1>1, <2>2, <2>3, <2>4 DEF MarkLeft
    <2>7. QED
      BY <1>1, <1>3, <2>1, <2>2, <2>3, <2>5, <2>6 DEF MarkLeft
  <1>8. QED
    BY <1>5, <1>6, <1>7, ReceiptsKinds

LEMMA MarkRacedStep ==
  ASSUME HandlersInv, HandlersInv', Grows, ReceiptsInv, NEW r \in Requests, ReceiptsAct(r), NEW q \in Requests
  PROVE  MarkRaced(q)'
  <1>1. MarkRaced(q) /\ ListHeld(q) /\ ListHeld(r)
    BY DEF ReceiptsInv
  <1>2. q # r => pc'[q] = pc[q] /\ op'[q] = op[q]
    BY ReceiptsOthers
  <1>3. Raced(q) => Raced(q)'
    <2>1. ASSUME NEW p \in met[q], pc[p] = "ok" \/ op[p] \in {"bulkDelivered", "bulkRead"}
          PROVE  p \in met'[q] /\ (pc'[p] = "ok" \/ op'[p] \in {"bulkDelivered", "bulkRead"})
      BY <2>1 DEF HandlersInv, Grows, Active
    <2>2. QED
      BY <2>1 DEF Raced
  <1>4. (\E p \in met[q] : pc[p] = "ok") => \E p \in met'[q] : pc'[p] = "ok"
    BY DEF HandlersInv, Grows, Active
  <1>5. op'[q] \in Marks /\ pc'[q] = "failed" /\ q \notin faulted' => Raced(q)'
    <2>1. CASE q # r \/ pc[q] = "failed"
      BY <1>1, <1>2, <1>3, <2>1 DEF MarkRaced, Grows, Active
    <2>2. CASE q = r
      BY <1>3, <2>2, ReceiptsKinds
         DEF AsksMark, FindsNone, Writes, GivesRowsUp, Commits, Plays, Marks
    <2>3. QED
      BY <2>1, <2>2
  <1>6. ASSUME pc'[q] = "insert", receipt'[Head(todo'[q])] # NoReceipt
        PROVE  \E p \in met'[q] : pc'[p] = "ok"
    <2>1. CASE AsksMark(r) \/ Writes(r) \/ GivesRowsUp(r)
      <3>1. q # r /\ receipt' = receipt
        BY <1>6, <2>1 DEF AsksMark, Writes, GivesRowsUp, Rollback
      <3>2. todo'[q] = todo[q]
        BY <2>1, <3>1 DEF AsksMark, Writes, GivesRowsUp, Rollback, ReceiptsInv
      <3>3. QED
        BY <1>1, <1>2, <1>4, <1>6, <3>1, <3>2 DEF MarkRaced
    <2>2. CASE FindsNone(r)
      BY <1>1, <1>2, <1>4, <1>6, <2>2 DEF FindsNone, receipts, MarkRaced
    <2>3. CASE Commits(r)
      <3>1. q # r /\ pc[q] = "insert" /\ pc[r] = "record" /\ pc'[r] = "ok"
        BY <1>2, <1>6, <2>3 DEF Commits
      <3>2. r \in met[q]
        BY <3>1 DEF HandlersInv, Active
      <3>3. QED
        BY <3>1, <3>2 DEF Grows
    <2>4. CASE Plays(r)
      <3>1. q # r /\ todo' = todo /\ pc[q] = "insert"
        BY <1>2, <1>6, <2>4 DEF Plays
      <3>2. receipt[Head(todo[q])] # NoReceipt
        <4>1. PICK i : i = Head(todo[q])
          OBVIOUS
        <4>2. i \in Marked
          BY <1>1, <3>1, <4>1, ListOf DEF ListHeld, Marking
        <4>3. receipt'[i] = receipt[i] \/ (i = 1 /\ receipt[1] # NoReceipt)
          BY <2>4, <4>2 DEF Plays, ReceiptsInv
        <4>4. QED
          BY <1>6, <3>1, <4>1, <4>3
      <3>3. QED
        BY <1>1, <1>4, <3>1, <3>2 DEF MarkRaced
    <2>5. QED
      BY <2>1, <2>2, <2>3, <2>4, ReceiptsKinds
  <1>7. QED
    BY <1>5, <1>6 DEF MarkRaced

AllOfReceipts == service = "receipts" => ReceiptsInv

LEMMA ReceiptsInitially == Init => AllOfReceipts
  <1> SUFFICES ASSUME Init PROVE ReceiptsInv
    BY DEF AllOfReceipts
  <1>1. \A r \in Requests : op[r] = "none" /\ pc[r] = "new" /\ r # Nobody
    BY HandlersAssumption DEF Init, HandlersInit
  <1>2. /\ receipt = [i \in Marked |-> receipt[i]] /\ draft = [i \in Marked |-> draft[i]]
        /\ writer = [i \in Marked |-> writer[i]] /\ todo = [r \in Requests |-> todo[r]]
        /\ marks = {} /\ \A i \in Marked : receipt[i] = NoReceipt /\ writer[i] = Nobody
    BY DEF Init, ReceiptsInit
  <1>3. ReceiptRow(NoReceipt) /\ \A c \in MarkColumns : NoReceipt[c] = Nobody
    BY DEF ReceiptRow, NoReceipt, MarkColumns
  <1>4. QED
    BY <1>1, <1>2, <1>3 DEF ReceiptsInv, RowHeld, ListHeld, MarkLeft, MarkRaced, Marking, Marks, MarkColumns

LEMMA ReceiptsNextInv ==
  HandlersInv /\ HandlersInv' /\ Grows /\ AllOfReceipts /\ [Next]_vars => AllOfReceipts'
  <1> SUFFICES ASSUME HandlersInv, HandlersInv', Grows, ReceiptsInv, [Next]_vars, service = "receipts"
               PROVE  ReceiptsInv'
    BY DEF AllOfReceipts, Grows
  <1>1. CASE \E r \in Requests : ReceiptsAct(r)
    BY <1>1, RowsHeldStep, ListHeldStep, MarkLeftStep, MarkRacedStep DEF ReceiptsInv
  <1>2. CASE UNCHANGED <<handling, receipts>>
    <2>1. UNCHANGED <<op, pc, met, faulted, receipt, draft, writer, todo, marks>>
      BY <1>2 DEF handling, receipts
    <2>2. (\A i \in Marked : RowHeld(i))'
      BY <2>1 DEF ReceiptsInv, RowHeld, ReceiptRow, MarkRow, Column
    <2>3. (\A r \in Requests : ListHeld(r) /\ MarkLeft(r))'
      BY <2>1 DEF ReceiptsInv, ListHeld, MarkLeft, Column
    <2>4. (\A r \in Requests : MarkRaced(r))'
      BY <2>1 DEF ReceiptsInv, MarkRaced, Raced
    <2>5. QED
      BY <2>1, <2>2, <2>3, <2>4 DEF ReceiptsInv
  <1>3. QED
    BY <1>1, <1>2, ReceiptsFrame

LEMMA KeepingMarks == Spec => []AllOfReceipts
  BY Requesting, ReceiptsInitially, ReceiptsNextInv, HandlersNext, PTL DEF Spec

(* A mark that was answered has its event and its time, one that was        *)
(* refused or stopped has left nothing on any message of its list, and one  *)
(* that did not stop is refused only for the sake of another.               *)
THEOREM MarksAreWhole == Spec => []MarksHold
  <1>1. HandlersInv /\ AllOfReceipts => MarksHold
    <2> SUFFICES ASSUME HandlersInv, AllOfReceipts, NEW r \in Requests, op[r] \in Marks
                 PROVE  /\ pc[r] = "ok" =>
                             /\ op[r] \in {"delivered", "read"} => <<op[r], r>> \in marks
                             /\ receipt[1][Column(r)] # Nobody
                        /\ pc[r] = "failed" =>
                             /\ <<op[r], r>> \notin marks
                             /\ \A i \in Marked : receipt[i][Column(r)] # r /\ writer[i] # r
                        /\ pc[r] = "failed" /\ r \notin faulted => Raced(r)
      BY DEF MarksHold, MarksAllOrNothing, MarkRefusedOnlyByRace, Raced
    <2>1. ReceiptsInv
      BY DEF HandlersInv, Belongs, BesideCall, Marks, AllOfReceipts
    <2>2. MarkLeft(r) /\ MarkRaced(r) /\ ListHeld(r) /\ Column(r) \in MarkColumns
      BY <2>1 DEF ReceiptsInv, Column, MarkColumns
    <2>3. QED
      BY <2>2 DEF MarkLeft, MarkRaced, ListHeld, Marking, MarkColumns
  <1>2. QED
    BY <1>1, Requesting, KeepingMarks, PTL
-----------------------------------------------------------------------------
(* Types.                                                                  *)

(* What is known of every service's requests and rows.                     *)
Known ==
  /\ HandlersInv /\ KeyColumns
  /\ AllOfAccounts /\ AllOfProfiles /\ AllOfCalls /\ AllOfReceipts /\ AllOfCreation
  /\ AllOfConversations /\ AllOfMessages
  /\ AllOfKeys /\ AllOfUploads /\ AllOfBroadcasts /\ AllOfSetup

LEMMA Knowing == Spec => []Known
  BY Requesting, Accounting, Profiling, Calling, KeepingMarks, Creating, Conversing, Paging,
     Keying, Uploading, Broadcasting, SettingUp, PTL DEF Known

LEMMA HandlersTypes == HandlersInv => HandlersTypeOK
  BY DEF HandlersInv, HandlersTypeOK

(* What these services hold of their rows has the types.                   *)
LEMMA OwnTypes ==
  ASSUME Known', Grows, [Next]_vars,
         AccountsTypeOK, ProfilesTypeOK, CallsTypeOK, CreationTypeOK, UploadsTypeOK, SetupTypeOK
  PROVE  (AccountsTypeOK /\ ProfilesTypeOK /\ CallsTypeOK /\ CreationTypeOK /\ UploadsTypeOK /\ SetupTypeOK)'
  <1>1. service' = service
    BY DEF Grows
  <1>2. AccountsTypeOK'
    <2>1. CASE service = "accounts"
      BY <1>1, <2>1 DEF Known, AllOfAccounts, AccountsInv
    <2>2. CASE UNCHANGED accounts
      BY <2>2 DEF AccountsTypeOK, accounts, sessions, locals
    <2>3. QED
      BY <2>1, <2>2, AccountsFrame
  <1>3. ProfilesTypeOK'
    <2>1. CASE service = "profiles"
      BY <1>1, <2>1 DEF Known, AllOfProfiles, ProfilesInv
    <2>2. CASE UNCHANGED profiles
      BY <2>2 DEF ProfilesTypeOK, profiles
    <2>3. QED
      BY <2>1, <2>2, ProfilesFrame
  <1>4. CallsTypeOK'
    <2>1. CASE service \in {"calls", "metrics"}
      BY <1>1, <2>1 DEF Known, AllOfCalls, CallsInv
    <2>2. CASE service \notin {"calls", "metrics"}
      <3>1. UNCHANGED <<calls, metric>>
        BY <2>2 DEF Next, Stop, vars
      <3>2. QED
        BY <3>1 DEF CallsTypeOK, calls
    <2>3. QED
      BY <2>1, <2>2
  <1>5. CreationTypeOK'
    <2>1. CASE service = "creation"
      BY <1>1, <2>1 DEF Known, AllOfCreation, ChangesInv
    <2>2. CASE UNCHANGED creation
      BY <2>2 DEF CreationTypeOK, creation
    <2>3. QED
      BY <2>1, <2>2, CreationFrame
  <1>6. UploadsTypeOK'
    <2>1. CASE service = "uploads"
      BY <1>1, <2>1 DEF Known, AllOfUploads, UploadsInv, UploadsTypeOK, UploadSessions
    <2>2. CASE UNCHANGED uploads
      BY <2>2 DEF UploadsTypeOK, uploads
    <2>3. QED
      BY <2>1, <2>2, UploadsFrame
  <1>7. SetupTypeOK'
    <2>1. CASE service = "setup"
      BY <1>1, <2>1 DEF Known, AllOfSetup, SchemaInv, SeedTyped, SetupTypeOK, KeyTables, SampleTables, NoSample
    <2>2. CASE UNCHANGED setup
      BY <2>2 DEF SetupTypeOK, setup, seeded
    <2>3. QED
      BY <2>1, <2>2, SetupFrame
  <1>8. QED
    BY <1>2, <1>3, <1>4, <1>5, <1>6, <1>7

(* Of the nil ids, a table of keys has at most one.                        *)
OneNil(table) == \A k, l \in table : k.nil /\ l.nil => k = l

LEMMA OneNilCounted ==
  ASSUME NEW table, OneNil(table)
  PROVE  Cardinality({k \in table : k.nil}) <= 1
  <1> DEFINE S == {k \in table : k.nil}
  <1>1. \A k, l \in S : k = l
    BY DEF OneNil
  <1>2. CASE S = {}
    <2>1. Cardinality(S) = 0
      BY <1>2, FS_EmptySet
    <2>2. QED
      BY <2>1
  <1>3. ASSUME NEW k \in S PROVE Cardinality(S) <= 1
    <2>1. S = {k}
      BY <1>1
    <2>2. Cardinality(S) = 1
      BY <2>1, FS_Singleton
    <2>3. QED
      BY <2>2
  <1>4. QED
    BY <1>2, <1>3

(* A row for a device takes the nil id only where there is none.           *)
LEMMA RowAdded ==
  ASSUME NEW table, table \subseteq PreKeyRows, NilFree(table), NEW d \in Devices
  PROVE  /\ table \union {Row(d, TRUE)} \subseteq PreKeyRows
         /\ OneNil(table \union {Row(d, TRUE)})
  <1>1. PICK w : w = [device |-> d, nil |-> TRUE, active |-> TRUE]
    OBVIOUS
  <1>2. w \in PreKeyRows
    BY <1>1 DEF PreKeyRows
  <1>3. Row(d, TRUE) = w
    BY <1>1 DEF Row
  <1>4. QED
    BY <1>2, <1>3 DEF OneNil, NilFree

(* What switches keys off leaves their ids.                                *)
LEMMA SwitchedOff ==
  ASSUME NEW table, table \subseteq PreKeyRows, OneNil(table), NEW k \in table
  PROVE  /\ Inactive(table, k) \subseteq PreKeyRows
         /\ OneNil(Inactive(table, k))
  <1>1. PICK l : l = [k EXCEPT !.active = FALSE]
    OBVIOUS
  <1>2. l \in PreKeyRows /\ l.nil = k.nil
    <2>1. PICK no \in BOOLEAN : no = FALSE
      OBVIOUS
    <2>2. l = [k EXCEPT !.active = no] /\ k \in PreKeyRows
      BY <1>1, <2>1
    <2>3. QED
      BY <2>2 DEF PreKeyRows
  <1>3. Inactive(table, k) = (table \ {k}) \union {l}
    BY <1>1 DEF Inactive
  <1>4. QED
    BY <1>2, <1>3 DEF OneNil

LEMMA RotatedRows ==
  ASSUME signed \subseteq PreKeyRows, NilFree(signed), NEW d \in Devices
  PROVE  Rotated(d) \subseteq PreKeyRows /\ NilFree(Rotated(d))
  <1> DEFINE Turned(k) == [k EXCEPT !.active = @ /\ k.device # d]
  <1>1. ASSUME NEW k \in signed
        PROVE  Turned(k) \in PreKeyRows /\ ~Turned(k).nil
    <2>1. k \in PreKeyRows /\ (k.active /\ k.device # d) \in BOOLEAN /\ ~k.nil
      BY DEF NilFree
    <2>2. PICK b \in BOOLEAN : b = (k.active /\ k.device # d)
      BY <2>1
    <2>3. [k EXCEPT !.active = b] \in PreKeyRows /\ ~[k EXCEPT !.active = b].nil
      BY <2>1 DEF PreKeyRows
    <2>4. QED
      BY <2>2, <2>3
  <1>2. Rotated(d) = {Turned(k) : k \in signed}
    BY DEF Rotated
  <1> HIDE DEF Turned
  <1>3. QED
    BY <1>1, <1>2 DEF NilFree

(* The tables of keys.                                                     *)
KeyTablesTyped ==
  /\ identity \subseteq PreKeyRows /\ OneNil(identity)
  /\ signed \subseteq PreKeyRows /\ OneNil(signed)

LEMMA KeyTablesStep ==
  ASSUME KeyTablesTyped, NEW r \in Requests, KeysAct(r)
  PROVE  KeyTablesTyped'
  <1> USE DEF KeyTablesTyped
  <1>1. CASE CreateIdentityKey(r)
    <2>1. PICK d \in Devices :
            identity' = IF NilFree({k \in identity : k.device # d})
                        THEN {k \in identity : k.device # d} \union {Row(d, TRUE)} ELSE identity
      BY <1>1 DEF CreateIdentityKey
    <2>2. signed' = signed
      BY <1>1 DEF CreateIdentityKey
    <2>3. CASE identity' = identity
      BY <2>2, <2>3 DEF OneNil
    <2>4. PICK kept : kept = {k \in identity : k.device # d}
      OBVIOUS
    <2>5. CASE NilFree(kept) /\ identity' = kept \union {Row(d, TRUE)}
      <3>1. kept \subseteq PreKeyRows
        BY <2>4
      <3>2. identity' \subseteq PreKeyRows /\ OneNil(identity')
        BY <2>5, <3>1, RowAdded
      <3>3. QED
        BY <2>2, <3>2 DEF OneNil
    <2>6. QED
      BY <2>1, <2>3, <2>4, <2>5
  <1>2. CASE EndIdentityKey(r)
    <2>1. signed' = signed
      BY <1>2 DEF EndIdentityKey
    <2>2. CASE identity' = identity
      BY <2>1, <2>2 DEF OneNil
    <2>3. ASSUME NEW k \in identity, identity' = identity \ {k} PROVE KeyTablesTyped'
      BY <2>1, <2>3 DEF OneNil
    <2>4. ASSUME NEW k \in identity, identity' = Inactive(identity, k) PROVE KeyTablesTyped'
      <3>1. identity' \subseteq PreKeyRows /\ OneNil(identity')
        BY <2>4, SwitchedOff
      <3>2. QED
        BY <2>1, <3>1 DEF OneNil
    <2>5. QED
      BY <1>2, <2>2, <2>3, <2>4 DEF EndIdentityKey
  <1>3. CASE CreateSignedPreKey(r) \/ RotateSignedPreKey(r)
    <2>1. identity' = identity
      BY <1>3 DEF CreateSignedPreKey, RotateSignedPreKey
    <2>2. PICK d \in Devices :
            \/ signed' = signed
            \/ NilFree(signed) /\ signed' = signed \union {Row(d, TRUE)}
            \/ NilFree(signed) /\ signed' = Rotated(d) \union {Row(d, TRUE)}
      BY <1>3 DEF CreateSignedPreKey, RotateSignedPreKey
    <2>3. CASE signed' = signed
      BY <2>1, <2>3 DEF OneNil
    <2>4. ASSUME NEW table, table \subseteq PreKeyRows, NilFree(table), signed' = table \union {Row(d, TRUE)}
          PROVE  KeyTablesTyped'
      <3>1. signed' \subseteq PreKeyRows /\ OneNil(signed')
        BY <2>4, RowAdded
      <3>2. QED
        BY <2>1, <3>1 DEF OneNil
    <2>5. QED
      BY <2>2, <2>3, <2>4, RotatedRows
  <1>4. CASE DeactivateSignedPreKey(r)
    <2>1. PICK k \in signed : signed' = Inactive(signed, k)
      BY <1>4 DEF DeactivateSignedPreKey
    <2>2. signed' \subseteq PreKeyRows /\ OneNil(signed')
      BY <2>1, SwitchedOff
    <2>3. identity' = identity
      BY <1>4 DEF DeactivateSignedPreKey
    <2>4. QED
      BY <2>2, <2>3 DEF OneNil
  <1>5. CASE UNCHANGED <<identity, signed>>
    BY <1>5 DEF OneNil
  <1>6. CASE UNCHANGED keys
    BY <1>5, <1>6 DEF keys
  <1>7. CASE \/ AskIdentity(r) \/ AskEndIdentity(r) \/ AskSigned(r) \/ AskRotate(r) \/ AskEndSigned(r)
             \/ AskUpload(r) \/ AskPreKey(r) \/ AskBundle(r)
    BY <1>6, <1>7 DEF AskIdentity, AskEndIdentity, AskSigned, AskRotate, AskEndSigned, AskUpload, AskPreKey,
                      AskBundle, AsksKeys
  <1>8. CASE \/ UploadOneTimePreKeys(r) \/ SelectOneTimePreKey(r) \/ UseOneTimePreKey(r)
             \/ GetIdentityKey(r) \/ GetActiveSignedPreKey(r)
    BY <1>5, <1>6, <1>8 DEF UploadOneTimePreKeys, SelectOneTimePreKey, UseOneTimePreKey, GetIdentityKey,
                            GetActiveSignedPreKey
  <1>9. QED
    BY <1>1, <1>2, <1>3, <1>4, <1>6, <1>7, <1>8 DEF KeysAct, KeysStep

LEMMA KeyTablesInitially == Init => KeyTablesTyped
  <1>1. PICK no \in BOOLEAN : no = FALSE
    OBVIOUS
  <1>2. PICK yes \in BOOLEAN : yes = TRUE
    OBVIOUS
  <1>3. ASSUME Init PROVE identity = {[device |-> "seeded", nil |-> no, active |-> yes]} /\ signed = identity
    BY <1>1, <1>2, <1>3 DEF Init, KeysInit, Row
  <1>4. QED
    BY <1>3 DEF KeyTablesTyped, OneNil, PreKeyRows, Devices

(* The types of the other columns are in what requests for keys keep.      *)
LEMMA KeysTypes ==
  ASSUME Known', Grows, [Next]_vars, KeyTablesTyped, KeysTypeOK
  PROVE  KeyTablesTyped' /\ KeysTypeOK'
  <1>1. service' = service
    BY DEF Grows
  <1>2. CASE UNCHANGED keys
    BY <1>2 DEF KeyTablesTyped, KeysTypeOK, OneNil, keys
  <1>3. ASSUME service = "keys", NEW r \in Requests, KeysAct(r)
        PROVE  KeyTablesTyped' /\ KeysTypeOK'
    <2>1. KeyTablesTyped'
      BY <1>3, KeyTablesStep
    <2>2. (\A t \in {identity, signed} : Cardinality({k \in t : k.nil}) <= 1)'
      BY <2>1, OneNilCounted DEF KeyTablesTyped
    <2>3. PreKeysInv'
      BY <1>1, <1>3 DEF Known, AllOfKeys
    <2>4. QED
      BY <2>1, <2>2, <2>3 DEF KeyTablesTyped, PreKeyRows, PreKeysInv, KeysTypeOK
  <1>4. QED
    BY <1>2, <1>3, KeysFrame

(* What is left of a bulk addition once its first recipient was taken.     *)
LEMMA TailOfOne == ASSUME NEW x PROVE Tail(<< x >>) = << >>
  OBVIOUS

LEMMA TailOfTwo == ASSUME NEW x, NEW y PROVE Tail(<< x, y >>) = << y >>
  OBVIOUS

LEMMA BulkTails ==
  ASSUME NEW b \in Bulks \union {<< >>, << "bob" >>}, b # << >>
  PROVE  Tail(b) \in Bulks \union {<< >>, << "bob" >>}
  <1>1. ASSUME NEW x, b = << x >> PROVE Tail(b) = << >>
    BY <1>1, TailOfOne
  <1>2. ASSUME NEW x, NEW y \in {"ann", "bob"}, b = << x, y >> PROVE Tail(b) \in {<< "ann" >>, << "bob" >>}
    BY <1>2, TailOfTwo
  <1>3. QED
    BY <1>1, <1>2, Zenon DEF Bulks

LEMMA BroadcastsTypes ==
  ASSUME HandlersInv, Known', Grows, [Next]_vars, BroadcastsTypeOK
  PROVE  BroadcastsTypeOK'
  <1>1. service' = service
    BY DEF Grows
  <1>2. CASE UNCHANGED broadcasts
    BY <1>2 DEF BroadcastsTypeOK, broadcasts, others
  <1>3. ASSUME service = "broadcasts", NEW r \in Requests, BroadcastsAct(r)
        PROVE  BroadcastsTypeOK'
    <2>1. /\ queued' \in [Requests -> Bulks \union {<< >>, << "bob" >>}]
          /\ aborted' \subseteq Requests
      <3> USE DEF BroadcastsTypeOK, others
      <3>1. CASE BulkInsert(r)
        <4>1. CASE queued' = queued /\ aborted' = aborted \ {r}
          BY <4>1
        <4>2. CASE /\ queued' = [queued EXCEPT ![r] = Tail(@)] /\ queued[r] # << >>
                   /\ aborted' \in {aborted, aborted \union {r}}
          <5>1. PICK b : b = Tail(queued[r])
            OBVIOUS
          <5>2. b \in Bulks \union {<< >>, << "bob" >>}
            BY <4>2, <5>1, BulkTails
          <5>3. queued' = [queued EXCEPT ![r] = b]
            BY <4>2, <5>1
          <5>4. queued' \in [Requests -> Bulks \union {<< >>, << "bob" >>}]
            BY <5>2, <5>3
          <5>5. aborted' \subseteq Requests
            BY <4>2
          <5>6. QED
            BY <5>4, <5>5
        <4>3. QED
          BY <3>1, <4>1, <4>2 DEF BulkInsert, UndoBulk
      <3>2. CASE AskBulk(r)
        BY <3>2 DEF AskBulk
      <3>3. CASE queued' = queued /\ aborted' \in {aborted, aborted \ {r}}
        BY <3>3
      <3>4. CASE Stops(r) /\ UndoBulk(r)
        BY <3>3, <3>4 DEF UndoBulk
      <3>5. CASE AskList(r) \/ AskRecipient(r)
        BY <3>3, <3>5 DEF AskList, AskRecipient, Demands, broadcasts
      <3>6. CASE \/ CreateList(r) \/ ReadList(r) \/ WriteList(r) \/ DeleteList(r)
                 \/ AddRecipient(r) \/ RemoveRecipient(r) \/ BulkRemoveRecipients(r)
        BY <3>3, <3>6 DEF CreateList, ReadList, WriteList, DeleteList, AddRecipient, RemoveRecipient,
                          BulkRemoveRecipients
      <3>7. CASE BulkDeadlock(r) \/ BulkCommit(r)
        BY <3>3, <3>7 DEF BulkDeadlock, BulkCommit, UndoBulk
      <3>8. QED
        BY <1>3, <3>1, <3>2, <3>4, <3>5, <3>6, <3>7, Zenon DEF BroadcastsAct, BroadcastsStep
    <2>2. BroadcastsInv'
      BY <1>1, <1>3 DEF Known, AllOfBroadcasts
    <2>3. QED
      BY <2>1, <2>2 DEF BroadcastsInv, BroadcastsTypeOK, ListRows
  <1>4. QED
    BY <1>2, <1>3, BroadcastsFrame

ReceiptRows == [status : {"none", "DELIVERED", "READ"}, delivered : Requests \union {Nobody},
                read : Requests \union {Nobody}, played : Requests \union {Nobody}]

LEMMA MarkedTyped ==
  ASSUME NEW r \in Requests, NEW w \in ReceiptRows
  PROVE  MarkRow(r, w) \in ReceiptRows
  BY DEF MarkRow, ReceiptRows

(* What a step leaves to be marked, and the event it commits.              *)
LEMMA TodoTyped ==
  ASSUME HandlersInv, ReceiptsInv, ReceiptsTypeOK, NEW r \in Requests, ReceiptsAct(r)
  PROVE  /\ todo' \in [Requests -> Lists \union {<< >>, << 2 >>}]
         /\ marks' \subseteq {"delivered", "read"} \X Requests
  <1> DEFINE Lefts == Lists \union {<< >>, << 2 >>}
  <1>1. todo \in [Requests -> Lefts] /\ marks \subseteq {"delivered", "read"} \X Requests
    BY DEF ReceiptsTypeOK
  <1>2. ASSUME NEW b, b \in Lists \union {<< 2 >>} PROVE Tail(b) \in Lefts
    <2>1. ASSUME NEW x, b = << x >> PROVE Tail(b) = << >>
      BY <2>1, TailOfOne
    <2>2. ASSUME NEW x, NEW y \in {1, 2}, b = << x, y >> PROVE Tail(b) \in {<< 1 >>, << 2 >>}
      BY <2>2, TailOfTwo
    <2>3. QED
      BY <1>2, <2>1, <2>2, Zenon DEF Lists
  <1> HIDE DEF Lefts
  <1>3. ASSUME WriteMark(r), pc[r] \in Marking PROVE todo' \in [Requests -> Lefts] /\ marks' = marks
    <2>1. ListHeld(r)
      BY DEF ReceiptsInv
    <2>2. PICK b : b = Tail(todo[r])
      OBVIOUS
    <2>3. b \in Lefts
      BY <1>2, <1>3, <2>1, <2>2 DEF ListHeld
    <2>4. todo' = [todo EXCEPT ![r] = b] /\ marks' = marks
      BY <1>3, <2>2 DEF WriteMark
    <2>5. QED
      BY <1>1, <2>3, <2>4
  <1>4. CASE UNCHANGED <<todo, marks>>
    BY <1>1, <1>4 DEF Lefts
  <1>5. CASE Mark(r)
    <2>1. PICK l \in Lists : todo' = [todo EXCEPT ![r] = l]
      BY <1>5 DEF Mark
    <2>2. marks' = marks /\ l \in Lefts
      BY <1>5 DEF Mark, Lefts
    <2>3. todo' \in [Requests -> Lefts]
      BY <1>1, <2>1, <2>2
    <2>4. QED
      BY <1>1, <2>2, <2>3 DEF Lefts
  <1>6. CASE UpdateReceipt(r) \/ CreateReceipt(r)
    <2>1. pc[r] \in Marking
      BY <1>6 DEF UpdateReceipt, CreateReceipt, Marking
    <2>2. CASE WriteMark(r)
      BY <1>1, <1>3, <2>1, <2>2 DEF Lefts
    <2>3. CASE UNCHANGED receipts \/ Rollback(r)
      BY <1>4, <2>3 DEF receipts, Rollback
    <2>4. QED
      BY <1>6, <2>2, <2>3 DEF UpdateReceipt, CreateReceipt
  <1>7. CASE CommitMark(r)
    <2>1. todo' = todo /\ marks' \in {marks, IF op[r] \in {"delivered", "read"} THEN marks \union {<<op[r], r>>} ELSE marks}
      BY <1>7 DEF CommitMark
    <2>2. QED
      BY <1>1, <2>1 DEF Lefts
  <1>8. CASE Deadlock(r) \/ AskPlayed(r) \/ MarkAsPlayed(r) \/ (Stops(r) /\ Rollback(r))
    BY <1>4, <1>8 DEF Deadlock, AskPlayed, MarkAsPlayed, Rollback, receipts
  <1>9. QED
    BY <1>5, <1>6, <1>7, <1>8 DEF ReceiptsAct, ReceiptsStep

LEMMA ReceiptsTypes ==
  ASSUME Known, Known', Grows, [Next]_vars, ReceiptsTypeOK
  PROVE  ReceiptsTypeOK'
  <1>1. CASE UNCHANGED receipts
    BY <1>1 DEF ReceiptsTypeOK, receipts
  <1>2. ASSUME service = "receipts", NEW r \in Requests, ReceiptsAct(r)
        PROVE  ReceiptsTypeOK'
    <2>1. ReceiptsInv /\ ReceiptsInv' /\ HandlersInv
      BY <1>2 DEF Known, AllOfReceipts, Grows
    <2>2. /\ receipt \in [Marked -> ReceiptRows] /\ draft \in [Marked -> ReceiptRows]
          /\ writer \in [Marked -> Requests \union {Nobody}]
      BY DEF ReceiptsTypeOK, ReceiptRows
    <2>3. writer' \in [Marked -> Requests \union {Nobody}]
      BY <2>1 DEF ReceiptsInv, RowHeld
    <2>4. /\ NoReceipt \in ReceiptRows
          /\ \A i \in Marked : MarkRow(r, receipt[i]) \in ReceiptRows
      BY <2>2, MarkedTyped DEF NoReceipt, ReceiptRows
    <2>5. draft' \in [Marked -> ReceiptRows] /\ receipt' \in [Marked -> ReceiptRows]
      <3>1. CASE AsksMark(r) \/ FindsNone(r)
        BY <2>2, <3>1 DEF AsksMark, FindsNone, receipts
      <3>2. CASE Writes(r)
        BY <2>2, <2>4, <3>2 DEF Writes
      <3>3. CASE GivesRowsUp(r)
        BY <2>2, <2>4, <3>3 DEF GivesRowsUp, Rollback, Release
      <3>4. CASE Commits(r)
        BY <2>2, <2>4, <3>4 DEF Commits, Release
      <3>5. CASE Plays(r)
        <4>1. PICK w : w = [receipt[1] EXCEPT !.played = r]
          OBVIOUS
        <4>2. w \in ReceiptRows
          BY <2>2, <4>1 DEF ReceiptRows, Marked
        <4>3. draft' = draft /\ receipt' \in {receipt, [receipt EXCEPT ![1] = w]}
          BY <3>5, <4>1 DEF Plays
        <4>4. QED
          BY <2>2, <4>2, <4>3
      <3>6. QED
        BY <1>2, <2>1, <3>1, <3>2, <3>3, <3>4, <3>5, ReceiptsKinds
    <2>6. QED
      BY <1>2, <2>1, <2>3, <2>5, TodoTyped DEF ReceiptRows, ReceiptsTypeOK
  <1>3. service # "receipts" => UNCHANGED receipts
    BY DEF Next, Stop, vars
  <1>4. QED
    BY <1>1, <1>2, <1>3, ReceiptsFrame

ConversationRows == [Columns -> Requests \union {Nobody}]

LEMMA ConversationsTypes ==
  ASSUME Known, Known', Grows, [Next]_vars, ConversationsTypeOK
  PROVE  ConversationsTypeOK'
  <1>1. CASE UNCHANGED conversations
    BY <1>1 DEF ConversationsTypeOK, conversations
  <1>2. ASSUME service = "conversations", NEW r \in Requests, ConversationsAct(r)
        PROVE  ConversationsTypeOK'
    <2>1. HandlersInv /\ ConversationLabelsInv /\ ConversationsInv'
      BY <1>2 DEF Known, AllOfConversations, ConversationsInv, Grows
    <2>2. /\ conversation \in ConversationRows /\ latest \in ConversationRows
          /\ struct \in [Requests -> ConversationRows]
      BY DEF ConversationsTypeOK, ConversationRows
    <2>3. /\ conversation' \in ConversationRows /\ latest' \in ConversationRows
          /\ struct' \in [Requests -> ConversationRows]
      <3>1. CASE LeavesColumns(r)
        BY <2>2, <3>1 DEF LeavesColumns
      <3>2. CASE GivesLink(r)
        BY <2>2, <3>2 DEF GivesLink, ConversationRows
      <3>3. CASE ReadsColumns(r)
        <4>1. PICK w : w = [conversation EXCEPT ![op[r]] = r]
          OBVIOUS
        <4>2. w \in ConversationRows
          BY <2>2, <4>1 DEF ConversationRows
        <4>3. struct' = [struct EXCEPT ![r] = w] /\ conversation' = conversation /\ latest' = latest
          BY <3>3, <4>1 DEF ReadsColumns
        <4>4. QED
          BY <2>2, <4>2, <4>3
      <3>4. CASE WritesColumns(r)
        BY <2>2, <3>4 DEF WritesColumns, ConversationRows
      <3>5. QED
        BY <1>2, <2>1, <3>1, <3>2, <3>3, <3>4, ColumnsKinds
    <2>4. (/\ present \in BOOLEAN /\ sequence \in Nat \union {NoSequence} /\ number \in [Requests -> Nat]
           /\ (member = Gone \/ member \in MemberRow))'
      BY <2>1 DEF ConversationsInv, NumbersInv, MembersInv
    <2>5. \A m : m = Gone \/ m \in MemberRow => m \in [role : Roles \union {"none"}, flags : SUBSET Flags, read : 0 .. 1]
      BY DEF Gone, MemberRow
    <2>6. QED
      BY <2>3, <2>4, <2>5 DEF ConversationRows, ConversationsTypeOK
  <1>3. QED
    BY <1>1, <1>2, ConversationsFrame

MessageRows == [there : BOOLEAN, seq : Numbers, deleted : BOOLEAN]
LEMMA RowsOfMessages ==
  /\ NoMessage \in MessageRows
  /\ \A w \in MessageRows, b \in BOOLEAN : [w EXCEPT !.there = b] \in MessageRows /\ [w EXCEPT !.deleted = b] \in MessageRows
  <1>1. PICK no \in BOOLEAN : no = FALSE
    OBVIOUS
  <1>2. [there |-> no, seq |-> 0, deleted |-> no] \in MessageRows
    BY SeededFacts DEF MessageRows
  <1>3. QED
    BY <1>1, <1>2 DEF NoMessage, MessageRows

(* A step writes to the messages nothing but rows.                         *)
LEMMA RowsTypedStep ==
  ASSUME rows \in [Messages -> MessageRows], target \in [Requests -> Seeded], NEW r \in Requests, MessagesAct(r)
  PROVE  rows' \in [Messages -> MessageRows]
  <1>1. target[r] \in Messages
    BY SeededFacts
  <1>2. PICK gone : gone = [rows[target[r]] EXCEPT !.deleted = TRUE]
    OBVIOUS
  <1>3. PICK sent : sent = [NoMessage EXCEPT !.there = TRUE]
    OBVIOUS
  <1>4. gone \in MessageRows /\ sent \in MessageRows /\ NoMessage \in MessageRows
    <2>1. PICK yes \in BOOLEAN : yes = TRUE
      OBVIOUS
    <2>2. gone = [rows[target[r]] EXCEPT !.deleted = yes] /\ sent = [NoMessage EXCEPT !.there = yes]
      BY <1>2, <1>3, <2>1
    <2>3. QED
      BY <1>1, <2>2, RowsOfMessages
  <1>5. ASSUME NEW m \in MessageRows, NEW i \in Messages, rows' \in {rows, [rows EXCEPT ![i] = m]}
        PROVE  rows' \in [Messages -> MessageRows]
    BY <1>5
  <1>6. CASE SoftDelete(r) \/ HardDelete(r)
    <2>1. \E m \in {gone, NoMessage} : rows' \in {rows, [rows EXCEPT ![target[r]] = m]}
      BY <1>2, <1>6 DEF SoftDelete, HardDelete, WriteMessage
    <2>2. QED
      BY <1>1, <1>4, <1>5, <2>1
  <1>7. CASE Send(r)
    <2>1. PICK i \in Messages : rows' = [rows EXCEPT ![i] = sent]
      BY <1>3, <1>7 DEF Send
    <2>2. QED
      BY <1>4, <1>5, <2>1
  <1>8. CASE AskSend(r) \/ AskDeletion(r) \/ AskHanging(r) \/ AskHistory(r) \/ GetConversationMessages(r)
    BY <1>8 DEF AskSend, AskDeletion, AskHanging, AskHistory, GetConversationMessages, AsksMessage, messages
  <1>9. CASE AddReaction(r) \/ RemoveReaction(r) \/ StarMessage(r) \/ UnstarMessage(r)
    BY <1>9 DEF AddReaction, RemoveReaction, StarMessage, UnstarMessage, InsertHanging, DeleteHanging
  <1>10. CASE VotePoll(r) \/ RemoveVote(r) \/ AddMention(r)
    BY <1>10 DEF VotePoll, RemoveVote, AddMention, InsertHanging, DeleteHanging
  <1>11. CASE UNCHANGED messages
    BY <1>11 DEF messages
  <1>12. QED
    BY <1>6, <1>7, <1>8, <1>9, <1>10, <1>11 DEF MessagesAct, MessagesStep

LEMMA HangingTyped ==
  ASSUME hanging \subseteq {"reaction", "star", "vote", "mention"}, NEW r \in Requests, MessagesAct(r)
  PROVE  hanging' \subseteq {"reaction", "star", "vote", "mention"}
  <1>1. CASE UNCHANGED hanging
    BY <1>1
  <1>2. CASE AddReaction(r) \/ StarMessage(r) \/ VotePoll(r) \/ AddMention(r)
    BY <1>2 DEF AddReaction, StarMessage, VotePoll, AddMention, InsertHanging
  <1>3. CASE RemoveReaction(r) \/ UnstarMessage(r) \/ RemoveVote(r)
    BY <1>3 DEF RemoveReaction, UnstarMessage, RemoveVote, DeleteHanging
  <1>4. CASE SoftDelete(r) \/ HardDelete(r)
    BY <1>4 DEF SoftDelete, HardDelete, WriteMessage
  <1>5. CASE AskSend(r) \/ AskDeletion(r) \/ AskHanging(r) \/ AskHistory(r) \/ Send(r) \/ GetConversationMessages(r)
    BY <1>1, <1>5 DEF AskSend, AskDeletion, AskHanging, AskHistory, AsksMessage, Send, GetConversationMessages, messages
  <1>6. CASE UNCHANGED messages
    BY <1>1, <1>6 DEF messages
  <1>7. QED
    BY <1>2, <1>3, <1>4, <1>5, <1>6 DEF MessagesAct, MessagesStep

LEMMA MessagesTypes ==
  ASSUME Known, Known', Grows, [Next]_vars, MessagesTypeOK
  PROVE  MessagesTypeOK'
  <1>1. CASE UNCHANGED messages
    BY <1>1 DEF MessagesTypeOK, messages
  <1>2. ASSUME service \in {"messages", "hanging"}, NEW r \in Requests, MessagesAct(r)
        PROVE  MessagesTypeOK'
    <2>1. RowsInv' /\ WalkInv'
      BY <1>2 DEF Known, AllOfMessages, MessagesInv, Grows
    <2>2. /\ rows \in [Messages -> MessageRows] /\ target \in [Requests -> Seeded]
          /\ hanging \subseteq {"reaction", "star", "vote", "mention"}
      BY DEF MessagesTypeOK, MessageRows
    <2>3. rows' \in [Messages -> MessageRows] /\ hanging' \subseteq {"reaction", "star", "vote", "mention"}
      BY <1>2, <2>2, RowsTypedStep, HangingTyped
    <2>4. target' \in [Requests -> Seeded]
      BY <2>1 DEF RowsInv
    <2>5. walk' \in [Requests -> [shown : SUBSET Messages, again : SUBSET Messages,
                                  before : Numbers, offered : SUBSET Messages]]
      <3>1. walk' \in [Requests -> WalkRow]
        BY <2>1 DEF WalkInv
      <3>2. Seeded \subseteq Messages
        BY SeededFacts
      <3>3. WalkRow \subseteq [shown : SUBSET Messages, again : SUBSET Messages,
                               before : Numbers, offered : SUBSET Messages]
        BY <3>2 DEF WalkRow
      <3>4. QED
        BY <3>1, <3>3
    <2>6. QED
      BY <2>3, <2>4, <2>5 DEF MessagesTypeOK, MessageRows
  <1>3. QED
    BY <1>1, <1>2, MessagesFrame

-----------------------------------------------------------------------------

LEMMA TypesInitially == Init => TypeOK /\ KeyTablesTyped
  <1> SUFFICES ASSUME Init PROVE TypeOK /\ KeyTablesTyped
    OBVIOUS
  <1> USE HandlersAssumption
  <1>1. HandlersTypeOK
    BY HandlersInitially, HandlersTypes
  <1>2. AccountsTypeOK /\ ProfilesTypeOK
    BY DEF Init, AccountsInit, AccountsTypeOK, Ids, ProfilesInit, ProfilesTypeOK
  <1>3. CallsTypeOK
    BY DEF Init, CallsInit, CallsTypeOK, NoDuration
  <1>4. ReceiptsTypeOK
    <2>1. NoReceipt \in ReceiptRows
      BY DEF NoReceipt, ReceiptRows
    <2>2. QED
      BY <2>1 DEF Init, ReceiptsInit, ReceiptsTypeOK, ReceiptRows
  <1>5. CreationTypeOK
    BY DEF Init, CreationInit, CreationTypeOK
  <1>6. ConversationsTypeOK
    BY DEF Init, ConversationsInit, ConversationsTypeOK, Unset, Join, Roles
  <1>7. MessagesTypeOK
    <2>1. NoMessage \in MessageRows
      BY RowsOfMessages
    <2>2. ASSUME NEW i \in Seeded PROVE [there |-> TRUE, seq |-> i, deleted |-> FALSE] \in MessageRows
      <3>1. PICK no \in BOOLEAN, yes \in BOOLEAN : no = FALSE /\ yes = TRUE
        OBVIOUS
      <3>2. [there |-> yes, seq |-> i, deleted |-> no] \in MessageRows
        BY SeededFacts DEF MessageRows
      <3>3. QED
        BY <3>1, <3>2
    <2>3. rows \in [Messages -> MessageRows]
      BY <2>1, <2>2 DEF Init, MessagesInit
    <2>4. NoWalk \in [shown : SUBSET Messages, again : SUBSET Messages, before : Numbers, offered : SUBSET Messages]
      BY SeededFacts DEF NoWalk
    <2>5. target \in [Requests -> Seeded] /\ hanging = {} /\ walk = [r \in Requests |-> NoWalk]
      BY SeededFacts DEF Init, MessagesInit
    <2>6. QED
      BY <2>3, <2>4, <2>5 DEF MessagesTypeOK, MessageRows
  <1>8. KeyTablesTyped /\ KeysTypeOK
    <2>1. KeyTablesTyped
      BY KeyTablesInitially
    <2>2. (\A t \in {identity, signed} : Cardinality({k \in t : k.nil}) <= 1)
      BY <2>1, OneNilCounted DEF KeyTablesTyped
    <2>3. onetime = {1, 2} /\ used = {} /\ picked = [r \in Requests |-> NoKey]
      BY DEF Init, KeysInit
    <2>4. QED
      BY <2>1, <2>2, <2>3 DEF KeyTablesTyped, PreKeyRows, KeysTypeOK
  <1>9. UploadsTypeOK
    <2>1. PICK no \in BOOLEAN : no = FALSE
      OBVIOUS
    <2>2. NoSession \in UploadSessions
      BY <2>1 DEF NoSession, UploadSessions
    <2>3. QED
      BY <2>2 DEF Init, UploadsInit, UploadsTypeOK, UploadSessions
  <1>10. BroadcastsTypeOK
    BY DEF Init, BroadcastsInit, BroadcastsTypeOK, NoList
  <1>11. SetupTypeOK
    <2>1. PICK no \in BOOLEAN : no = FALSE
      OBVIOUS
    <2>2. NoSample = [dm |-> no, sent |-> no, sealed |-> no, list |-> no]
      BY <2>1 DEF NoSample
    <2>3. NoSample \in [DOMAIN NoSample -> BOOLEAN]
      BY <2>2
    <2>4. NoKeys \in [{"identity", "signed", "oneTime"} -> Requests \union {Nobody}]
      BY DEF NoKeys
    <2>5. QED
      BY <2>3, <2>4 DEF Init, SetupInit, SetupTypeOK
  <1>12. QED
    BY <1>1, <1>2, <1>3, <1>4, <1>5, <1>6, <1>7, <1>8, <1>9, <1>10, <1>11 DEF TypeOK

(* The rows of every service, and what its requests hold of them, have     *)
(* their types, whatever requests overlap; no table of identity keys or of *)
(* signed prekeys comes to hold two rows of the nil id.                    *)
THEOREM ServicesTyped == Spec => []TypeOK
  <1>1. ASSUME Known, Known', [Next]_vars, TypeOK, KeyTablesTyped
        PROVE  TypeOK' /\ KeyTablesTyped'
    <2>1. Grows
      BY <1>1, HandlersNext DEF Known
    <2>2. HandlersTypeOK'
      BY <1>1 DEF Known, HandlersInv, HandlersTypeOK
    <2>3. HandlersInv
      BY <1>1 DEF Known
    <2>4. QED
      BY <1>1, <2>1, <2>2, <2>3, OwnTypes, KeysTypes, BroadcastsTypes, ReceiptsTypes, ConversationsTypes,
         MessagesTypes DEF TypeOK
  <1>2. QED
    BY <1>1, Knowing, TypesInitially, PTL DEF Spec
=============================================================================
