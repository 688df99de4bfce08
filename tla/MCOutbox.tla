------------------------------ MODULE MCOutbox ------------------------------
(***************************************************************************)
(* TLC instances of the outbox in which one process serves the requests,   *)
(* whichever processes have a worker.                                      *)
(***************************************************************************)
EXTENDS Outbox

MCHome == [e \in Events |-> CHOOSE p \in Procs : TRUE]
=============================================================================
