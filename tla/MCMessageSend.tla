--------------------------- MODULE MCMessageSend ---------------------------
(***************************************************************************)
(* TLC instances of MessageSend: s1 and its retry s2 are served by         *)
(* different processes, s3 by the process of s1.                           *)
(***************************************************************************)
EXTENDS MessageSend

CONSTANTS s1, s2, s3, p1, p2, m1, m2

MCAt == [r \in Requests |-> IF r = s2 THEN p2 ELSE p1]
MCClientMsg == [r \in Requests |-> IF r = s3 THEN m2 ELSE m1]
=============================================================================
