------------------------------- MODULE MCHub -------------------------------
(***************************************************************************)
(* TLC instances of the hub.                                               *)
(***************************************************************************)
EXTENDS Hub, TLC

CONSTANTS alice, bob, c3, room

MCOwner == [c \in Clients |-> IF c = c3 THEN bob ELSE alice]
MCChatsOf == [u \in Users |-> Chats]
MCChatOf == [e \in Events |-> room]

Symmetry == Permutations({c \in Clients : c # c3})
=============================================================================
