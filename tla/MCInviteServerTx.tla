-------------------------- MODULE MCInviteServerTx --------------------------
(***************************************************************************)
(* Small instances of InviteServerTx and the properties TLC checks.        *)
(*                                                                         *)
(* The transaction users are those of b2bua.go: mediate relays provisional *)
(* responses and one final one, Cancel sends a 487.  One dispatcher is     *)
(* enough to pass ACKs and retransmissions in any number and any order,    *)
(* two to have one of them still on its way to Terminate meanwhile.        *)
(***************************************************************************)
EXTENDS InviteServerTxProps

CONSTANTS mediate, cancel, r180, r200, r486, r487, d1, d2

MCOffers == [u \in TUs |-> IF u = cancel THEN {r487} ELSE {r180, r200, r486}]
=============================================================================
