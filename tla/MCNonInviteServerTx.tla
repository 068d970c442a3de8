------------------------ MODULE MCNonInviteServerTx ------------------------
(***************************************************************************)
(* Small instances of NonInviteServerTx: two users that both answer, one   *)
(* provisional and two final responses to tell a second one from the first.*)
(***************************************************************************)
EXTENDS NonInviteServerTxProps

CONSTANTS u1, u2, r100, r200, r500, d1, d2
=============================================================================
