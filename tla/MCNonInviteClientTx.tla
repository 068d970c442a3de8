------------------------ MODULE MCNonInviteClientTx ------------------------
(***************************************************************************)
(* Small instances of NonInviteClientTx: one response of each class, two   *)
(* dispatchers so that a response can arrive while another one's goroutine *)
(* is between Unlock and Terminate.                                        *)
(***************************************************************************)
EXTENDS NonInviteClientTxProps

CONSTANTS r100, r200, d1, d2
=============================================================================
