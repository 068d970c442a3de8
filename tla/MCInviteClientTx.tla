-------------------------- MODULE MCInviteClientTx --------------------------
(***************************************************************************)
(* Small instances of InviteClientTx: one response of each class, two      *)
(* dispatchers so that a response can arrive while another one's goroutine *)
(* is between Unlock and Terminate.                                        *)
(***************************************************************************)
EXTENDS InviteClientTxProps

CONSTANTS r180, r200, r486, d1, d2
=============================================================================
