------------------------------ MODULE MCB2BUA ------------------------------
(***************************************************************************)
(* Small instances of B2BUA: one retry after a 422, so that a CANCEL and   *)
(* a timeout meet each of the two client transactions, and one goroutine   *)
(* for every way to end a call.                                            *)
(***************************************************************************)
EXTENDS B2BUAProps

MCKind == [h \in HangUps |-> IF h = "bye" THEN "bye" ELSE "disconnect"]
=============================================================================
