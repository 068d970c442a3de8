----------------------------- MODULE MCMessages -----------------------------
(***************************************************************************)
(* A small instance of Messages: up to two Via lines of up to two values.  *)
(***************************************************************************)
EXTENDS MessagesProps
=============================================================================
