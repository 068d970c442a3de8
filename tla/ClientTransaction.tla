-------------------------- MODULE ClientTransaction --------------------------
(***************************************************************************)
(* What a client transaction promises its transaction user (TU): the       *)
(* contract of the ClientTransaction interface of                          *)
(* internal/sip/transaction.go, with no lock, no goroutine and no timer.   *)
(*                                                                         *)
(* Responses() hands over what the network sent while the transaction is   *)
(* alive, and failures the transaction makes up itself (408, 503) at any   *)
(* time; it holds one response, and what does not fit is lost.  Done() is  *)
(* closed exactly once, after the transaction was terminated.              *)
(***************************************************************************)
EXTENDS Naturals, Sequences

CONSTANTS Received,   \* the responses the network may deliver
          Failure     \* the responses the transaction makes up

VARIABLES phase,      \* "live", then "terminated", then "done" (Done() is closed)
          inbox       \* what Responses() holds

vars == <<phase, inbox>>

Init == phase = "live" /\ inbox = <<>>

\* A response reaches the TU; one that ends the transaction does so in the same step.
Deliver(r) == /\ phase = "live"
              /\ inbox = <<>>
              /\ inbox' = <<r>>
              /\ phase' \in {"live", "terminated"}

MakeUp(r) == inbox = <<>> /\ inbox' = <<r>> /\ UNCHANGED phase

Read == inbox /= <<>> /\ inbox' = <<>> /\ UNCHANGED phase

Stop == phase = "live" /\ phase' = "terminated" /\ UNCHANGED inbox

Close == phase = "terminated" /\ phase' = "done" /\ UNCHANGED inbox

Next == \/ \E r \in Received : Deliver(r)
        \/ \E r \in Failure : MakeUp(r)
        \/ Read \/ Stop \/ Close

Safety == Init /\ [][Next]_vars

\* A terminated transaction does not keep its waiters waiting.
Spec == Safety /\ WF_vars(Close)
=============================================================================
