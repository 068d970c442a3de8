-------------------------- MODULE ServerTransaction --------------------------
(***************************************************************************)
(* What a server transaction promises its transaction user (TU): the       *)
(* contract of the ServerTransaction interface of                          *)
(* internal/sip/transaction.go, with no lock, no goroutine and no timer.   *)
(*                                                                         *)
(* The TU hands responses over; they leave in the order they were taken,   *)
(* each at most once as a new response; the transaction may retransmit the *)
(* last one but never an older one; once it is terminated nothing leaves   *)
(* any more, and Done() is closed exactly once, after that.                *)
(***************************************************************************)
EXTENDS Naturals, Sequences

CONSTANTS Response,   \* the responses a TU may hand over
          Final,      \* those of them that are final
          None        \* no response sent yet

VARIABLES phase,      \* "live", then "terminated", then "done" (Done() is closed)
          accepted,   \* responses taken from the TU and not transmitted yet
          last        \* the last response transmitted, or None

vars == <<phase, accepted, last>>

\* A constructor whose first write fails returns a transaction that is already done.
Init == /\ phase \in {"live", "done"}
        /\ accepted = <<>>
        /\ last = None

\* Respond: one response may wait in the channel while another is in the hands of run.
Accept(r) == /\ Len(accepted) < 2
             /\ accepted' = Append(accepted, r)
             /\ UNCHANGED <<phase, last>>

\* The oldest accepted response becomes the last one transmitted.
Transmit == /\ phase = "live"
            /\ accepted /= <<>>
            /\ last' = Head(accepted)
            /\ accepted' = Tail(accepted)
            /\ UNCHANGED phase

\* An accepted response is dropped: the transaction ended, or has answered for good.
Discard == /\ accepted /= <<>>
           /\ last \in Final \/ phase /= "live"
           /\ accepted' = Tail(accepted)
           /\ UNCHANGED <<phase, last>>

Stop == /\ phase = "live"
        /\ phase' = "terminated"
        /\ UNCHANGED <<accepted, last>>

Close == /\ phase = "terminated"
         /\ phase' = "done"
         /\ UNCHANGED <<accepted, last>>

Next == (\E r \in Response : Accept(r)) \/ Transmit \/ Discard \/ Stop \/ Close

\* A terminated transaction does not keep its waiters waiting.
Safety == Init /\ [][Next]_vars
Spec == Safety /\ WF_vars(Close)
=============================================================================
