----------------------- MODULE NonInviteClientTxProps -----------------------
(***************************************************************************)
(* The properties of NonInviteClientTx.                                    *)
(***************************************************************************)
EXTENDS NonInviteClientTx

\* The types of the variables; every field and queue of the transaction.
TypeOK == /\ reliable \in BOOLEAN
          /\ state \in State
          /\ mu \in Goroutine \cup {None}
          /\ lastResponse \in Received \cup {None}
          /\ responses \in {<<>>} \cup {<<r>> : r \in Response}
          /\ done \in BOOLEAN
          /\ armed \subseteq Timer
          /\ pc \in [Goroutine -> {"send", "push503", "push408", "startF", "startE", "wait",
                                   "read", "idle", "resend", "terminate", "close",
                                   "wedged", "ended"}]
          /\ requests \in 0 .. MaxResend + 1
          /\ answer \in Response \cup {None}

\* close(tx.done) happens at most once, although run, timers F and K and the goroutine
\* of a final response all terminate the transaction.
DoneClosedOnce ==
  \A g \in Goroutine : pc[g] = "close" =>
    /\ ~done
    /\ \A h \in Goroutine : pc[h] = "close" => h = g

\* The types and one close of Done().
Inv == TypeOK /\ DoneClosedOnce

\* Once the peer has given its final answer the request is not repeated any more and
\* the answer is not delivered again: timer E, a second final response and timer F that
\* expired just before Stop find the transaction completed.
QuietOnceCompleted ==
  [][(state \in {"Completed", "Terminated"}) =>
       /\ state' \in {"Completed", "Terminated"}
       /\ requests' \in {requests, 1}
       /\ responses' \in {responses, <<>>, <<Timeout>>, <<Unavailable>>}]_vars

\* Whoever sent the BYE gets an answer, if only one that the transaction made up, even
\* when a failed write blocks the transaction for good.
TUAnswered == <>(answer /= None)

\* A transaction that was answered closes Done(), by timer K or at once on TCP, unless a
\* failed write has blocked it.
AnsweredGetsDone == state = "Completed" ~> done \/ mu /= None

\* Neither the sender of the BYE nor the transaction manager waits for ever.
NobodyWaits == TUAnswered /\ AnsweredGetsDone

\* The transaction keeps the contract of the ClientTransaction interface.
Contract == INSTANCE ClientTransaction WITH
  Failure <- {Timeout, Unavailable},
  phase <- IF done THEN "done" ELSE IF state = "Terminated" THEN "terminated" ELSE "live",
  inbox <- responses
KeepsContract == Contract!Spec
=============================================================================
