------------------------- MODULE InviteClientTxProps -------------------------
(***************************************************************************)
(* The properties of InviteClientTx.                                       *)
(***************************************************************************)
EXTENDS InviteClientTx

\* The types of the variables; every field and queue of the transaction.
TypeOK == /\ reliable \in BOOLEAN
          /\ state \in State
          /\ mu \in Goroutine \cup {None}
          /\ lastResponse \in Received \cup {None}
          /\ responses \in {<<>>} \cup {<<r>> : r \in Response}
          /\ done \in BOOLEAN
          /\ armed \subseteq Timer
          /\ pc \in [Goroutine -> {"send", "push503", "push408", "startB", "startA", "wait",
                                   "read", "idle", "resend", "terminate", "close",
                                   "wedged", "ended"}]
          /\ invites \in 0 .. MaxResend + 1
          /\ acked \subseteq Fail
          /\ answer \in Final \cup {None}
          /\ early \in BOOLEAN /\ lost \in BOOLEAN

\* close(tx.done) happens at most once, although seven kinds of goroutine terminate the
\* transaction: a second close of a channel panics and takes the server down.
DoneClosedOnce ==
  \A g \in Goroutine : pc[g] = "close" =>
    /\ ~done
    /\ \A h \in Goroutine : pc[h] = "close" => h = g

\* A rejection found an unread 1xx in the channel, and the transaction ends without a 408:
\* on TCP at once, on UDP if the callee was faster than run, so that timer D, and not B, is
\* the first to expire.
RejectionLost == lost /\ (reliable \/ early)

\* As long as mediate waits for the outcome of the call and nobody gave up, there is a
\* way for it to learn one: a final response in the channel, or timer B to make up a 408.
\* A 200 that was dropped because a 180 was still unread does not leave it waiting, nor
\* does a rejection, but for the two cases in which Terminate stops timer B.
OutcomeIsComing ==
  mu = None /\ pc[TU] = "read" /\ pc[Canceller] = "idle" /\ ~RejectionLost =>
    \/ pc[Run] \in {"send", "push503", "startB"}
    \/ TimerB \in armed
    \/ pc[TimerB] = "push408"
    \/ responses /= <<>> /\ responses[1] \in Final

\* Every final response that rejects the call is acknowledged in the step that
\* receives it, for as long as the callee repeats it, unless the write fails.
RejectionAcked ==
  mu = None /\ state = "Completed" /\ lastResponse \in Fail => lastResponse \in acked

\* The types, one close of Done(), every rejection acknowledged, and a way for mediate to
\* learn the outcome.
Inv == TypeOK /\ DoneClosedOnce /\ OutcomeIsComing /\ RejectionAcked

\* No INVITE is retransmitted once the callee has been heard of, although timer A may
\* have expired before Stop was called; only run's first INVITE may still be on its way.
\* A terminated transaction stays terminated and acknowledges nothing any more.
QuietOnceAnswered ==
  [][/\ lastResponse /= None => invites' \in {invites, 1}
     /\ state = "Terminated" => state' = "Terminated" /\ acked' = acked]_vars

\* mediate learns the outcome of the call, unless somebody gives up on the call; even a
\* transaction that a failed write has blocked does not leave it waiting.  A rejection is
\* excepted that was lost on the full channel and took timer B along.
TUAnswered == <>(answer /= None \/ pc[TU] /= "read" \/ pc[Canceller] /= "idle"
                   \/ RejectionLost)

\* The callee may never answer and the transaction still ends: no timer callback blocks
\* for ever on the full channel, only a failed write blocks the transaction.
AlwaysTerminates == <>(state = "Terminated" \/ mu /= None)

\* A rejected call's transaction closes Done(), by timer D or at once on TCP, unless a
\* failed write has blocked it.
RejectedGetsDone == state = "Completed" ~> done \/ mu /= None

\* The end of the transaction: it terminates, and after a rejection the transaction
\* manager learns so.  After a 2xx it does not, and the entry of the transaction stays.
Ends == AlwaysTerminates /\ RejectedGetsDone

\* The transaction keeps the contract of the ClientTransaction interface, but for
\* the part of it that a 2xx breaks: that Done() follows termination.
Contract == INSTANCE ClientTransaction WITH
  Failure <- {Timeout, Unavailable},
  phase <- IF done THEN "done" ELSE IF state = "Terminated" THEN "terminated" ELSE "live",
  inbox <- responses
KeepsContract == Contract!Safety
=============================================================================
