----------------------- MODULE NonInviteServerTxProps -----------------------
(***************************************************************************)
(* The properties of NonInviteServerTx.                                    *)
(***************************************************************************)
EXTENDS NonInviteServerTx

\* The types of the variables; every field and queue of the transaction.
TypeOK == /\ reliable \in BOOLEAN
          /\ state \in State
          /\ mu \in Goroutine \cup {None}
          /\ lastResponse \in Response \cup {None}
          /\ responses \in {<<>>} \cup {<<r>> : r \in Response}
          /\ done \in BOOLEAN /\ armed \in BOOLEAN
          /\ pc \in [Goroutine -> {"idle", "select", "took", "ended", "terminate", "close",
                                   "wedged"}]
          /\ taken \in Response \cup {None}
          /\ offer \in [TUs -> Response \cup {None}]
          /\ wire \subseteq Response

\* close(tx.done) happens at most once: run on TCP and timer J never both do it.
DoneClosedOnce ==
  \A g \in Goroutine : pc[g] = "close" =>
    /\ ~done
    /\ \A h \in Goroutine : pc[h] = "close" => h = g

\* The request has one final answer: whatever else the users of the transaction hand
\* over, and however the goroutines interleave, the final response that was sent first
\* is the only one that is ever sent and the one that retransmissions get.
FirstFinalStands ==
  [][(lastResponse \in Final) => /\ lastResponse' = lastResponse
                               /\ wire' \subseteq wire \cup {lastResponse}]_vars

\* A transaction that has sent its final response has its end ahead: timer J, its
\* callback, or on TCP run on the way to Terminate.
EndIsComing == mu = None /\ state = "Completed" =>
                 armed \/ pc[TimerJ] = "terminate" \/ pc[Run] = "terminate"

\* The types, one close of Done(), and the end of an answered transaction ahead.
Inv == TypeOK /\ DoneClosedOnce /\ EndIsComing

\* Every call of Respond returns, also when nobody reads the channel any more, unless a
\* failed write has blocked the transaction.
RespondReturns == \A u \in TUs : offer[u] /= None ~> offer[u] = None \/ mu /= None

\* A transaction that sent its final response closes Done(), unless a failed write has
\* blocked it.
FinalResponseEnds == (wire \cap Final /= {}) ~> done \/ mu /= None

\* Neither the users nor the transaction manager wait for ever.
NobodyWaits == RespondReturns /\ FinalResponseEnds

\* The transaction keeps the contract of the ServerTransaction interface.
Contract == INSTANCE ServerTransaction WITH
  phase <- IF done THEN "done" ELSE IF state = "Terminated" THEN "terminated" ELSE "live",
  accepted <- (IF taken = None THEN <<>> ELSE <<taken>>) \o responses,
  last <- lastResponse
KeepsContract == Contract!Spec
=============================================================================
