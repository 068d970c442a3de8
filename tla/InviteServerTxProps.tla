------------------------- MODULE InviteServerTxProps -------------------------
(***************************************************************************)
(* The properties of InviteServerTx.                                       *)
(***************************************************************************)
EXTENDS InviteServerTx

\* The types of the variables; in Completed tx.timerH is set, which an ACK needs, and
\* so is tx.lastResponse, which timer G needs; run holds a response once it took one.
TypeOK == /\ reliable \in BOOLEAN
          /\ state \in State
          /\ mu \in Goroutine \cup {None}
          /\ lastResponse \in Response \cup {None}
          /\ responses \in {<<>>} \cup {<<m>> : m \in Message}
          /\ done \in BOOLEAN
          /\ timer \in [{"G", "H", "I"} -> TUs \cup {None}]
          /\ state = "Completed" => timer["H"] \in TUs /\ lastResponse \in Response
          /\ armed \subseteq Timer
          /\ pc \in [Goroutine -> {"idle", "select", "took", "ended", "resend",
                                   "terminate", "close", "wedged"}]
          /\ taken \in IF pc[Run] = "took" THEN Message ELSE {NoMessage}
          /\ offer \in [TUs -> Response \cup {None}]
          /\ spent \subseteq TUs
          /\ wire \subseteq Response

\* close(tx.done) happens at most once, whoever calls Terminate: a second close of a
\* channel panics and takes the whole server down.  While Done() is still open only
\* one goroutine is about to close it, and none is once it is closed.
DoneClosedOnce ==
  \A g \in Goroutine : pc[g] = "close" =>
    /\ ~done
    /\ \A h \in Goroutine : pc[h] = "close" => h = g

\* Done() does not get closed by itself: somebody is on the way to close it from the
\* moment the state is Terminated.
TerminatedHasCloser ==
  state = "Terminated" <=> done \/ \E g \in Goroutine : pc[g] = "close"

\* The types, and Done() closed exactly once by exactly one goroutine.
Inv == TypeOK /\ DoneClosedOnce /\ TerminatedHasCloser

\* Timers never desert a transaction that waits for its ACK or for stray
\* retransmissions: in Completed the current timer H runs or its callback is on the way
\* to Terminate, in Confirmed timer I or the ACK's dispatcher is, whatever a second
\* response, a late ACK or a callback that Stop came too late for has done in between.
EndIsComing ==
  mu = None =>
    /\ state = "Completed" => \E u \in TUs : /\ timer["H"] = u
                                             /\ TimerH(u) \in armed \/ pc[TimerH(u)] = "terminate"
    /\ state = "Confirmed" => \/ \E u \in TUs : TimerI(u) \in armed \/ pc[TimerI(u)] = "terminate"
                              \/ \E d \in Dispatchers : pc[Dispatch(d)] = "terminate"

\* As long as one TU only has sent a final response, no timer runs that the state has no
\* use for: every callback that Stop came too late for finds that out by itself, and
\* restarts nothing.
NoStrayTimer ==
  Cardinality(spent) <= 1 =>
    /\ state = "Completed" => armed \subseteq Current({"G", "H"})
    /\ state = "Confirmed" => armed \subseteq Current({"I"})
    /\ state \in {"Proceeding", "Terminated"} => armed = {}

\* The timers that run are the ones the state needs: the one that ends the transaction
\* is never missing, and none is left over.
TimersMatchState == EndIsComing /\ NoStrayTimer

\* Nothing leaves a terminated transaction any more and it never comes back to life: no
\* timer callback, no late response and no retransmitted request gets past the state.
SilentOnceTerminated ==
  [][state = "Terminated" =>
       state' = "Terminated" /\ wire' = wire /\ lastResponse' = lastResponse]_vars

\* Every call of Respond returns, even when the transaction ends meanwhile, unless a
\* failed write has blocked the transaction: send then calls Terminate with tx.mu locked.
RespondReturns == \A u \in TUs : offer[u] /= None ~> offer[u] = None \/ mu /= None

\* A transaction that sent a final response closes Done(), with the ACK or with timer H,
\* unless a failed write has blocked it.
FinalResponseEnds == (wire \cap (Ok \cup Fail) /= {}) ~> done \/ mu /= None

\* The transaction keeps the contract of the ServerTransaction interface.
Contract == INSTANCE ServerTransaction WITH
  Final <- Ok \cup Fail,
  phase <- IF done THEN "done" ELSE IF state = "Terminated" THEN "terminated" ELSE "live",
  accepted <- (IF taken = NoMessage THEN <<>> ELSE <<taken.res>>)
              \o (IF responses = <<>> THEN <<>> ELSE <<responses[1].res>>),
  last <- lastResponse
KeepsContract == Contract!Spec
=============================================================================
