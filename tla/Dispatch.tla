------------------------------ MODULE Dispatch ------------------------------
(***************************************************************************)
(* What happens to a request that arrives: handleRequest, handleTransaction *)
(* and handleCancel of internal/sip/server.go over the transaction manager *)
(* of internal/sip/transaction.go, and the three maps through which later  *)
(* messages find what earlier ones have started: the transactions by       *)
(* branch, server.dialogs and server.b2buaByTx.                            *)
(*                                                                         *)
(* Every datagram has a goroutine of its own.  Each access to a shared map *)
(* is one step, so that goroutines interleave between the look-up and the  *)
(* store.  A server transaction, its user and the call (B2BUA) it starts   *)
(* carry the number of the message that created them.  Transactions and    *)
(* calls are as coarse as the maps need them; their own modules are        *)
(* InviteServerTx, NonInviteServerTx and B2BUA.                            *)
(***************************************************************************)
EXTENDS Naturals

CONSTANTS Requests,     \* records: method, branch, whether it is initial (has no To tag),
                        \* dialog (of an initial INVITE, the one its call will have) and
                        \* looped (a Via header names this server)
          MaxMessages,  \* bound: datagrams that arrive
          None

ASSUME DispatchAssumption ==
  /\ MaxMessages \in Nat
  /\ None \notin 1 .. MaxMessages
  /\ None \notin Requests
  /\ \A r \in Requests : r.looped \in BOOLEAN /\ r.initial \in BOOLEAN /\ r.branch /= None
  /\ \A r \in Requests : ~r.initial \/ r.method \in {"INVITE", "UPDATE"} => r.dialog /= None

VARIABLES pc,            \* the goroutine of each message: dispatchMessage
          req,           \* the request it carries
          got,           \* the call it has found and is about to use
          tx,            \* the server transaction it has created
          tu,            \* handleTransaction for that transaction
          watched,       \* the transactions whose cleanup goroutine waits for Done()
          transactions,  \* TransactionManager.transactions, server transactions
          legs,          \* ... and client transactions: each has a branch of its own
          leg,           \* the client transaction of a call
          call,          \* the B2BUA that the transaction's user has started: Run
          cleaned,       \* the calls whose cleanup has closed b.done
          b2buaByTx,     \* server.b2buaByTx
          dialogs,       \* server.dialogs
          answered,      \* the requests that were given a final response
          rivals,        \* history: branches that two transactions or calls have shared
          crashed        \* b.done was closed twice (see B2BUA)

msgVars == <<pc, req, got>>
txVars == <<tx, tu, watched, transactions>>
callVars == <<legs, leg, call, cleaned, b2buaByTx, dialogs>>
vars == <<msgVars, txVars, callVars, answered, rivals, crashed>>

Message == 1 .. MaxMessages
Branch == {r.branch : r \in Requests}
Dialog == {r.dialog : r \in Requests} \ {None}

\* A request without a To tag belongs to no dialog yet.
DialogOf(h) == IF req[h].initial THEN None ELSE req[h].dialog

Running == {"starting", "sent", "calling", "answered", "up"}

Init == /\ pc = [h \in Message |-> "idle"]
        /\ req = [h \in Message |-> None]
        /\ got = [h \in Message |-> None]
        /\ tx = [h \in Message |-> "none"]
        /\ tu = [h \in Message |-> "none"]
        /\ watched = {}
        /\ transactions = [b \in Branch |-> None]
        /\ legs = {}
        /\ leg = [h \in Message |-> "none"]
        /\ call = [h \in Message |-> "none"]
        /\ cleaned = {}
        /\ b2buaByTx = [b \in Branch |-> None]
        /\ dialogs = [d \in Dialog |-> None]
        /\ answered = {} /\ rivals = {}
        /\ crashed = FALSE

GoTo(h, place) == pc' = [pc EXCEPT ![h] = place]

\* A final response for the transaction's request, unless it has had one: the first one
\* stands.  A 2xx ends an INVITE transaction at once.
Respond(h, next) == /\ tx' = IF tx[h] = "live" THEN [tx EXCEPT ![h] = next] ELSE tx
                    /\ answered' = answered \cup {req[h]}

-----------------------------------------------------------------------------
(* handleRequest *)

\* A datagram, new or repeated.  (Messages are numbered in the order of arrival.)
\* A request that has been here before is answered 482; all but INVITEs are looked up in
\* server.dialogs first.
Arrives(h, r) == /\ pc[h] = "idle"
                 /\ \A g \in 1 .. h - 1 : pc[g] /= "idle"
                 /\ req' = [req EXCEPT ![h] = r]
                 /\ GoTo(h, IF r.looped THEN "ended"
                            ELSE IF r.method = "INVITE" THEN "lookup" ELSE "dialog")
                 /\ answered' = IF r.looped THEN answered \cup {r} ELSE answered
                 /\ UNCHANGED <<got, txVars, callVars, rivals, crashed>>

\* The transaction that h creates will have its keys in common with another one: one that
\* is on its way into the map, or one that is over but whose call is not.
SharesKeys(h) == \E g \in Message \ {h} :
                   /\ req[g] /= None /\ req[g].branch = req[h].branch
                   /\ \/ pc[g] = "add"
                      \/ tx[g] = "over" /\ call[g] /= "none"

Creates(h, shares) ==
  /\ tx' = [tx EXCEPT ![h] = "new"]
  /\ rivals' = IF shares THEN rivals \cup {req[h].branch} ELSE rivals
  /\ GoTo(h, "add")

\* server.dialogs.Load: a request in a dialog gets a transaction without a look at
\* whether it has one already.
LooksForDialog(h) ==
  /\ pc[h] = "dialog"
  /\ \/ /\ DialogOf(h) /= None
        /\ dialogs[DialogOf(h)] /= None
        /\ got' = [got EXCEPT ![h] = dialogs[DialogOf(h)]]
        /\ Creates(h, SharesKeys(h) \/ transactions[req[h].branch] /= None)
     \/ /\ DialogOf(h) /= None => dialogs[DialogOf(h)] = None
        /\ GoTo(h, IF req[h].method = "CANCEL" THEN "cancel"
                   ELSE IF req[h].method = "ACK" THEN "ended" ELSE "lookup")
        /\ UNCHANGED <<got, tx, rivals>>
  /\ UNCHANGED <<req, tu, watched, transactions, callVars, answered, crashed>>

\* Mutant: a retransmission is not recognised.
LooksForNoTransaction(h) == /\ pc[h] = "lookup" /\ req[h].method /= "OTHER"
                            /\ Creates(h, SharesKeys(h))
                            /\ UNCHANGED <<req, got, tu, watched, transactions, callVars,
                                           answered, crashed>>

\* txManager.Get: a retransmission is given to its transaction, which repeats its last
\* response; other methods are answered 405 without a transaction.
LooksForTransaction(h) ==
  /\ pc[h] = "lookup"
  /\ \/ /\ transactions[req[h].branch] = None
        /\ req[h].method /= "OTHER"
        /\ Creates(h, SharesKeys(h))
        /\ UNCHANGED answered
     \/ /\ transactions[req[h].branch] /= None \/ req[h].method = "OTHER"
        /\ GoTo(h, "ended")
        /\ answered' = IF transactions[req[h].branch] = None THEN answered \cup {req[h]}
                                                             ELSE answered
        /\ UNCHANGED <<tx, rivals>>
  /\ UNCHANGED <<req, got, tu, watched, transactions, callVars, crashed>>

\* txManager.Add, whatever the map holds under that branch; then the request goes to its
\* call or to handleTransaction.
Adds(h) == /\ pc[h] = "add"
           /\ transactions' = [transactions EXCEPT ![req[h].branch] = h]
           /\ watched' = watched \cup {h}
           /\ tx' = [tx EXCEPT ![h] = "live"]
           /\ IF got[h] = None
              THEN GoTo(h, "ended") /\ tu' = [tu EXCEPT ![h] = "start"]
              ELSE GoTo(h, "indialog") /\ UNCHANGED tu
           /\ UNCHANGED <<req, got, callVars, answered, rivals, crashed>>

\* HandleInDialogRequest answers a BYE; an ACK and any other method get no response.
HandlesInDialog(h) ==
  /\ pc[h] = "indialog"
  /\ IF req[h].method = "BYE"
     THEN Respond(h, "completed") /\ GoTo(h, "cleanup")
     ELSE GoTo(h, "ended") /\ UNCHANGED <<tx, answered>>
  /\ UNCHANGED <<req, got, tu, watched, transactions, callVars, rivals, crashed>>

\* Mutant: Cancel is called without a look at what the map returned.
HandlesCancelUnchecked(h) ==
  /\ pc[h] = "cancel"
  /\ answered' = answered \cup {req[h]}
  /\ got' = [got EXCEPT ![h] = b2buaByTx[req[h].branch]]
  /\ GoTo(h, "cancelling")
  /\ UNCHANGED <<req, txVars, callVars, rivals, crashed>>

\* Mutant: the CANCEL is confirmed only if there is something to cancel.
HandlesCancelOfCall(h) ==
  /\ pc[h] = "cancel"
  /\ got' = [got EXCEPT ![h] = b2buaByTx[req[h].branch]]
  /\ answered' = IF got'[h] = None THEN answered ELSE answered \cup {req[h]}
  /\ GoTo(h, IF got'[h] = None THEN "ended" ELSE "cancelling")
  /\ UNCHANGED <<req, txVars, callVars, rivals, crashed>>

\* handleCancel: the CANCEL is answered 200 before anybody looks for its call.
HandlesCancel(h) ==
  /\ pc[h] = "cancel"
  /\ answered' = answered \cup {req[h]}
  /\ got' = [got EXCEPT ![h] = b2buaByTx[req[h].branch]]
  /\ GoTo(h, IF got'[h] = None THEN "ended" ELSE "cancelling")
  /\ UNCHANGED <<req, txVars, callVars, rivals, crashed>>

-----------------------------------------------------------------------------
(* handleTransaction *)

\* REGISTER: whatever handleRegister says.  Other requests of no call: 405.
Answers(h) == /\ tu[h] = "start"
              /\ req[h].method \in {"REGISTER", "BYE"}
              /\ Respond(h, "completed")
              /\ tu' = [tu EXCEPT ![h] = "ended"]
              /\ UNCHANGED <<msgVars, watched, transactions, callVars, rivals, crashed>>

\* handleInvite with a To tag: HandleInDialogRequest does nothing with it; without a
\* dialog 481.
Reinvites(h) == /\ tu[h] = "start"
                /\ req[h].method \in {"INVITE", "UPDATE"} /\ ~req[h].initial
                /\ IF dialogs[req[h].dialog] = None THEN Respond(h, "completed")
                                                    ELSE UNCHANGED <<tx, answered>>
                /\ tu' = [tu EXCEPT ![h] = "ended"]
                /\ UNCHANGED <<msgVars, watched, transactions, callVars, rivals, crashed>>

\* handleInvite: refused (400, 404, 480), or taken by the guidance application, which
\* is in no map.
Refuses(h) == /\ tu[h] = "start"
              /\ req[h].method \in {"INVITE", "UPDATE"} /\ req[h].initial
              /\ \E next \in {"completed", "over"} : Respond(h, next)
              /\ tu' = [tu EXCEPT ![h] = "ended"]
              /\ UNCHANGED <<msgVars, watched, transactions, callVars, rivals, crashed>>

\* handleInvite: a new B2BUA, entered under the branch of the INVITE.
StartsCall(h) == /\ tu[h] = "start"
                 /\ req[h].method \in {"INVITE", "UPDATE"} /\ req[h].initial
                 /\ b2buaByTx' = [b2buaByTx EXCEPT ![req[h].branch] = h]
                 /\ call' = [call EXCEPT ![h] = "starting"]
                 /\ tu' = [tu EXCEPT ![h] = "ended"]
                 /\ UNCHANGED <<msgVars, tx, watched, transactions, legs, leg, cleaned, dialogs,
                                answered, rivals, crashed>>

-----------------------------------------------------------------------------
(* The call *)

\* NewInviteClientTx sends the INVITE, Add enters its transaction: a response that comes
\* in between finds no transaction and is dropped (handleResponse).
CallSends(h) == /\ call[h] = "starting"
                /\ call' = [call EXCEPT ![h] = "sent"]
                /\ leg' = [leg EXCEPT ![h] = "live"]
                /\ UNCHANGED <<msgVars, txVars, legs, cleaned, b2buaByTx, dialogs, answered,
                               rivals, crashed>>

CallAdds(h) == /\ call[h] = "sent"
               /\ legs' = legs \cup {h}
               /\ call' = [call EXCEPT ![h] = "calling"]
               /\ UNCHANGED <<msgVars, txVars, leg, cleaned, b2buaByTx, dialogs, answered,
                              rivals, crashed>>

\* A 200 of the callee, found by its branch and relayed.  It ends the client transaction,
\* whose Done() stays open (see InviteClientTx).
CalleeAnswers(h) == /\ call[h] = "calling" /\ h \in legs /\ leg[h] = "live"
                    /\ Respond(h, "over")
                    /\ call' = [call EXCEPT ![h] = "answered"]
                    /\ leg' = [leg EXCEPT ![h] = "answered"]
                    /\ UNCHANGED <<msgVars, tu, watched, transactions, legs, cleaned,
                                   b2buaByTx, dialogs, rivals, crashed>>

\* establishDialogs, also of a call that was cancelled meanwhile.
CallEstablishes(h) == /\ call[h] = "answered"
                      /\ dialogs' = [dialogs EXCEPT ![req[h].dialog] = h]
                      /\ call' = [call EXCEPT ![h] = "up"]
                      /\ UNCHANGED <<msgVars, txVars, legs, leg, cleaned, b2buaByTx, answered,
                                     rivals, crashed>>

\* Mutant: the callee's leg is left alone.
TerminatesNothing(h) == UNCHANGED leg

TerminatesLeg(h) ==
  leg' = IF leg[h] = "live" THEN [leg EXCEPT ![h] = "terminated"] ELSE leg

\* Run is over and closes b.done.
RunReturns(h) == /\ call' = [call EXCEPT ![h] = "ended"]
                 /\ crashed' = (h \in cleaned)

\* Run refuses, the callee rejects, nobody answers in time or the caller's transaction is
\* over: a final response, and Run ends without cleanup.
CallFails(h) == /\ call[h] \in {"starting", "calling"}
                /\ Respond(h, "completed")
                /\ TerminatesLeg(h)
                /\ RunReturns(h)
                /\ UNCHANGED <<msgVars, tu, watched, transactions, legs, cleaned, b2buaByTx,
                               dialogs, rivals>>

\* waitForDialogMessages
CallEnds(h) == /\ call[h] = "up" /\ h \in cleaned
               /\ RunReturns(h)
               /\ UNCHANGED <<msgVars, txVars, legs, leg, cleaned, b2buaByTx, dialogs,
                              answered, rivals>>

\* Cancel: the callee's leg is cancelled, the INVITE answered 487.
CancelsCall(h) == /\ pc[h] = "cancelling"
                  /\ TerminatesLeg(got[h])
                  /\ Respond(got[h], "completed")
                  /\ GoTo(h, "cleanup")
                  /\ UNCHANGED <<req, got, tu, watched, transactions, legs, call, cleaned,
                                 b2buaByTx, dialogs, rivals, crashed>>

\* cleanup: the keys of the call are deleted, whoever has entered them, and b.done is
\* closed unless it is.
CleansUp(h) ==
  /\ pc[h] = "cleanup"
  /\ LET c == got[h] IN
     /\ dialogs' = IF call[c] = "up" THEN [dialogs EXCEPT ![req[c].dialog] = None] ELSE dialogs
     /\ b2buaByTx' = [b2buaByTx EXCEPT ![req[c].branch] = None]
     /\ cleaned' = IF call[c] = "ended" THEN cleaned ELSE cleaned \cup {c}
  /\ GoTo(h, "ended")
  /\ UNCHANGED <<req, got, txVars, legs, leg, call, answered, rivals, crashed>>

-----------------------------------------------------------------------------
(* The ends of transactions, and TransactionManager.Remove *)

\* A final response, then its ACK or a timer; a transaction without one has no end.
TxEnds(h) == /\ tx[h] = "completed"
             /\ tx' = [tx EXCEPT ![h] = "over"]
             /\ UNCHANGED <<msgVars, tu, watched, transactions, callVars, answered, rivals,
                            crashed>>

\* Done() is closed: whatever is entered under the branch is deleted.
Removes(h) == /\ h \in watched /\ tx[h] = "over"
              /\ watched' = watched \ {h}
              /\ transactions' = [transactions EXCEPT ![req[h].branch] = None]
              /\ UNCHANGED <<msgVars, tx, tu, callVars, answered, rivals, crashed>>

RemovesLeg(h) == /\ h \in legs /\ leg[h] = "terminated"
                 /\ legs' = legs \ {h}
                 /\ UNCHANGED <<msgVars, txVars, leg, call, cleaned, b2buaByTx, dialogs,
                                answered, rivals, crashed>>

-----------------------------------------------------------------------------
HandlerStep(h) == \/ LooksForDialog(h) \/ LooksForTransaction(h) \/ Adds(h)
                  \/ HandlesInDialog(h) \/ HandlesCancel(h) \/ CancelsCall(h) \/ CleansUp(h)
UserStep(h) == Answers(h) \/ Reinvites(h) \/ Refuses(h) \/ StartsCall(h)
CallStep(h) == \/ CallSends(h) \/ CallAdds(h) \/ CalleeAnswers(h) \/ CallEstablishes(h)
               \/ CallFails(h) \/ CallEnds(h)
EndStep(h) == TxEnds(h) \/ Removes(h) \/ RemovesLeg(h)
Step(h) == HandlerStep(h) \/ UserStep(h) \/ CallStep(h) \/ EndStep(h)

Next == /\ ~crashed
        /\ \E h \in Message : Step(h) \/ \E r \in Requests : Arrives(h, r)

\* Goroutines that can run do run, timers expire, and a call that nobody answers fails in
\* the end (CallerGetsFinal of B2BUA).  No step leads back, so that it is enough that the
\* server does not stop.  Nobody is obliged to send anything.
Fairness == WF_vars(~crashed /\ \E h \in Message : Step(h))

Safety == Init /\ [][Next]_vars
Spec == Safety /\ Fairness
=============================================================================
