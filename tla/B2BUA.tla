------------------------------- MODULE B2BUA -------------------------------
(***************************************************************************)
(* One call through the back-to-back user agent of internal/sip/b2bua.go:  *)
(* Run and mediate, the goroutines of CANCEL requests, of the caller's ACK *)
(* and BYE, of the callee's BYE and of the web interface's Disconnect, and *)
(* the two transaction legs they share.                                    *)
(*                                                                         *)
(* The legs are as coarse as the call needs them.  The caller's leg is an  *)
(* InviteServerTx: a channel of one response, and a state.  The callee's   *)
(* leg is a sequence of InviteClientTx (a 422 is answered with a new one): *)
(* an inbox of one response that loses what does not fit, the last         *)
(* response, and a state in which "answered" is a transaction ended by a   *)
(* 2xx, whose Done() stays open (see InviteClientTx).                      *)
(*                                                                         *)
(* A call of close(b.done) on the closed channel panics; nothing recovers, *)
(* the process is gone and crashed stops every action.                     *)
(***************************************************************************)
EXTENDS Naturals, Sequences, FiniteSets

CONSTANTS Cancels,      \* goroutines of CANCEL requests (a CANCEL may be retransmitted)
          HangUps,      \* goroutines that end an answered call, see Kind
          Kind,         \* Kind[h]: "bye" of the caller, or "disconnect" of the web interface
          MaxTx         \* bound: INVITEs sent to the callee, 1 plus the retries after a 422

Tx == 1 .. MaxTx

ASSUME B2BUAAssumption ==
  /\ "Run" \notin Cancels \cup HangUps /\ Cancels \cap HangUps = {}
  /\ MaxTx \in Nat \ {0}
  /\ Kind \in [HangUps -> {"bye", "disconnect"}]

NoTx == 0
NoResponse == "none"
Ringing == "180"
Answer == "200"
Reject == "486"
Interval == "422"
Timeout == "408"
Failure == "500"
Cancelled == "487"
Final == {Answer, Reject, Interval, Timeout, Failure, Cancelled}
Response == Final \cup {Ringing}

\* getDialogID(Call-ID, From tag, To tag), of the dialogs as establishDialogs stores them
\* and of the requests as the caller and the callee send them.
DialogID(call, from, to) == <<call, from, to>>
UASDialogID == DialogID("caller's", "caller", "b2bua")
UACDialogID == DialogID("b2bua's", "b2bua", "callee")
CallerRequestID == DialogID("caller's", "caller", "b2bua")
CalleeRequestID == DialogID("b2bua's", "callee", "b2bua")

VARIABLES
  pc,           \* where Run, each Cancel and each hang-up is
  cur,          \* the client transaction that mediate was called with, or NoTx
  virtualUACTx, \* b.virtualUACTx: its index, or NoTx
  res,          \* the response in the hands of mediate
  bdone,        \* b.done is closed
  crashed,      \* the process has panicked
  established,  \* b.virtualUASDialogID and b.virtualUACDialogID are set
  dialogs,      \* the keys of this B2BUA in server.dialogs
  byTx,         \* this B2BUA is in server.b2buaByTx
  leg,          \* the transaction a Cancel is about to terminate
  misread,      \* history: the 200 of a CANCEL was taken for the 200 of its INVITE
  uac,          \* the client transactions
  uas,          \* the server transaction
  caller,       \* the final responses the caller got, its ACK, and a BYE either way
  callee        \* per INVITE, what the callee did and what it was told

vars == <<pc, cur, virtualUACTx, res, bdone, crashed, established, dialogs, byTx,
          leg, misread, uac, uas, caller, callee>>

b2buaVars == <<cur, virtualUACTx, res, established>>
serverVars == <<dialogs, byTx>>
cancelVars == <<leg, misread>>

Goroutine == {"Run"} \cup Cancels \cup HangUps

\* handleInvite has stored the B2BUA in b2buaByTx and starts Run.
Init == /\ pc = [g \in Goroutine |-> IF g = "Run" THEN "start" ELSE "idle"]
        /\ cur = NoTx /\ virtualUACTx = NoTx
        /\ res = NoResponse
        /\ bdone = FALSE /\ crashed = FALSE
        /\ established = FALSE
        /\ dialogs = {} /\ byTx = TRUE
        /\ leg = [c \in Cancels |-> NoTx] /\ misread = FALSE
        /\ uac = [i \in Tx |-> [state |-> "none", inbox |-> <<>>, last |-> NoResponse,
                              timerB |-> "off"]]
        /\ uas = [state |-> "proceeding", channel |-> <<>>, last |-> NoResponse]
        /\ caller = [finals |-> {}, acked |-> FALSE, bye |-> FALSE]
        /\ callee = [i \in Tx |-> [did |-> "nothing", cancelled |-> FALSE, acked |-> FALSE,
                                   bye |-> FALSE]]

-----------------------------------------------------------------------------
GoTo(g, l) == pc' = [pc EXCEPT ![g] = l]

\* b.mu: the only critical section that is more than one step is the end of cleanup.
MuFree == \A h \in Goroutine : pc[h] /= "close"

UacDone(i) == uac[i].state = "terminated"
UasDone == uas.state = "terminated"

\* Terminate of a client transaction: one that a 2xx has ended stays as it is.
Terminated(i) == IF uac[i].state \in {"calling", "completed"}
                 THEN [uac EXCEPT ![i].state = "terminated",
                                  ![i].timerB = IF @ = "armed" THEN "off" ELSE @]
                 ELSE uac

\* A CANCEL to the callee; Terminate comes after that.
SendsCancel(i) == callee' = [callee EXCEPT ![i].cancelled = TRUE]

\* virtualUASTx.Respond(r): r goes into the channel, or the transaction is over.
Respond(r) == \/ uas.channel = <<>> /\ uas' = [uas EXCEPT !.channel = <<r>>]
              \/ UasDone /\ UNCHANGED uas

\* NewInviteClientTx and its first INVITE.
Invite(i) == /\ uac' = [uac EXCEPT ![i].state = "calling", ![i].timerB = "armed"]
             /\ callee' = [callee EXCEPT ![i].did = "invited"]

-----------------------------------------------------------------------------
(* Run and mediate *)

\* Run refuses the call: a bad Session-Expires, target URI or address, no connection.
RunRefuses == /\ pc["Run"] = "start"
              /\ \E r \in {Interval, Failure} : Respond(r)
              /\ GoTo("Run", "exit")
              /\ UNCHANGED <<b2buaVars, serverVars, cancelVars, bdone, crashed, uac, caller, callee>>

\* Run calls the callee; nobody else knows the transaction yet.
RunInvites == /\ pc["Run"] = "start"
              /\ Invite(1)
              /\ cur' = 1
              /\ GoTo("Run", "publish")
              /\ UNCHANGED <<virtualUACTx, res, established, serverVars, cancelVars, bdone, crashed,
                             uas, caller>>

\* b.virtualUACTx = the new transaction.
RunPublishes == /\ pc["Run"] = "publish" /\ MuFree
                /\ virtualUACTx' = cur
                /\ GoTo("Run", "mediate")
                /\ UNCHANGED <<cur, res, established, serverVars, cancelVars, bdone, crashed, uac, uas,
                               caller, callee>>

\* Mutant: a timeout is tried again like a 422.
MediateReadsRetrying == /\ pc["Run"] = "mediate"
                        /\ uac[cur].inbox /= <<>>
                        /\ res' = Head(uac[cur].inbox)
                        /\ uac' = [uac EXCEPT ![cur].inbox = <<>>]
                        /\ GoTo("Run", IF res' \in {Interval, Timeout} THEN "retry" ELSE "relay")
                        /\ UNCHANGED <<cur, virtualUACTx, established, serverVars, cancelVars,
                                       bdone, crashed,
                                       uas, caller, callee>>

\* A response of the callee's leg: a 422 is tried again, everything else is relayed.
MediateReads == /\ pc["Run"] = "mediate"
                /\ uac[cur].inbox /= <<>>
                /\ res' = Head(uac[cur].inbox)
                /\ uac' = [uac EXCEPT ![cur].inbox = <<>>]
                /\ GoTo("Run", IF res' = Interval THEN "retry" ELSE "relay")
                /\ UNCHANGED <<cur, virtualUACTx, established, serverVars, cancelVars, bdone, crashed,
                               uas, caller, callee>>

\* A new INVITE with the interval the callee asked for; a 422 without Min-SE is relayed
\* like any other rejection.
MediateRetries == /\ pc["Run"] = "retry"
                  /\ \/ /\ cur < MaxTx
                        /\ Invite(cur + 1)
                        /\ cur' = cur + 1
                        /\ GoTo("Run", "publish")
                     \/ /\ GoTo("Run", "relay")
                        /\ UNCHANGED <<cur, uac, callee>>
                  /\ UNCHANGED <<virtualUACTx, res, established, serverVars, cancelVars, bdone, crashed,
                                 uas, caller>>

\* A 1xx leads back to the loop, a 2xx on to the dialogs, a rejection out of mediate.
MediateRelays == /\ pc["Run"] = "relay"
                 /\ Respond(res)
                 /\ GoTo("Run", IF res = Ringing THEN "mediate"
                                ELSE IF res = Answer THEN "establish" ELSE "exit")
                 /\ UNCHANGED <<b2buaVars, serverVars, cancelVars, bdone, crashed, uac, caller, callee>>

\* establishDialogs, then createOrUpdateSession (module-wide state, not of this call).
MediateEstablishes == /\ pc["Run"] = "establish" /\ MuFree
                      /\ established' = TRUE
                      /\ dialogs' = {UASDialogID, UACDialogID}
                      /\ GoTo("Run", "wait")
                      /\ UNCHANGED <<cur, virtualUACTx, res, byTx, cancelVars, bdone, crashed, uac, uas,
                                     caller, callee>>

\* waitForDialogMessages
MediateWaits == /\ pc["Run"] = "wait"
                /\ bdone
                /\ GoTo("Run", "exit")
                /\ UNCHANGED <<b2buaVars, serverVars, cancelVars, bdone, crashed, uac, uas, caller,
                               callee>>

\* Mutant: the callee's leg is left alone.
MediateForgetsLeg == /\ pc["Run"] = "mediate"
                     /\ UasDone
                     /\ GoTo("Run", "exit")
                     /\ UNCHANGED <<b2buaVars, serverVars, cancelVars, bdone, crashed, uac, uas,
                                    caller, callee>>

\* The caller's leg is over: the callee's is cancelled.
MediateSeesDone == /\ pc["Run"] = "mediate"
                   /\ UasDone
                   /\ \/ UacDone(cur) /\ GoTo("Run", "exit") /\ UNCHANGED callee
                      \/ ~UacDone(cur) /\ SendsCancel(cur) /\ GoTo("Run", "abandon")
                   /\ UNCHANGED <<b2buaVars, serverVars, cancelVars, bdone, crashed, uac, uas,
                                  caller>>

\* Mutant: no timeout in mediate's select.
MediateWaitsForEver == FALSE

\* Mutant: mediate goes on after its timeout.
MediateTimesOutAndGoesOn == /\ pc["Run"] = "mediate"
                            /\ Respond(Timeout)
                            /\ UNCHANGED <<pc, b2buaVars, serverVars, cancelVars, bdone, crashed,
                                           uac, caller,
                                           callee>>

\* 32 s without a response: 408 to the caller, the callee's leg is terminated.
MediateTimesOut == /\ pc["Run"] = "mediate"
                   /\ Respond(Timeout)
                   /\ res' = Timeout
                   /\ GoTo("Run", "abandon")
                   /\ UNCHANGED <<cur, virtualUACTx, established, serverVars, cancelVars, bdone,
                                  crashed, uac, caller, callee>>

MediateAbandons == /\ pc["Run"] = "abandon"
                   /\ uac' = Terminated(cur)
                   /\ GoTo("Run", "exit")
                   /\ UNCHANGED <<b2buaVars, serverVars, cancelVars, bdone, crashed, uas, caller,
                                  callee>>

\* The deferred close(b.done), without a look at whether it is closed.
RunExits == /\ pc["Run"] = "exit"
            /\ IF bdone THEN crashed' = TRUE /\ UNCHANGED bdone
                        ELSE bdone' = TRUE /\ UNCHANGED crashed
            /\ GoTo("Run", "ended")
            /\ UNCHANGED <<b2buaVars, serverVars, cancelVars, uac, uas, caller, callee>>

RunStep == \/ RunRefuses \/ RunInvites \/ RunPublishes \/ MediateReads \/ MediateRetries
           \/ MediateRelays \/ MediateEstablishes \/ MediateWaits \/ MediateSeesDone
           \/ MediateAbandons \/ RunExits

-----------------------------------------------------------------------------
(* Cancel *)

\* The caller cancels while it waits for a final response; handleCancel finds the B2BUA.
CancelStarts(c) == /\ pc[c] = "idle"
                   /\ byTx
                   /\ GoTo(c, "cancel")
                   /\ UNCHANGED <<b2buaVars, serverVars, cancelVars, bdone, crashed, uac, uas, caller,
                                  callee>>

\* The leg that b.virtualUACTx names, if there is one that is not over.
CancelsLeg(c) == /\ pc[c] = "cancel" /\ MuFree
                 /\ virtualUACTx /= NoTx /\ ~UacDone(virtualUACTx)
                 /\ SendsCancel(virtualUACTx)
                 /\ leg' = [leg EXCEPT ![c] = virtualUACTx]
                 /\ GoTo(c, "terminate")
                 /\ UNCHANGED <<b2buaVars, serverVars, misread, bdone, crashed, uac, uas, caller>>

CancelsNothing(c) == /\ pc[c] = "cancel" /\ MuFree
                     /\ virtualUACTx /= NoTx => UacDone(virtualUACTx)
                     /\ GoTo(c, "respond")
                     /\ UNCHANGED <<b2buaVars, serverVars, cancelVars, bdone, crashed, uac, uas,
                                    caller, callee>>

TerminatesLeg(c) == /\ pc[c] = "terminate"
                    /\ uac' = Terminated(leg[c])
                    /\ leg' = [leg EXCEPT ![c] = NoTx]
                    /\ GoTo(c, "respond")
                    /\ UNCHANGED <<b2buaVars, serverVars, misread, bdone, crashed, uas, caller,
                                   callee>>

\* Mutant: the 200 of the CANCEL goes to the INVITE.
CancelConfirms(c) == /\ pc[c] = "respond"
                     /\ Respond(Answer)
                     /\ GoTo(c, "cleanup")
                     /\ UNCHANGED <<b2buaVars, serverVars, cancelVars, bdone, crashed, uac, caller,
                                    callee>>

CancelResponds(c) == /\ pc[c] = "respond"
                     /\ Respond(Cancelled)
                     /\ GoTo(c, "cleanup")
                     /\ UNCHANGED <<b2buaVars, serverVars, cancelVars, bdone, crashed, uac, caller,
                                    callee>>

-----------------------------------------------------------------------------
(* Requests of an established dialog *)

\* HandleInDialogRequest is reached through server.dialogs only.
InDialog(id) == id \in dialogs

\* The caller acknowledges the 200 once.  In the dialog, an ACK of the callee's dialog is
\* built from the last response, if that is a 2xx.  Otherwise the ACK is dropped.
CallerAcks == /\ MuFree
              /\ Answer \in caller.finals /\ ~caller.acked
              /\ caller' = [caller EXCEPT !.acked = TRUE]
              /\ callee' = IF /\ InDialog(CallerRequestID)
                              /\ uac[virtualUACTx].last = Answer
                           THEN [callee EXCEPT ![virtualUACTx].acked = TRUE]
                           ELSE callee
              /\ UNCHANGED <<pc, b2buaVars, serverVars, cancelVars, bdone, crashed, uac, uas>>

\* The caller hangs up: its BYE is forwarded to the callee with the callee's Call-ID and
\* everything else, the tags included, as it was: the callee has no such dialog.
ForwardedByeID == DialogID("b2bua's", "caller", "b2bua")

ByeForwarded(h) == /\ MuFree /\ pc[h] = "idle" /\ Kind[h] = "bye"
                   /\ Answer \in caller.finals
                   /\ InDialog(CallerRequestID)
                   /\ caller' = [caller EXCEPT !.bye = TRUE]
                   /\ callee' = IF ForwardedByeID = UACDialogID
                                THEN [callee EXCEPT ![virtualUACTx].bye = TRUE] ELSE callee
                   /\ GoTo(h, "cleanup")
                   /\ UNCHANGED <<b2buaVars, serverVars, cancelVars, bdone, crashed, uac, uas>>

\* Disconnect: a BYE in each leg's dialog, built from the last response of the leg.
Disconnects(h) == /\ MuFree /\ pc[h] = "idle" /\ Kind[h] = "disconnect"
                  /\ dialogs /= {}
                  /\ callee' = IF uac[virtualUACTx].last = Answer
                               THEN [callee EXCEPT ![virtualUACTx].bye = TRUE] ELSE callee
                  /\ caller' = [caller EXCEPT !.bye = @ \/ uas.last = Answer]
                  /\ GoTo(h, "cleanup")
                  /\ UNCHANGED <<b2buaVars, serverVars, cancelVars, bdone, crashed, uac, uas>>

\* The callee hangs up: no dialog has the ID of its BYE, which is answered with a 405.
CalleeByes(i) == /\ callee[i].did = "answered"
                 /\ callee' = [callee EXCEPT ![i].did =
                                 IF InDialog(CalleeRequestID) THEN "hungup" ELSE "refused"]
                 /\ UNCHANGED <<pc, b2buaVars, serverVars, cancelVars, bdone, crashed, uac, uas,
                                caller>>

-----------------------------------------------------------------------------
(* cleanup, under b.mu, which Run does not take to close b.done.  Nobody looks the call
   up between the deletions of its keys and of its b2buaByTx entry with a different
   outcome than before or after them all. *)

\* Mutant: one of the two keys is deleted.
CleansHalf(g) == /\ pc[g] = "cleanup" /\ MuFree
                 /\ dialogs' = dialogs \ {UASDialogID}
                 /\ byTx' = FALSE
                 /\ GoTo(g, IF bdone THEN "ended" ELSE "close")
                 /\ UNCHANGED <<b2buaVars, cancelVars, bdone, crashed, uac, uas, caller, callee>>

Cleans(g) == /\ pc[g] = "cleanup" /\ MuFree
             /\ dialogs' = IF established THEN {} ELSE dialogs
             /\ byTx' = FALSE
             /\ GoTo(g, IF bdone THEN "ended" ELSE "close")
             /\ UNCHANGED <<b2buaVars, cancelVars, bdone, crashed, uac, uas, caller, callee>>

Closes(g) == /\ pc[g] = "close"
             /\ IF bdone THEN crashed' = TRUE /\ UNCHANGED bdone
                         ELSE bdone' = TRUE /\ UNCHANGED crashed
             /\ GoTo(g, "ended")
             /\ UNCHANGED <<b2buaVars, serverVars, cancelVars, uac, uas, caller, callee>>

-----------------------------------------------------------------------------
(* The caller's leg: InviteServerTx *)

UasSends == /\ uas.channel /= <<>>
            /\ LET r == Head(uas.channel) IN
               IF UasDone
               THEN uas' = [uas EXCEPT !.channel = <<>>] /\ UNCHANGED caller
               ELSE /\ uas' = [state |-> IF r = Ringing THEN uas.state
                                         ELSE IF r = Answer THEN "terminated" ELSE "completed",
                               channel |-> <<>>,
                               last |-> r]
                    /\ caller' = [caller EXCEPT !.finals = @ \cup ({r} \cap Final)]
            /\ UNCHANGED <<pc, b2buaVars, serverVars, cancelVars, bdone, crashed, uac, callee>>

\* The ACK of a rejection and timer I, or timer H without one.
UasEnds == /\ uas.state = "completed"
           /\ uas' = [uas EXCEPT !.state = "terminated"]
           /\ UNCHANGED <<pc, b2buaVars, serverVars, cancelVars, bdone, crashed, uac, caller, callee>>

-----------------------------------------------------------------------------
(* The callee's leg: InviteClientTx *)

Delivered(i, r) == IF uac[i].inbox = <<>> THEN <<r>> ELSE uac[i].inbox

\* A 1xx: the last response in any case, delivered until the transaction is terminated.
CalleeRings(i) == /\ callee[i].did /= "nothing"
                  /\ uac' = [uac EXCEPT ![i].last = Ringing,
                                        ![i].inbox = IF uac[i].state \in {"calling", "completed"}
                                                     THEN Delivered(i, Ringing) ELSE @]
                  /\ UNCHANGED <<pc, b2buaVars, serverVars, cancelVars, bdone, crashed, uas,
                                 caller, callee>>

\* A final response: the last response in any case, the rest only while the call is open.
UacReceivesFinal(i, r, next) ==
  uac' = IF uac[i].state = "calling"
         THEN [uac EXCEPT ![i].state = next, ![i].inbox = Delivered(i, r), ![i].last = r]
         ELSE [uac EXCEPT ![i].last = r]

\* A 200 is repeated until its ACK has come.
CalleeAnswers(i) == /\ \/ callee[i].did = "invited"
                       \/ callee[i].did = "answered" /\ ~callee[i].acked
                    /\ UacReceivesFinal(i, Answer, "answered")
                    /\ callee' = [callee EXCEPT ![i].did = "answered"]
                    /\ UNCHANGED <<pc, b2buaVars, serverVars, cancelVars, bdone, crashed, uas, caller>>

\* The 200 of the CANCEL: it has the branch of the INVITE, and handleResponse goes by that.
CalleeConfirmsCancel(i) ==
  /\ callee[i].cancelled
  /\ UacReceivesFinal(i, Answer, "answered")
  /\ misread' = (misread \/ uac[i].state = "calling")
  /\ UNCHANGED <<pc, b2buaVars, serverVars, leg, bdone, crashed, uas, caller, callee>>

CalleeRejects(i) == /\ callee[i].did = "invited"
                    /\ \E r \in {Reject, Interval} : UacReceivesFinal(i, r, "completed")
                    /\ callee' = [callee EXCEPT ![i].did = "rejected"]
                    /\ UNCHANGED <<pc, b2buaVars, serverVars, cancelVars, bdone, crashed, uas, caller>>

\* Timer B, which nothing but Terminate stops: a 408 in the inbox, then Terminate.
UacTimesOut(i) == /\ uac[i].timerB = "armed"
                  /\ uac[i].inbox = <<>>
                  /\ uac' = [Terminated(i) EXCEPT ![i].inbox = <<Timeout>>, ![i].timerB = "fired"]
                  /\ UNCHANGED <<pc, b2buaVars, serverVars, cancelVars, bdone, crashed, uas,
                                 caller, callee>>

\* Timer D of a rejected INVITE; on TCP it ends at once.
UacEnds(i) == /\ uac[i].state = "completed"
              /\ uac' = Terminated(i)
              /\ UNCHANGED <<pc, b2buaVars, serverVars, cancelVars, bdone, crashed, uas, caller,
                             callee>>

-----------------------------------------------------------------------------
CancelStep(c) == CancelsLeg(c) \/ CancelsNothing(c) \/ TerminatesLeg(c) \/ CancelResponds(c)
                 \/ Cleans(c) \/ Closes(c)
HangUpStep(h) == Cleans(h) \/ Closes(h)

Next == /\ ~crashed
        /\ \/ RunStep \/ MediateTimesOut
           \/ \E c \in Cancels : CancelStarts(c) \/ CancelStep(c)
           \/ \E h \in HangUps : ByeForwarded(h) \/ Disconnects(h) \/ HangUpStep(h)
           \/ CallerAcks \/ UasSends \/ UasEnds
           \/ \E i \in Tx : \/ CalleeRings(i) \/ CalleeAnswers(i) \/ CalleeRejects(i)
                            \/ CalleeConfirmsCancel(i)
                            \/ CalleeByes(i) \/ UacTimesOut(i) \/ UacEnds(i)

\* Goroutines that can run do run and timers of the transactions expire.  mediate's own
\* 32 s start anew with every response, so that they are only over if it stays in its
\* select for good.  Nobody is obliged to answer, to cancel or to hang up.
Fairness == /\ WF_vars(~crashed /\ RunStep) /\ WF_vars(~crashed /\ MediateTimesOut)
            /\ \A c \in Cancels : WF_vars(~crashed /\ CancelStep(c))
            /\ \A h \in HangUps : WF_vars(~crashed /\ HangUpStep(h))
            /\ WF_vars(~crashed /\ UasSends) /\ WF_vars(~crashed /\ UasEnds)
            /\ \A i \in Tx : SF_vars(~crashed /\ UacTimesOut(i)) /\ WF_vars(~crashed /\ UacEnds(i))

Safety == Init /\ [][Next]_vars
Spec == Safety /\ Fairness
=============================================================================
