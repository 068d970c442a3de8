---------------------------- MODULE B2BUAProofs ----------------------------
(***************************************************************************)
(* What TLC checks of B2BUA on small instances, proved for any number of   *)
(* CANCELs, of hang-ups and of retries after a 422.                        *)
(***************************************************************************)
EXTENDS B2BUAProps, FiniteSetTheorems, TLAPS

USE DEF NoTx, NoResponse, Ringing, Answer, Reject, Interval, Timeout, Failure, Cancelled

\* The goroutines are different goroutines.
LEMMA GoroutineNames ==
  /\ "Run" \in Goroutine /\ Cancels \subseteq Goroutine /\ HangUps \subseteq Goroutine
  /\ \A g \in Cancels \cup HangUps : g /= "Run"
  /\ \A c \in Cancels, h \in HangUps : c /= h
BY B2BUAAssumption DEF Goroutine

\* A client transaction is numbered from 1, so that NoTx is none.
LEMMA TxNumbers ==
  /\ Tx \subseteq Int /\ 1 \in Tx /\ 0 \notin Tx
  /\ \A i \in Tx : i < MaxTx => i + 1 \in Tx
BY B2BUAAssumption DEF Tx

-----------------------------------------------------------------------------
(***************************************************************************)
(* The types.  They hold because Run has a transaction and a response in   *)
(* its hands wherever it uses them.                                        *)
(***************************************************************************)

\* Where each goroutine can be.
Places ==
  /\ pc["Run"] \in {"start", "publish", "mediate", "retry", "relay", "establish", "wait",
                    "abandon", "exit", "ended"}
  /\ \A c \in Cancels : pc[c] \in {"idle", "cancel", "terminate", "respond", "cleanup", "close",
                                   "ended"}
  /\ \A h \in HangUps : pc[h] \in {"idle", "cleanup", "close", "ended"}

\* What Run and the Cancels have in their hands.
InHand ==
  /\ pc["Run"] \notin {"start", "exit", "ended"} => cur \in Tx
  /\ pc["Run"] \in {"retry", "relay"} => res \in Response
  /\ pc["Run"] = "retry" => res = Interval
  /\ \A c \in Cancels : pc[c] = "terminate" => leg[c] \in Tx

Typed == TypeOK /\ Places /\ InHand

\* What Terminate does to the client transactions.
LEMMA TerminatedIs ==
  ASSUME uac \in [Tx -> UacType], NEW i \in Tx
  PROVE  /\ Terminated(i) \in [Tx -> UacType]
         /\ \A j \in Tx :
              /\ Terminated(i)[j].inbox = uac[j].inbox
              /\ Terminated(i)[j].state \in {uac[j].state, "terminated"}
              /\ Terminated(i)[j].state = "terminated" =>
                   uac[j].state = "terminated"
                   \/ (j = i /\ uac[i].state \in {"calling", "completed"})
              /\ Terminated(i)[j].timerB = "fired" <=> uac[j].timerB = "fired"
              /\ Terminated(i)[j].timerB = "armed" => uac[j].timerB = "armed"
<1>1. CASE uac[i].state \in {"calling", "completed"}
  <2> DEFINE new == [uac[i] EXCEPT !.state = "terminated",
                                   !.timerB = IF @ = "armed" THEN "off" ELSE @]
  <2>1. /\ new \in UacType /\ new.inbox = uac[i].inbox /\ new.state = "terminated"
        /\ new.timerB = "fired" <=> uac[i].timerB = "fired"
        /\ new.timerB /= "armed"
    BY DEF UacType
  <2>2. Terminated(i) = [uac EXCEPT ![i] = new]
    BY <1>1 DEF Terminated
  <2>. QED
    BY <1>1, <2>1, <2>2
<1>2. CASE uac[i].state \notin {"calling", "completed"}
  BY <1>2 DEF Terminated
<1>. QED
  BY <1>1, <1>2

\* What a CANCEL does to the callee.
LEMMA SendsCancelIs ==
  ASSUME callee \in [Tx -> CalleeType], NEW i \in Tx, SendsCancel(i)
  PROVE  /\ callee' \in [Tx -> CalleeType]
         /\ \A j \in Tx : /\ callee'[j].did = callee[j].did
                          /\ callee'[j].cancelled <=> callee[j].cancelled \/ j = i
<1> DEFINE new == [callee[i] EXCEPT !.cancelled = TRUE]
<1>1. new \in CalleeType /\ new.did = callee[i].did /\ new.cancelled
  BY DEF CalleeType
<1>2. callee' = [callee EXCEPT ![i] = new]
  BY DEF SendsCancel
<1>. QED
  BY <1>1, <1>2

\* What a new INVITE does.
LEMMA InviteIs ==
  ASSUME uac \in [Tx -> UacType], callee \in [Tx -> CalleeType], NEW i \in Tx, Invite(i)
  PROVE  /\ uac' \in [Tx -> UacType] /\ callee' \in [Tx -> CalleeType]
         /\ uac'[i].state = "calling" /\ uac'[i].inbox = uac[i].inbox
         /\ callee'[i].did = "invited"
         /\ \A j \in Tx \ {i} : uac'[j] = uac[j] /\ callee'[j] = callee[j]
<1>1. [uac[i] EXCEPT !.state = "calling", !.timerB = "armed"] \in UacType
  BY DEF UacType
<1>2. [callee[i] EXCEPT !.did = "invited"] \in CalleeType
  BY DEF CalleeType
<1>. QED
  BY <1>1, <1>2 DEF Invite, UacType, CalleeType

\* What a final response does to the client transactions: it is delivered to one that is
\* still calling, if there is room.
LEMMA ReceivesIs ==
  ASSUME uac \in [Tx -> UacType], NEW i \in Tx, NEW r \in Response,
         NEW next \in {"answered", "completed"}, UacReceivesFinal(i, r, next)
  PROVE  /\ uac' \in [Tx -> UacType]
         /\ uac'[i].inbox \in {uac[i].inbox, <<r>>}
         /\ uac'[i].inbox = uac[i].inbox \/ uac[i].state = "calling"
         /\ uac'[i].state \in {uac[i].state, next}
         /\ uac'[i].timerB = uac[i].timerB
         /\ \A j \in Tx \ {i} : uac'[j] = uac[j]
<1>1. Delivered(i, r) \in {uac[i].inbox, <<r>>}
  BY DEF Delivered
<1>2. uac[i] \in UacType /\ Delivered(i, r) \in {<<>>} \cup {<<x>> : x \in Response}
  BY <1>1 DEF UacType
<1> DEFINE open == [uac[i] EXCEPT !.state = next, !.inbox = Delivered(i, r), !.last = r]
           late == [uac[i] EXCEPT !.last = r]
<1>3. /\ open \in UacType /\ open.state = next /\ open.inbox = Delivered(i, r)
      /\ open.timerB = uac[i].timerB
  BY <1>2 DEF UacType
<1>4. /\ late \in UacType /\ late.state = uac[i].state /\ late.inbox = uac[i].inbox
      /\ late.timerB = uac[i].timerB
  BY <1>2 DEF UacType
<1>5. CASE uac[i].state = "calling"
  BY <1>1, <1>3, <1>5 DEF UacReceivesFinal
<1>6. CASE uac[i].state /= "calling"
  BY <1>4, <1>6 DEF UacReceivesFinal
<1>. QED
  BY <1>5, <1>6

\* A response for the caller goes into the channel, or nowhere.
LEMMA RespondIs ==
  ASSUME uas \in UasType, NEW r \in Response, Respond(r)
  PROVE  /\ uas' \in UasType /\ uas'.state = uas.state
         /\ \/ uas.channel = <<>> /\ uas'.channel = <<r>>
            \/ uas.state = "terminated" /\ uas'.channel = uas.channel
<1>1. CASE uas.channel = <<>> /\ uas' = [uas EXCEPT !.channel = <<r>>]
  BY <1>1 DEF UasType
<1>2. CASE UasDone /\ UNCHANGED uas
  BY <1>2 DEF UasDone
<1>. QED
  BY <1>1, <1>2 DEF Respond

\* What mediate has in its hands is what was in the inbox.
LEMMA ReadsIs ==
  ASSUME TypeOK, InHand, MediateReads
  PROVE  /\ cur \in Tx /\ res' \in Response /\ uac[cur].inbox = <<res'>>
         /\ uac' \in [Tx -> UacType] /\ uac'[cur].inbox = <<>>
         /\ \A i \in Tx : uac'[i].state = uac[i].state /\ uac'[i].timerB = uac[i].timerB
         /\ \A i \in Tx \ {cur} : uac'[i] = uac[i]
<1>1. cur \in Tx /\ uac \in [Tx -> UacType]
  BY DEF MediateReads, InHand, TypeOK
<1>2. PICK r \in Response : uac[cur].inbox = <<r>>
  BY <1>1 DEF MediateReads, UacType
<1>3. res' = r
  BY <1>2 DEF MediateReads
<1> DEFINE new == [uac[cur] EXCEPT !.inbox = <<>>]
<1>4. /\ new \in UacType /\ new.inbox = <<>> /\ new.state = uac[cur].state
      /\ new.timerB = uac[cur].timerB
  BY <1>1 DEF UacType
<1>5. uac' = [uac EXCEPT ![cur] = new]
  BY DEF MediateReads
<1>. QED
  BY <1>1, <1>2, <1>3, <1>4, <1>5

\* A 1xx is delivered while the transaction is not over, if there is room.
LEMMA RingsIs ==
  ASSUME uac \in [Tx -> UacType], NEW i \in Tx, CalleeRings(i)
  PROVE  /\ uac' \in [Tx -> UacType]
         /\ uac'[i].inbox \in {uac[i].inbox, <<Ringing>>}
         /\ \A j \in Tx : uac'[j].state = uac[j].state /\ uac'[j].timerB = uac[j].timerB
         /\ \A j \in Tx \ {i} : uac'[j] = uac[j]
<1> DEFINE box == IF uac[i].state \in {"calling", "completed"}
                  THEN Delivered(i, Ringing) ELSE uac[i].inbox
           new == [uac[i] EXCEPT !.last = Ringing, !.inbox = box]
<1>1. box \in {uac[i].inbox, <<Ringing>>}
  BY DEF Delivered
<1>2. box \in {<<>>} \cup {<<x>> : x \in Response} /\ Ringing \in Response
  BY <1>1 DEF UacType, Response
<1>3. /\ new \in UacType /\ new.inbox = box
      /\ new.state = uac[i].state /\ new.timerB = uac[i].timerB
  BY <1>2 DEF UacType
<1>4. uac' = [uac EXCEPT ![i] = new]
  BY DEF CalleeRings
<1>. QED
  BY <1>1, <1>3, <1>4

\* Timer B leaves a 408 and terminates the transaction.
LEMMA TimesOutIs ==
  ASSUME uac \in [Tx -> UacType], NEW i \in Tx, UacTimesOut(i)
  PROVE  /\ uac' \in [Tx -> UacType]
         /\ uac'[i].inbox = <<Timeout>> /\ uac'[i].timerB = "fired"
         /\ \A j \in Tx \ {i} : uac'[j] = uac[j]
<1> DEFINE new == [Terminated(i)[i] EXCEPT !.inbox = <<Timeout>>, !.timerB = "fired"]
<1>1. Timeout \in Response
  BY DEF Response, Final
<1>2. Terminated(i) \in [Tx -> UacType] /\ Terminated(i)[i] \in UacType
  BY TerminatedIs
<1>3. new \in UacType /\ new.inbox = <<Timeout>> /\ new.timerB = "fired"
  BY <1>1, <1>2 DEF UacType
<1>4. uac' = [Terminated(i) EXCEPT ![i] = new]
  BY DEF UacTimesOut
<1>5. \A j \in Tx \ {i} : Terminated(i)[j] = uac[j]
  BY DEF Terminated
<1>. QED
  BY <1>2, <1>3, <1>4, <1>5

\* What the callee does, but for what it did before.
LEMMA DidIs ==
  ASSUME callee \in [Tx -> CalleeType], NEW i \in Tx,
         NEW d \in {"answered", "rejected", "hungup", "refused"},
         callee' = [callee EXCEPT ![i].did = d]
  PROVE  /\ callee' \in [Tx -> CalleeType] /\ callee'[i].did = d
         /\ \A j \in Tx : callee'[j].cancelled = callee[j].cancelled
         /\ \A j \in Tx \ {i} : callee'[j] = callee[j]
<1> DEFINE new == [callee[i] EXCEPT !.did = d]
<1>1. new \in CalleeType /\ new.did = d /\ new.cancelled = callee[i].cancelled
  BY DEF CalleeType
<1>2. callee' = [callee EXCEPT ![i] = new]
  OBVIOUS
<1>. QED
  BY <1>1, <1>2

\* An ACK and a BYE that reach the callee, or do not, change nothing else about it.
LEMMA AckByeIs ==
  ASSUME callee \in [Tx -> CalleeType], NEW i,
         \/ callee' = [callee EXCEPT ![i].acked = TRUE]
         \/ callee' = [callee EXCEPT ![i].bye = TRUE]
         \/ callee' = callee
  PROVE  /\ callee' \in [Tx -> CalleeType]
         /\ \A j \in Tx : /\ callee'[j].did = callee[j].did
                          /\ callee'[j].cancelled = callee[j].cancelled
<1>1. CASE i \in Tx
  <2>1. ASSUME NEW new \in {[callee[i] EXCEPT !.acked = TRUE], [callee[i] EXCEPT !.bye = TRUE]}
        PROVE  /\ new \in CalleeType /\ new.did = callee[i].did
               /\ new.cancelled = callee[i].cancelled
    BY <1>1, <2>1 DEF CalleeType
  <2>. QED
    BY <1>1, <2>1
<1>2. CASE i \notin Tx
  <2>1. callee' = callee
    BY <1>2
  <2>. QED
    BY <2>1
<1>. QED
  BY <1>1, <1>2

\* The caller's transaction sends what is in its channel, or drops it.
LEMMA UasSendsIs ==
  ASSUME uas \in UasType, caller \in CallerType, UasSends
  PROVE  \E r \in Response :
           /\ uas.channel = <<r>> /\ uas'.channel = <<>>
           /\ uas' \in UasType /\ caller' \in CallerType
           /\ \/ uas'.state = uas.state /\ caller' = caller
              \/ caller'.finals = caller.finals \cup ({r} \cap Final)
           /\ r = Ringing => uas'.state = uas.state
<1>1. PICK r \in Response : uas.channel = <<r>>
  BY DEF UasSends, UasType
<1>2. Head(uas.channel) = r
  BY <1>1
<1>3. CASE UasDone
  <2>1. uas' = [uas EXCEPT !.channel = <<>>] /\ caller' = caller
    BY <1>3 DEF UasSends
  <2>. QED
    BY <1>1, <2>1 DEF UasType
<1>4. CASE ~UasDone
  <2>1. /\ uas'.channel = <<>> /\ uas' \in UasType
        /\ r = Ringing => uas'.state = uas.state
    BY <1>2, <1>4 DEF UasSends, UasType
  <2>2. caller' = [caller EXCEPT !.finals = @ \cup ({r} \cap Final)]
    BY <1>2, <1>4 DEF UasSends
  <2>3. caller' \in CallerType /\ caller'.finals = caller.finals \cup ({r} \cap Final)
    BY <2>2 DEF CallerType
  <2>. QED
    BY <1>1, <2>1, <2>3
<1>. QED
  BY <1>3, <1>4

LEMMA TypedInit == Init => Typed
<1> SUFFICES ASSUME Init PROVE Typed
  OBVIOUS
<1> USE GoroutineNames, TxNumbers
<1>1. /\ pc \in [Goroutine -> {"start", "idle"}]
      /\ pc["Run"] = "start" /\ \A g \in Cancels \cup HangUps : pc[g] = "idle"
  BY DEF Init
<1>2. pc \in [Goroutine -> {"start", "publish", "mediate", "retry", "relay", "establish",
                           "wait", "abandon", "exit", "ended", "idle", "cancel", "terminate",
                           "respond", "cleanup", "close"}]
  BY <1>1
<1>3. uac \in [Tx -> UacType]
  BY DEF Init, UacType
<1>4. callee \in [Tx -> CalleeType]
  BY DEF Init, CalleeType
<1>5. uas \in UasType /\ caller \in CallerType
  BY DEF Init, UasType, CallerType
<1>6. TypeOK
  BY <1>2, <1>3, <1>4, <1>5 DEF Init, TypeOK
<1>. QED
  BY <1>1, <1>6 DEF Init, Typed, Places, InHand

\* What a step of some goroutine has to leave alone, or to do right, to keep the types of
\* everything but the two legs and the two ends of the call.
LEMMA TypedRun == Typed /\ (RunStep \/ MediateTimesOut) => Typed'
<1> SUFFICES ASSUME Typed, RunStep \/ MediateTimesOut PROVE Typed'
  OBVIOUS
<1> USE GoroutineNames, TxNumbers
<1>t. /\ uac \in [Tx -> UacType] /\ callee \in [Tx -> CalleeType]
      /\ uas \in UasType /\ caller \in CallerType
  BY DEF Typed, TypeOK
<1>r. {Ringing, Answer, Reject, Interval, Timeout, Failure, Cancelled} = Response
  BY DEF Response, Final
<1>1. CASE RunRefuses
  <2>1. uas' \in UasType
    BY <1>1, <1>t, <1>r, RespondIs DEF RunRefuses
  <2>. QED
    BY <1>1, <2>1 DEF RunRefuses, GoTo, b2buaVars, serverVars, cancelVars,
                      Typed, TypeOK, Places, InHand
<1>2. CASE RunInvites
  <2>1. uac' \in [Tx -> UacType] /\ callee' \in [Tx -> CalleeType]
    BY <1>2, <1>t, InviteIs DEF RunInvites
  <2>. QED
    BY <1>2, <2>1 DEF RunInvites, GoTo, serverVars, cancelVars, Typed, TypeOK, Places, InHand
<1>3. CASE RunPublishes
  BY <1>3 DEF RunPublishes, GoTo, serverVars, cancelVars, Typed, TypeOK, Places, InHand
<1>4. CASE MediateReads
  <2>1. /\ cur \in Tx /\ res' \in Response /\ uac' \in [Tx -> UacType]
    BY <1>4, ReadsIs DEF Typed
  <2>. QED
    BY <1>4, <2>1 DEF MediateReads, GoTo, serverVars, cancelVars, Typed, TypeOK, Places, InHand
<1>5. CASE MediateRetries
  <2>1. /\ cur \in Tx /\ res = Interval
        /\ cur < MaxTx => cur + 1 \in Tx
    BY <1>5 DEF MediateRetries, Typed, InHand
  <2>2. uac' \in [Tx -> UacType] /\ callee' \in [Tx -> CalleeType]
    BY <1>5, <1>t, <2>1, InviteIs DEF MediateRetries
  <2>. QED
    BY <1>5, <1>r, <2>1, <2>2 DEF MediateRetries, GoTo, serverVars, cancelVars,
                                  Typed, TypeOK, Places, InHand
<1>6. CASE MediateRelays
  <2>1. uas' \in UasType
    BY <1>6, <1>t, RespondIs DEF MediateRelays, Typed, InHand
  <2>. QED
    BY <1>6, <2>1 DEF MediateRelays, GoTo, b2buaVars, serverVars, cancelVars,
                      Typed, TypeOK, Places, InHand
<1>7. CASE MediateEstablishes
  BY <1>7 DEF MediateEstablishes, GoTo, cancelVars, Typed, TypeOK, Places, InHand
<1>8. CASE MediateWaits
  BY <1>8 DEF MediateWaits, GoTo, b2buaVars, serverVars, cancelVars, Typed, TypeOK, Places, InHand
<1>9. CASE MediateSeesDone
  <2>1. callee' \in [Tx -> CalleeType]
    BY <1>9, <1>t, SendsCancelIs DEF MediateSeesDone, Typed, InHand
  <2>. QED
    BY <1>9, <2>1 DEF MediateSeesDone, GoTo, b2buaVars, serverVars, cancelVars,
                      Typed, TypeOK, Places, InHand
<1>10. CASE MediateTimesOut
  <2>1. uas' \in UasType
    BY <1>10, <1>t, <1>r, RespondIs DEF MediateTimesOut
  <2>. QED
    BY <1>10, <1>r, <2>1 DEF MediateTimesOut, GoTo, serverVars, cancelVars,
                             Typed, TypeOK, Places, InHand
<1>11. CASE MediateAbandons
  <2>1. uac' \in [Tx -> UacType]
    BY <1>11, <1>t, TerminatedIs DEF MediateAbandons, Typed, InHand
  <2>. QED
    BY <1>11, <2>1 DEF MediateAbandons, GoTo, b2buaVars, serverVars, cancelVars,
                       Typed, TypeOK, Places, InHand
<1>12. CASE RunExits
  BY <1>12 DEF RunExits, GoTo, b2buaVars, serverVars, cancelVars, Typed, TypeOK, Places, InHand
<1>. QED
  BY <1>1, <1>2, <1>3, <1>4, <1>5, <1>6, <1>7, <1>8, <1>9, <1>10, <1>11, <1>12 DEF RunStep

\* A goroutine of a CANCEL or of a hang-up, up to the end of its cleanup.
LEMMA TypedCancel ==
  ASSUME Typed, NEW c \in Cancels, CancelStarts(c) \/ CancelStep(c)
  PROVE  Typed'
<1> USE GoroutineNames, TxNumbers
<1>t. /\ uac \in [Tx -> UacType] /\ callee \in [Tx -> CalleeType] /\ uas \in UasType
      /\ virtualUACTx \in Tx \cup {NoTx}
  BY DEF Typed, TypeOK
<1>1. CASE CancelStarts(c)
  BY <1>1 DEF CancelStarts, GoTo, b2buaVars, serverVars, cancelVars, Typed, TypeOK, Places, InHand
<1>2. CASE CancelsLeg(c)
  <2>1. callee' \in [Tx -> CalleeType]
    BY <1>2, <1>t, SendsCancelIs DEF CancelsLeg
  <2>. QED
    BY <1>2, <2>1 DEF CancelsLeg, GoTo, b2buaVars, serverVars, Typed, TypeOK, Places, InHand
<1>3. CASE CancelsNothing(c)
  BY <1>3 DEF CancelsNothing, GoTo, b2buaVars, serverVars, cancelVars,
              Typed, TypeOK, Places, InHand
<1>4. CASE TerminatesLeg(c)
  <2>1. uac' \in [Tx -> UacType]
    BY <1>4, <1>t, TerminatedIs DEF TerminatesLeg, Typed, InHand
  <2>. QED
    BY <1>4, <2>1 DEF TerminatesLeg, GoTo, b2buaVars, serverVars, Typed, TypeOK, Places, InHand
<1>5. CASE CancelResponds(c)
  <2>1. Cancelled \in Response
    BY DEF Response, Final
  <2>2. uas' \in UasType
    BY <1>5, <1>t, <2>1, RespondIs DEF CancelResponds
  <2>. QED
    BY <1>5, <2>2 DEF CancelResponds, GoTo, b2buaVars, serverVars, cancelVars,
                      Typed, TypeOK, Places, InHand
<1>6. CASE Cleans(c)
  BY <1>6 DEF Cleans, GoTo, b2buaVars, cancelVars, Typed, TypeOK, Places, InHand
<1>7. CASE Closes(c)
  BY <1>7 DEF Closes, GoTo, b2buaVars, serverVars, cancelVars, Typed, TypeOK, Places, InHand
<1>. QED
  BY <1>1, <1>2, <1>3, <1>4, <1>5, <1>6, <1>7 DEF CancelStep

LEMMA TypedHangUp ==
  ASSUME Typed, NEW h \in HangUps, ByeForwarded(h) \/ Disconnects(h) \/ HangUpStep(h)
  PROVE  Typed'
<1> USE GoroutineNames, TxNumbers
<1>t. callee \in [Tx -> CalleeType] /\ caller \in CallerType
  BY DEF Typed, TypeOK
<1>1. CASE ByeForwarded(h)
  <2>1. callee' \in [Tx -> CalleeType]
    BY <1>1, <1>t, AckByeIs DEF ByeForwarded
  <2>2. caller' \in CallerType
    BY <1>1, <1>t DEF ByeForwarded, CallerType
  <2>. QED
    BY <1>1, <2>1, <2>2 DEF ByeForwarded, GoTo, b2buaVars, serverVars, cancelVars,
                            Typed, TypeOK, Places, InHand
<1>2. CASE Disconnects(h)
  <2>1. callee' \in [Tx -> CalleeType]
    BY <1>2, <1>t, AckByeIs DEF Disconnects
  <2>2. caller' \in CallerType
    BY <1>2, <1>t DEF Disconnects, CallerType
  <2>. QED
    BY <1>2, <2>1, <2>2 DEF Disconnects, GoTo, b2buaVars, serverVars, cancelVars,
                            Typed, TypeOK, Places, InHand
<1>3. CASE Cleans(h)
  BY <1>3 DEF Cleans, GoTo, b2buaVars, cancelVars, Typed, TypeOK, Places, InHand
<1>4. CASE Closes(h)
  BY <1>4 DEF Closes, GoTo, b2buaVars, serverVars, cancelVars, Typed, TypeOK, Places, InHand
<1>. QED
  BY <1>1, <1>2, <1>3, <1>4 DEF HangUpStep

\* The caller and its leg, the callee and its legs, which no goroutine of the call runs.
LegsStep(i) == \/ CalleeRings(i) \/ CalleeAnswers(i) \/ CalleeRejects(i)
               \/ CalleeConfirmsCancel(i)
               \/ CalleeByes(i) \/ UacTimesOut(i) \/ UacEnds(i)

LEMMA TypedCaller == Typed /\ (CallerAcks \/ UasSends \/ UasEnds) => Typed'
<1> SUFFICES ASSUME Typed, CallerAcks \/ UasSends \/ UasEnds PROVE Typed'
  OBVIOUS
<1>t. uas \in UasType /\ callee \in [Tx -> CalleeType] /\ caller \in CallerType
  BY DEF Typed, TypeOK
<1>1. CASE CallerAcks
  <2>1. callee' \in [Tx -> CalleeType]
    BY <1>1, <1>t, AckByeIs DEF CallerAcks
  <2>2. caller' \in CallerType
    BY <1>1, <1>t DEF CallerAcks, CallerType
  <2>. QED
    BY <1>1, <2>1, <2>2 DEF CallerAcks, b2buaVars, serverVars, cancelVars,
                            Typed, TypeOK, Places, InHand
<1>2. CASE UasSends
  <2>1. uas' \in UasType /\ caller' \in CallerType
    BY <1>2, <1>t, UasSendsIs
  <2>. QED
    BY <1>2, <2>1 DEF UasSends, b2buaVars, serverVars, cancelVars, Typed, TypeOK, Places, InHand
<1>3. CASE UasEnds
  <2>1. uas' \in UasType
    BY <1>3, <1>t DEF UasEnds, UasType
  <2>. QED
    BY <1>3, <2>1 DEF UasEnds, b2buaVars, serverVars, cancelVars, Typed, TypeOK, Places, InHand
<1>. QED
  BY <1>1, <1>2, <1>3

LEMMA TypedLegs == ASSUME Typed, NEW i \in Tx, LegsStep(i) PROVE Typed'
<1>t. uac \in [Tx -> UacType] /\ callee \in [Tx -> CalleeType]
  BY DEF Typed, TypeOK
<1>r. {Answer, Reject, Interval} \subseteq Response
  BY DEF Response, Final
<1>1. uac' \in [Tx -> UacType]
  <2>1. CASE CalleeRings(i)
    BY <1>t, <2>1, RingsIs
  <2>2. CASE CalleeAnswers(i) \/ CalleeRejects(i) \/ CalleeConfirmsCancel(i)
    BY <1>t, <1>r, <2>2, ReceivesIs DEF CalleeAnswers, CalleeRejects, CalleeConfirmsCancel
  <2>3. CASE UacTimesOut(i)
    BY <1>t, <2>3, TimesOutIs
  <2>4. CASE UacEnds(i)
    BY <1>t, <2>4, TerminatedIs DEF UacEnds
  <2>5. CASE CalleeByes(i)
    BY <1>t, <2>5 DEF CalleeByes
  <2>. QED
    BY <2>1, <2>2, <2>3, <2>4, <2>5 DEF LegsStep
<1>2. callee' \in [Tx -> CalleeType]
  <2>1. CASE UNCHANGED callee
    BY <1>t, <2>1
  <2>2. CASE CalleeAnswers(i) \/ CalleeRejects(i) \/ CalleeByes(i)
    <3>1. PICK d \in {"answered", "rejected", "hungup", "refused"} :
            callee' = [callee EXCEPT ![i].did = d]
      BY <2>2 DEF CalleeAnswers, CalleeRejects, CalleeByes
    <3>. QED
      BY <1>t, <3>1, DidIs
  <2>. QED
    BY <2>1, <2>2 DEF LegsStep, CalleeRings, CalleeConfirmsCancel, UacTimesOut, UacEnds
<1>3. /\ UNCHANGED <<pc, cur, virtualUACTx, res, established, dialogs, byTx, leg, bdone, crashed,
                     uas, caller>>
      /\ misread' \in BOOLEAN
  BY DEF LegsStep, CalleeRings, CalleeAnswers, CalleeRejects, CalleeConfirmsCancel, CalleeByes,
         UacTimesOut, UacEnds, b2buaVars, serverVars, cancelVars, Typed, TypeOK
<1>. QED
  BY <1>1, <1>2, <1>3 DEF Typed, TypeOK, Places, InHand

LEMMA TypedNext == Typed /\ [Next]_vars => Typed'
<1> SUFFICES ASSUME Typed, [Next]_vars PROVE Typed'
  OBVIOUS
<1>1. CASE UNCHANGED vars
  BY <1>1 DEF vars, Typed, TypeOK, Places, InHand
<1>. QED
  BY <1>1, TypedRun, TypedCancel, TypedHangUp, TypedCaller, TypedLegs DEF Next, LegsStep

LEMMA TypedHolds == Safety => []Typed
BY TypedInit, TypedNext, PTL DEF Safety

\* The variables keep their types in every behaviour, whatever the constants are.
THEOREM TypeCorrect == Safety => []TypeOK
<1>1. Typed => TypeOK
  BY DEF Typed
<1>. QED
  BY <1>1, TypedHolds, PTL

-----------------------------------------------------------------------------
(***************************************************************************)
(* The legs of the callee.  One INVITE is open at a time: a new one is     *)
(* sent only when its predecessor was rejected, so that the INVITEs up to  *)
(* cur have been used and those before cur are settled.  Whatever ends     *)
(* Run's interest in the open one (a final response in its inbox, the end  *)
(* of its transaction, a CANCEL) is a reason that the phone does not ring  *)
(* any more; only mediate's own timeout is none.                           *)
(***************************************************************************)
OneAtATime ==
  /\ pc["Run"] = "start" => cur = NoTx
  /\ virtualUACTx <= cur
  /\ \A i \in Tx : /\ callee[i].did = "nothing" <=> i > cur
                   /\ i < cur => callee[i].did = "rejected"

\* An INVITE that was not sent has no transaction, no timer and no CANCEL.
Unused ==
  \A i \in Tx : callee[i].did = "nothing" =>
    /\ uac[i].inbox = <<>> /\ uac[i].state = "none" /\ uac[i].timerB = "off"
    /\ ~callee[i].cancelled

\* The phone of INVITE i rings, and nothing is on its way to stop that.
Rings(i) == /\ callee[i].did = "invited" /\ ~callee[i].cancelled
            /\ uac[i].timerB /= "fired"

\* A final response, or the end of a transaction, means that its phone does not ring.
Settled ==
  /\ \A i \in Tx :
       /\ uac[i].inbox = <<Interval>> => callee[i].did = "rejected"
       /\ uac[i].inbox \notin {<<>>, <<Ringing>>} => ~Rings(i)
       /\ uac[i].state = "completed" => callee[i].did = "rejected"
       /\ uac[i].state = "terminated" => ~Rings(i) \/ res = Timeout
  /\ \A c \in Cancels : pc[c] = "terminate" => callee[leg[c]].cancelled

\* What Run knows of the open INVITE, by where it is.
RunKnows ==
  /\ pc["Run"] \notin {"relay", "abandon", "exit", "ended"} => res /= Timeout
  /\ pc["Run"] = "retry" => callee[cur].did = "rejected"
  /\ pc["Run"] = "relay" /\ res /= Ringing => ~Rings(cur)
  /\ pc["Run"] \in {"establish", "wait"} => ~Rings(cur)
  /\ pc["Run"] \in {"abandon", "exit", "ended"} => res = Timeout \/ \A i \in Tx : ~Rings(i)

\* A 200 on its way to the caller means that somebody picked up, or that the 200 of a
\* CANCEL was misread.
Connected == misread \/ \E i \in Tx : PickedUp(i)
AnswerIsEarned ==
  \/ Connected
  \/ /\ \A i \in Tx : uac[i].inbox /= <<Answer>>
     /\ res /= Answer /\ uas.channel /= <<Answer>> /\ Answer \notin caller.finals

LegInv == Typed /\ OneAtATime /\ Unused /\ Settled /\ RunKnows /\ AnswerIsEarned

LEMMA LegInit == Init => LegInv
<1> SUFFICES ASSUME Init PROVE LegInv
  OBVIOUS
<1>1. Typed
  BY TypedInit
<1>2. /\ \A i \in Tx : /\ callee[i].did = "nothing" /\ ~callee[i].cancelled
                       /\ uac[i].inbox = <<>> /\ uac[i].state = "none" /\ uac[i].timerB = "off"
      /\ caller.finals = {} /\ uas.channel = <<>>
      /\ cur = 0 /\ virtualUACTx = 0 /\ res = NoResponse
      /\ pc["Run"] = "start" /\ \A c \in Cancels : pc[c] = "idle"
  BY GoroutineNames DEF Init
<1>3. \A i \in Tx : i > 0 /\ ~(i < 0)
  BY TxNumbers DEF Tx
<1>4. OneAtATime /\ Unused
  BY <1>2, <1>3, TxNumbers DEF OneAtATime, Unused
<1>5. Settled
  BY <1>2 DEF Settled, Rings
<1>6. RunKnows
  BY <1>2 DEF RunKnows
<1>7. AnswerIsEarned
  BY <1>2 DEF AnswerIsEarned
<1>. QED
  BY <1>1, <1>4, <1>5, <1>6, <1>7 DEF LegInv

\* A step that does not concern the legs: it neither moves Run nor changes what it and
\* the Cancels have in their hands, and the answer on its way is not one that was not.
Aside ==
  /\ UNCHANGED <<cur, virtualUACTx, res, uac, misread>>
  /\ pc'["Run"] = pc["Run"]
  /\ \A c \in Cancels : pc'[c] = "terminate" => pc[c] = "terminate" /\ leg'[c] = leg[c]
  /\ \A i \in Tx : /\ callee'[i].did = callee[i].did
                   /\ callee'[i].cancelled = callee[i].cancelled
  /\ uas'.channel = <<Answer>> => uas.channel = <<Answer>>
  /\ Answer \in caller'.finals => Answer \in caller.finals \/ uas.channel = <<Answer>>

LEMMA AsideKeepsLegs == LegInv /\ Typed' /\ Aside => LegInv'
<1> SUFFICES ASSUME LegInv, Typed', Aside PROVE LegInv'
  OBVIOUS
<1> USE DEF Aside, LegInv
<1>1. OneAtATime' /\ Unused'
  BY DEF OneAtATime, Unused
<1>2. Settled'
  BY DEF Settled, Rings, Typed, InHand
<1>3. RunKnows'
  BY DEF RunKnows, Rings, Typed, InHand
<1>4. AnswerIsEarned'
  BY DEF AnswerIsEarned, Connected, PickedUp
<1>. QED
  BY <1>1, <1>2, <1>3, <1>4

LEMMA AsideSteps ==
  ASSUME Typed,
         \/ \E c \in Cancels : CancelStarts(c) \/ CancelsNothing(c) \/ CancelResponds(c)
         \/ \E g \in Cancels \cup HangUps : Cleans(g) \/ Closes(g)
         \/ \E h \in HangUps : ByeForwarded(h) \/ Disconnects(h)
         \/ CallerAcks \/ UasSends \/ UasEnds
  PROVE  Aside
<1> USE GoroutineNames
<1>t. /\ uac \in [Tx -> UacType] /\ callee \in [Tx -> CalleeType]
      /\ uas \in UasType /\ caller \in CallerType
  BY DEF Typed, TypeOK
<1>1. ASSUME NEW c \in Cancels, CancelStarts(c) \/ CancelsNothing(c) PROVE Aside
  BY <1>1 DEF CancelStarts, CancelsNothing, GoTo, b2buaVars, serverVars, cancelVars,
              Aside, Typed, TypeOK
<1>2. ASSUME NEW c \in Cancels, CancelResponds(c) PROVE Aside
  <2>1. Cancelled \in Response
    BY DEF Response, Final
  <2>2. uas'.channel = <<Answer>> => uas.channel = <<Answer>>
    BY <1>2, <1>t, <2>1, RespondIs DEF CancelResponds
  <2>. QED
    BY <1>2, <2>2 DEF CancelResponds, GoTo, b2buaVars, serverVars, cancelVars,
                      Aside, Typed, TypeOK
<1>3. ASSUME NEW g \in Cancels \cup HangUps, Cleans(g) \/ Closes(g) PROVE Aside
  BY <1>3 DEF Cleans, Closes, GoTo, b2buaVars, serverVars, cancelVars, Aside, Typed, TypeOK
<1>4. ASSUME NEW h \in HangUps, ByeForwarded(h) \/ Disconnects(h) PROVE Aside
  <2>1. \A i \in Tx : callee'[i].did = callee[i].did /\ callee'[i].cancelled = callee[i].cancelled
    BY <1>4, <1>t, AckByeIs DEF ByeForwarded, Disconnects
  <2>2. caller'.finals = caller.finals
    BY <1>4, <1>t DEF ByeForwarded, Disconnects, CallerType
  <2>. QED
    BY <1>4, <2>1, <2>2 DEF ByeForwarded, Disconnects, GoTo, b2buaVars, serverVars, cancelVars,
                            Aside, Typed, TypeOK
<1>5. CASE CallerAcks
  <2>1. \A i \in Tx : callee'[i].did = callee[i].did /\ callee'[i].cancelled = callee[i].cancelled
    BY <1>5, <1>t, AckByeIs DEF CallerAcks
  <2>2. caller'.finals = caller.finals
    BY <1>5, <1>t DEF CallerAcks, CallerType
  <2>. QED
    BY <1>5, <2>1, <2>2 DEF CallerAcks, b2buaVars, serverVars, cancelVars, Aside
<1>6. CASE UasSends
  <2>1. /\ uas'.channel /= <<Answer>>
        /\ Answer \in caller'.finals => Answer \in caller.finals \/ uas.channel = <<Answer>>
    BY <1>6, <1>t, UasSendsIs
  <2>. QED
    BY <1>6, <2>1 DEF UasSends, b2buaVars, serverVars, cancelVars, Aside
<1>7. CASE UasEnds
  <2>1. uas'.channel = uas.channel
    BY <1>7, <1>t DEF UasEnds, UasType
  <2>. QED
    BY <1>7, <2>1 DEF UasEnds, b2buaVars, serverVars, cancelVars, Aside
<1>. QED
  BY <1>1, <1>2, <1>3, <1>4, <1>5, <1>6, <1>7

\* A step of one leg: a leg that was settled stays so, and what is new in its inbox or in
\* its state is accounted for.
LegChange(i) ==
  /\ \A j \in Tx \ {i} : uac'[j] = uac[j] /\ callee'[j] = callee[j]
  /\ callee[i].did /= "nothing" /\ callee'[i].did /= "nothing"
  /\ callee[i].did = "rejected" => callee'[i].did = "rejected"
  /\ callee[i].cancelled => callee'[i].cancelled
  /\ Rings(i)' => Rings(i)
  /\ \/ uac'[i].inbox \in {uac[i].inbox, <<>>, <<Ringing>>}
     \/ ~Rings(i)' /\ (uac'[i].inbox = <<Interval>> => callee'[i].did = "rejected")
  /\ uac'[i].state = "completed" => uac[i].state = "completed" \/ callee'[i].did = "rejected"
  /\ uac'[i].state = "terminated" => \/ uac[i].state = "terminated" \/ ~Rings(i)'
                                      \/ res = Timeout

LEMMA OthersRing == ASSUME NEW i \in Tx, LegChange(i) PROVE \A j \in Tx : Rings(j)' => Rings(j)
BY DEF LegChange, Rings

LEMMA LegsStayInOrder ==
  ASSUME LegInv, NEW i \in Tx, LegChange(i), UNCHANGED <<cur, virtualUACTx>>,
         pc'["Run"] = "start" => pc["Run"] = "start"
  PROVE  OneAtATime' /\ Unused'
<1>1. OneAtATime'
  BY DEF LegInv, OneAtATime, LegChange
<1>2. Unused'
  BY DEF LegInv, Unused, LegChange
<1>. QED
  BY <1>1, <1>2

LEMMA LegsStaySettled ==
  ASSUME LegInv, NEW i \in Tx, LegChange(i), res' = res \/ res /= Timeout
  PROVE  \A j \in Tx :
           /\ uac'[j].inbox = <<Interval>> => callee'[j].did = "rejected"
           /\ uac'[j].inbox \notin {<<>>, <<Ringing>>} => ~Rings(j)'
           /\ uac'[j].state = "completed" => callee'[j].did = "rejected"
           /\ uac'[j].state = "terminated" => ~Rings(j)' \/ res' = Timeout
<1> TAKE j \in Tx
<1>1. CASE j /= i
  <2>1. uac'[j] = uac[j] /\ callee'[j] = callee[j] /\ (Rings(j)' <=> Rings(j))
    BY <1>1 DEF LegChange, Rings
  <2>. QED
    BY <2>1 DEF LegInv, Settled
<1>2. CASE j = i
  BY <1>2 DEF LegInv, Settled, LegChange
<1>. QED
  BY <1>1, <1>2

\* A step of a leg that is none of Run.
LEMMA LegChangeKeepsLegs ==
  ASSUME LegInv, Typed', NEW i \in Tx, LegChange(i), AnswerIsEarned',
         UNCHANGED <<cur, virtualUACTx, res>>, pc'["Run"] = pc["Run"],
         \A c \in Cancels : pc'[c] = "terminate" =>
           callee'[leg'[c]].cancelled \/ (pc[c] = "terminate" /\ leg'[c] = leg[c])
  PROVE  LegInv'
<1>1. OneAtATime' /\ Unused'
  BY LegsStayInOrder
<1>2. \A j \in Tx : callee[j].cancelled => callee'[j].cancelled
  BY DEF LegChange
<1>3. \A c \in Cancels : pc[c] = "terminate" => leg[c] \in Tx
  BY DEF LegInv, Typed, InHand
<1>4. Settled'
  BY <1>2, <1>3, LegsStaySettled DEF LegInv, Settled
<1>5. pc["Run"] \in {"retry", "relay", "establish", "wait"} => cur \in Tx
  BY DEF LegInv, Typed, InHand
<1>6. \A j \in Tx : callee[j].did = "rejected" => callee'[j].did = "rejected"
  BY DEF LegChange
<1>7. RunKnows'
  BY <1>5, <1>6, OthersRing DEF LegInv, RunKnows
<1>. QED
  BY <1>1, <1>4, <1>7 DEF LegInv

\* The callee answers in its own time, whatever Run and the Cancels do.
LEMMA LegsKept == ASSUME LegInv, Typed', NEW i \in Tx, LegsStep(i) PROVE LegInv'
<1>t. uac \in [Tx -> UacType] /\ callee \in [Tx -> CalleeType]
  BY DEF LegInv, Typed, TypeOK
<1>r. {Answer, Reject, Interval} \subseteq Response
  BY DEF Response, Final
<1>u. UNCHANGED <<pc, cur, virtualUACTx, res, leg, uas, caller>>
  BY DEF LegsStep, CalleeRings, CalleeAnswers, CalleeRejects, CalleeConfirmsCancel, CalleeByes,
         UacTimesOut, UacEnds, b2buaVars, serverVars, cancelVars
<1>s. \A j \in Tx : callee[j].did = "nothing" =>
        uac[j].timerB = "off" /\ uac[j].state = "none" /\ ~callee[j].cancelled
  BY DEF LegInv, Unused
<1>1. CASE CalleeRings(i)
  <2>1. /\ callee' = callee /\ misread' = misread /\ callee[i].did /= "nothing"
        /\ uac'[i].inbox \in {uac[i].inbox, <<Ringing>>}
        /\ \A j \in Tx : uac'[j].state = uac[j].state /\ uac'[j].timerB = uac[j].timerB
        /\ \A j \in Tx \ {i} : uac'[j] = uac[j]
    BY <1>1, <1>t, RingsIs DEF CalleeRings, cancelVars
  <2>2. LegChange(i)
    BY <2>1 DEF LegChange, Rings
  <2>3. AnswerIsEarned'
    BY <1>u, <2>1 DEF LegInv, AnswerIsEarned, Connected, PickedUp
  <2>. QED
    BY <1>u, <2>2, <2>3, LegChangeKeepsLegs
<1>2. CASE CalleeAnswers(i)
  <2>1. /\ misread' = misread /\ callee'[i].did = "answered"
        /\ callee[i].did \in {"invited", "answered"}
        /\ \A j \in Tx : callee'[j].cancelled = callee[j].cancelled
        /\ \A j \in Tx \ {i} : callee'[j] = callee[j]
    BY <1>2, <1>t, DidIs DEF CalleeAnswers, cancelVars
  <2>2. /\ uac'[i].inbox \in {uac[i].inbox, <<Answer>>}
        /\ uac'[i].state \in {uac[i].state, "answered"}
        /\ uac'[i].timerB = uac[i].timerB
        /\ \A j \in Tx \ {i} : uac'[j] = uac[j]
    BY <1>2, <1>t, <1>r, ReceivesIs DEF CalleeAnswers
  <2>3. LegChange(i)
    BY <2>1, <2>2 DEF LegChange, Rings
  <2>4. AnswerIsEarned'
    BY <2>1 DEF AnswerIsEarned, Connected, PickedUp
  <2>. QED
    BY <1>u, <2>3, <2>4, LegChangeKeepsLegs
<1>3. CASE CalleeRejects(i)
  <2>1. /\ misread' = misread /\ callee'[i].did = "rejected" /\ callee[i].did = "invited"
        /\ \A j \in Tx : callee'[j].cancelled = callee[j].cancelled
        /\ \A j \in Tx \ {i} : callee'[j] = callee[j]
    BY <1>3, <1>t, DidIs DEF CalleeRejects, cancelVars
  <2>2. /\ uac'[i].inbox \in {uac[i].inbox, <<Reject>>, <<Interval>>}
        /\ uac'[i].state \in {uac[i].state, "completed"}
        /\ uac'[i].timerB = uac[i].timerB
        /\ \A j \in Tx \ {i} : uac'[j] = uac[j]
    BY <1>3, <1>t, <1>r, ReceivesIs DEF CalleeRejects
  <2>3. LegChange(i)
    BY <2>1, <2>2 DEF LegChange, Rings
  <2>4. AnswerIsEarned'
    BY <1>u, <2>1, <2>2 DEF LegInv, AnswerIsEarned, Connected, PickedUp
  <2>. QED
    BY <1>u, <2>3, <2>4, LegChangeKeepsLegs
<1>4. CASE CalleeConfirmsCancel(i)
  <2>1. callee' = callee /\ callee[i].cancelled /\ misread' = (misread \/ uac[i].state = "calling")
    BY <1>4 DEF CalleeConfirmsCancel
  <2>2. /\ uac'[i].inbox \in {uac[i].inbox, <<Answer>>}
        /\ uac'[i].inbox = uac[i].inbox \/ uac[i].state = "calling"
        /\ uac'[i].state \in {uac[i].state, "answered"}
        /\ uac'[i].timerB = uac[i].timerB
        /\ \A j \in Tx \ {i} : uac'[j] = uac[j]
    BY <1>4, <1>t, <1>r, ReceivesIs DEF CalleeConfirmsCancel
  <2>3. LegChange(i)
    BY <1>s, <2>1, <2>2 DEF LegChange, Rings
  <2>4. AnswerIsEarned'
    BY <1>u, <2>1, <2>2 DEF LegInv, AnswerIsEarned, Connected, PickedUp
  <2>. QED
    BY <1>u, <2>3, <2>4, LegChangeKeepsLegs
<1>5. CASE CalleeByes(i)
  <2>1. /\ misread' = misread /\ callee'[i].did \in {"hungup", "refused"}
        /\ callee[i].did = "answered" /\ uac' = uac
        /\ \A j \in Tx : callee'[j].cancelled = callee[j].cancelled
        /\ \A j \in Tx \ {i} : callee'[j] = callee[j]
    BY <1>5, <1>t, DidIs DEF CalleeByes, cancelVars
  <2>2. LegChange(i)
    BY <2>1 DEF LegChange, Rings
  <2>3. AnswerIsEarned'
    BY <2>1 DEF AnswerIsEarned, Connected, PickedUp
  <2>. QED
    BY <1>u, <2>2, <2>3, LegChangeKeepsLegs
<1>6. CASE UacTimesOut(i)
  <2>1. /\ misread' = misread /\ callee' = callee /\ uac[i].timerB = "armed"
        /\ uac'[i].inbox = <<Timeout>> /\ uac'[i].timerB = "fired"
        /\ \A j \in Tx \ {i} : uac'[j] = uac[j]
    BY <1>6, <1>t, TimesOutIs DEF UacTimesOut, cancelVars
  <2>2. uac'[i].state = "completed" => uac[i].state = "completed"
    <3>1. /\ Terminated(i) \in [Tx -> UacType]
          /\ Terminated(i)[i].state \in {uac[i].state, "terminated"}
      BY <1>t, TerminatedIs
    <3>2. uac'[i].state = Terminated(i)[i].state
      BY <1>6, <3>1 DEF UacTimesOut, UacType
    <3>. QED
      BY <3>1, <3>2
  <2>3. LegChange(i)
    BY <1>s, <2>1, <2>2 DEF LegChange, Rings
  <2>4. AnswerIsEarned'
    BY <1>u, <2>1 DEF LegInv, AnswerIsEarned, Connected, PickedUp
  <2>. QED
    BY <1>u, <2>3, <2>4, LegChangeKeepsLegs
<1>7. CASE UacEnds(i)
  <2>1. /\ misread' = misread /\ callee' = callee /\ uac[i].state = "completed"
        /\ uac' = Terminated(i)
    BY <1>7 DEF UacEnds, cancelVars
  <2>2. callee[i].did = "rejected"
    BY <2>1 DEF LegInv, Settled
  <2>3. \A j \in Tx \ {i} : uac'[j] = uac[j]
    BY <1>t, <2>1 DEF Terminated
  <2>4. LegChange(i)
    BY <1>t, <2>1, <2>2, <2>3, TerminatedIs DEF LegChange, Rings
  <2>5. \A j \in Tx : uac'[j].inbox = uac[j].inbox
    BY <1>t, <2>1, TerminatedIs
  <2>6. AnswerIsEarned'
    BY <1>u, <2>1, <2>5 DEF LegInv, AnswerIsEarned, Connected, PickedUp
  <2>. QED
    BY <1>u, <2>4, <2>6, LegChangeKeepsLegs
<1>. QED
  BY <1>1, <1>2, <1>3, <1>4, <1>5, <1>6, <1>7 DEF LegsStep

\* A CANCEL stops the phone, and the end of a leg whose phone was stopped, or that was
\* given up after the timeout, is accounted for.
LEMMA SendsCancelChanges ==
  ASSUME Typed, NEW i \in Tx, SendsCancel(i), uac' = uac, callee[i].did /= "nothing"
  PROVE  /\ LegChange(i) /\ callee'[i].cancelled
         /\ \A j \in Tx : callee'[j].did = callee[j].did
<1>1. /\ \A j \in Tx : callee'[j].did = callee[j].did
      /\ callee'[i].cancelled
  BY SendsCancelIs DEF Typed, TypeOK
<1>2. \A j \in Tx \ {i} : callee'[j] = callee[j]
  BY DEF SendsCancel
<1>3. ~Rings(i)'
  BY <1>1 DEF Rings
<1>. QED
  BY <1>1, <1>2, <1>3 DEF LegChange

LEMMA TerminatedChanges ==
  ASSUME Typed, NEW i \in Tx, uac' = Terminated(i), callee' = callee,
         callee[i].did /= "nothing", ~Rings(i) \/ res = Timeout
  PROVE  LegChange(i) /\ \A j \in Tx : uac'[j].inbox = uac[j].inbox
<1>1. uac \in [Tx -> UacType]
  BY DEF Typed, TypeOK
<1>2. \A j \in Tx : /\ uac'[j].inbox = uac[j].inbox
                    /\ uac'[j].state \in {uac[j].state, "terminated"}
                    /\ uac'[j].timerB = "fired" <=> uac[j].timerB = "fired"
  BY <1>1, TerminatedIs
<1>3. \A j \in Tx \ {i} : uac'[j] = uac[j]
  BY <1>1 DEF Terminated
<1>4. Rings(i)' <=> Rings(i)
  BY <1>2 DEF Rings
<1>. QED
  BY <1>2, <1>3, <1>4 DEF LegChange

\* A Cancel sends its CANCEL in the leg that Run has published, then terminates it.
LEMMA CancelKept ==
  ASSUME LegInv, Typed', NEW c \in Cancels, CancelsLeg(c) \/ TerminatesLeg(c)
  PROVE  LegInv'
<1>t. /\ virtualUACTx \in Tx \cup {NoTx} /\ cur \in Tx \cup {NoTx}
      /\ c \in DOMAIN leg /\ c \in DOMAIN pc /\ c /= "Run" /\ Typed
  BY GoroutineNames DEF LegInv, Typed, TypeOK
<1>1. CASE CancelsLeg(c)
  <2>1. PICK i \in Tx : i = virtualUACTx
    BY <1>1, <1>t DEF CancelsLeg
  <2>2. callee[i].did /= "nothing" /\ SendsCancel(i) /\ uac' = uac
    BY <1>1, <1>t, <2>1, TxNumbers DEF CancelsLeg, LegInv, OneAtATime
  <2>3. /\ LegChange(i) /\ callee'[i].cancelled
        /\ \A j \in Tx : callee'[j].did = callee[j].did
    BY <1>t, <2>2, SendsCancelChanges
  <2>4. AnswerIsEarned'
    BY <1>1, <2>2, <2>3 DEF CancelsLeg, b2buaVars, LegInv, AnswerIsEarned, Connected, PickedUp
  <2>5. \A e \in Cancels : pc'[e] = "terminate" =>
          callee'[leg'[e]].cancelled \/ (pc[e] = "terminate" /\ leg'[e] = leg[e])
    BY <1>1, <1>t, <2>1, <2>3 DEF CancelsLeg, GoTo
  <2>6. UNCHANGED <<cur, virtualUACTx, res>> /\ pc'["Run"] = pc["Run"]
    BY <1>1, <1>t DEF CancelsLeg, b2buaVars, GoTo
  <2>. QED
    BY <2>3, <2>4, <2>5, <2>6, LegChangeKeepsLegs
<1>2. CASE TerminatesLeg(c)
  <2>1. PICK i \in Tx : i = leg[c]
    BY <1>2, <1>t DEF TerminatesLeg, Typed, InHand
  <2>2. callee[i].cancelled /\ callee[i].did /= "nothing" /\ uac' = Terminated(i)
    BY <1>2, <2>1 DEF TerminatesLeg, LegInv, Settled, Unused
  <2>3. callee' = callee /\ ~Rings(i)
    BY <1>2, <2>2 DEF TerminatesLeg, Rings
  <2>4. LegChange(i) /\ \A j \in Tx : uac'[j].inbox = uac[j].inbox
    BY <1>t, <2>2, <2>3, TerminatedChanges
  <2>5. AnswerIsEarned'
    BY <1>2, <2>4 DEF TerminatesLeg, b2buaVars, LegInv, AnswerIsEarned, Connected, PickedUp
  <2>6. \A e \in Cancels : pc'[e] = "terminate" => pc[e] = "terminate" /\ leg'[e] = leg[e]
    BY <1>2, <1>t DEF TerminatesLeg, GoTo
  <2>7. UNCHANGED <<cur, virtualUACTx, res>> /\ pc'["Run"] = pc["Run"]
    BY <1>2, <1>t DEF TerminatesLeg, b2buaVars, GoTo
  <2>. QED
    BY <2>4, <2>5, <2>6, <2>7, LegChangeKeepsLegs
<1>. QED
  BY <1>1, <1>2

\* Run sends the next INVITE, of a call whose INVITEs so far were rejected.
LEMMA InviteKept ==
  ASSUME LegInv, Typed', NEW i \in Tx, i = cur + 1, Invite(i), cur' = i,
         cur \in Tx => callee[cur].did = "rejected",
         UNCHANGED <<virtualUACTx, res, leg, uas, caller, misread>>, res /= Timeout,
         pc' = [pc EXCEPT !["Run"] = "publish"]
  PROVE  LegInv'
<1>t. /\ uac \in [Tx -> UacType] /\ callee \in [Tx -> CalleeType] /\ cur \in Tx \cup {NoTx}
      /\ virtualUACTx \in Tx \cup {NoTx}
      /\ "Run" \in DOMAIN pc
  BY GoroutineNames DEF LegInv, Typed, TypeOK
<1>1. /\ uac'[i].state = "calling" /\ uac'[i].inbox = uac[i].inbox
      /\ callee'[i].did = "invited"
      /\ \A j \in Tx \ {i} : uac'[j] = uac[j] /\ callee'[j] = callee[j]
  BY <1>t, InviteIs
<1>2. callee[i].did = "nothing" /\ uac[i].inbox = <<>>
  <2>1. i > cur
    BY <1>t, TxNumbers
  <2>. QED
    BY <2>1 DEF LegInv, OneAtATime, Unused
<1>3. OneAtATime'
  <2>1. cur \in Int /\ virtualUACTx \in Int /\ virtualUACTx <= i
    BY <1>t, TxNumbers DEF LegInv, OneAtATime
  <2>2. ASSUME NEW j \in Tx
        PROVE  /\ callee'[j].did = "nothing" <=> j > i
               /\ j < i => callee'[j].did = "rejected"
    <3>1. j \in Int /\ (j < i => j < cur \/ j = cur) /\ (j /= i => (j > cur <=> j > i))
      BY <2>1, TxNumbers
    <3>2. /\ callee[j].did = "nothing" <=> j > cur
          /\ j < cur => callee[j].did = "rejected"
      BY DEF LegInv, OneAtATime
    <3>. QED
      BY <1>1, <3>1, <3>2
  <2>. QED
    BY <1>t, <2>1, <2>2 DEF OneAtATime
<1>4. Unused'
  BY <1>1 DEF LegInv, Unused
<1>5. \A c \in Cancels : pc'[c] = "terminate" =>
        pc[c] = "terminate" /\ leg[c] \in Tx /\ callee[leg[c]].did /= "nothing"
  <2>1. \A c \in Cancels : pc'[c] = pc[c]
    BY GoroutineNames DEF LegInv, Typed, TypeOK
  <2>2. \A c \in Cancels : pc[c] = "terminate" => leg[c] \in Tx /\ callee[leg[c]].cancelled
    BY DEF LegInv, Typed, InHand, Settled
  <2>3. \A j \in Tx : callee[j].cancelled => callee[j].did /= "nothing"
    BY DEF LegInv, Unused
  <2>. QED
    BY <2>1, <2>2, <2>3
<1>6. Settled'
  <2>1. \A c \in Cancels : pc'[c] = "terminate" => callee'[leg'[c]].cancelled
    BY <1>1, <1>2, <1>5 DEF LegInv, Settled
  <2>2. ASSUME NEW j \in Tx
        PROVE  /\ uac'[j].inbox = <<Interval>> => callee'[j].did = "rejected"
               /\ uac'[j].inbox \notin {<<>>, <<Ringing>>} => ~Rings(j)'
               /\ uac'[j].state = "completed" => callee'[j].did = "rejected"
               /\ uac'[j].state = "terminated" => ~Rings(j)' \/ res' = Timeout
    <3>1. CASE j = i
      <4>1. uac'[j].inbox = <<>> /\ uac'[j].state = "calling"
        BY <1>1, <1>2, <3>1
      <4>. QED
        BY <4>1
    <3>2. CASE j /= i
      <4>1. uac'[j] = uac[j] /\ callee'[j] = callee[j] /\ (Rings(j)' <=> Rings(j))
        BY <1>1, <3>2 DEF Rings
      <4>. QED
        BY <4>1 DEF LegInv, Settled
    <3>. QED
      BY <3>1, <3>2
  <2>. QED
    BY <2>1, <2>2 DEF Settled
<1>7. RunKnows'
  BY <1>t DEF RunKnows
<1>8. AnswerIsEarned'
  <2>1. CASE Connected
    <3>1. Connected'
      BY <1>1, <1>2, <2>1 DEF Connected, PickedUp
    <3>. QED
      BY <3>1 DEF AnswerIsEarned
  <2>2. CASE ~Connected
    BY <1>1, <1>2, <2>2 DEF LegInv, AnswerIsEarned
  <2>. QED
    BY <2>1, <2>2
<1>. QED
  BY <1>3, <1>4, <1>6, <1>7, <1>8 DEF LegInv

\* The phones that ring: the open INVITE's, if any.
LEMMA OpenOneRings ==
  ASSUME LegInv
  PROVE  /\ \A i \in Tx : Rings(i) => i = cur
         /\ cur \in Tx => callee[cur].did /= "nothing"
<1>1. cur \in Int /\ \A i \in Tx : i = cur \/ i < cur \/ i > cur
  BY TxNumbers DEF LegInv, Typed, TypeOK
<1>2. \A i \in Tx : i = cur => ~(i > cur)
  BY <1>1
<1>. QED
  BY <1>1, <1>2 DEF LegInv, OneAtATime, Rings

\* A step of Run that leaves the legs as they are.
LEMMA RunMoves ==
  ASSUME LegInv, Typed', UNCHANGED <<cur, uac, callee, leg>>,
         virtualUACTx' \in {virtualUACTx, cur}, res' = res \/ res /= Timeout,
         NEW l, l /= "start", pc' = [pc EXCEPT !["Run"] = l], RunKnows', AnswerIsEarned'
  PROVE  LegInv'
<1>1. pc'["Run"] = l /\ \A c \in Cancels : pc'[c] = pc[c]
  BY GoroutineNames DEF LegInv, Typed, TypeOK
<1>2. virtualUACTx' <= cur'
  BY TxNumbers DEF LegInv, OneAtATime, Typed, TypeOK
<1>3. OneAtATime' /\ Unused'
  BY <1>1, <1>2 DEF LegInv, OneAtATime, Unused
<1>4. \A i \in Tx : Rings(i)' <=> Rings(i)
  BY DEF Rings
<1>5. Settled'
  BY <1>1, <1>4 DEF LegInv, Settled
<1>. QED
  BY <1>3, <1>5 DEF LegInv

\* A step of Run that changes a leg.
LEMMA RunChangesLeg ==
  ASSUME LegInv, Typed', NEW i \in Tx, LegChange(i), UNCHANGED <<cur, virtualUACTx, leg>>,
         res' = res \/ res /= Timeout,
         NEW l, l /= "start", pc' = [pc EXCEPT !["Run"] = l], RunKnows', AnswerIsEarned'
  PROVE  LegInv'
<1>1. pc'["Run"] = l /\ \A c \in Cancels : pc'[c] = pc[c]
  BY GoroutineNames DEF LegInv, Typed, TypeOK
<1>2. OneAtATime' /\ Unused'
  BY <1>1, LegsStayInOrder
<1>3. \A j \in Tx : callee[j].cancelled => callee'[j].cancelled
  BY DEF LegChange
<1>4. \A c \in Cancels : pc'[c] = "terminate" => callee'[leg'[c]].cancelled
  BY <1>1, <1>3 DEF LegInv, Settled, Typed, InHand
<1>5. Settled'
  BY <1>4, LegsStaySettled DEF Settled
<1>. QED
  BY <1>2, <1>5 DEF LegInv

\* Run, from its start to the last response of the callee.
LEMMA RunCalls ==
  ASSUME LegInv, Typed',
         RunRefuses \/ RunInvites \/ RunPublishes \/ MediateReads \/ MediateRetries
  PROVE  LegInv'
<1>t. /\ uac \in [Tx -> UacType] /\ uas \in UasType /\ "Run" \in DOMAIN pc
      /\ {Interval, Failure} \subseteq Response
      /\ TypeOK /\ InHand
  BY GoroutineNames DEF LegInv, Typed, TypeOK, Response, Final
<1>1. CASE RunRefuses
  <2>1. cur \notin Tx /\ \A i \in Tx : ~Rings(i)
    BY <1>1, OpenOneRings, TxNumbers DEF RunRefuses, LegInv, OneAtATime
  <2>2. UNCHANGED <<cur, virtualUACTx, res, uac, callee, leg, misread, caller>>
    BY <1>1 DEF RunRefuses, b2buaVars, cancelVars
  <2>3. uas'.channel = <<Answer>> => uas.channel = <<Answer>>
    BY <1>1, <1>t, RespondIs DEF RunRefuses
  <2>4. AnswerIsEarned'
    BY <2>2, <2>3 DEF LegInv, AnswerIsEarned, Connected, PickedUp
  <2>5. RunKnows'
    BY <1>1, <1>t, <2>1, <2>2 DEF RunRefuses, GoTo, RunKnows, Rings
  <2>. QED
    BY <1>1, <2>2, <2>4, <2>5, RunMoves DEF RunRefuses, GoTo
<1>2. CASE RunInvites
  <2>1. cur = 0 /\ res /= Timeout
    BY <1>2 DEF RunInvites, LegInv, OneAtATime, RunKnows
  <2>. QED
    BY <1>2, <2>1, TxNumbers, InviteKept DEF RunInvites, cancelVars, GoTo
<1>3. CASE RunPublishes
  <2>1. UNCHANGED <<cur, res, uac, callee, leg, misread, caller, uas>>
    BY <1>3 DEF RunPublishes, cancelVars
  <2>2. AnswerIsEarned'
    BY <2>1 DEF LegInv, AnswerIsEarned, Connected, PickedUp
  <2>3. RunKnows'
    BY <1>3, <1>t, <2>1 DEF RunPublishes, GoTo, RunKnows, LegInv
  <2>. QED
    BY <1>3, <2>1, <2>2, <2>3, RunMoves DEF RunPublishes, GoTo
<1>4. CASE MediateReads
  <2>1. PICK i \in Tx : i = cur
    BY <1>4, <1>t, ReadsIs
  <2>2. /\ uac[i].inbox = <<res'>> /\ uac'[i].inbox = <<>>
        /\ \A j \in Tx : uac'[j].state = uac[j].state /\ uac'[j].timerB = uac[j].timerB
        /\ \A j \in Tx \ {i} : uac'[j] = uac[j]
    BY <1>4, <1>t, <2>1, ReadsIs
  <2>3. UNCHANGED <<cur, virtualUACTx, callee, leg, misread, caller, uas>> /\ res /= Timeout
    BY <1>4 DEF MediateReads, cancelVars, LegInv, RunKnows
  <2>4. \A j \in Tx : Rings(j)' <=> Rings(j)
    BY <2>2, <2>3 DEF Rings
  <2>5. LegChange(i)
    BY <2>1, <2>2, <2>3, <2>4, OpenOneRings DEF LegChange
  <2>6. AnswerIsEarned'
    BY <2>1, <2>2, <2>3 DEF LegInv, AnswerIsEarned, Connected, PickedUp
  <2>7. /\ res' = Interval => callee[i].did = "rejected"
        /\ res' /= Ringing => ~Rings(i)
    BY <2>2 DEF LegInv, Settled
  <2>8. pc'["Run"] = IF res' = Interval THEN "retry" ELSE "relay"
    BY <1>4, <1>t DEF MediateReads, GoTo
  <2>9. RunKnows'
    BY <2>1, <2>3, <2>4, <2>7, <2>8 DEF RunKnows
  <2>. QED
    BY <1>4, <2>3, <2>5, <2>6, <2>9, RunChangesLeg DEF MediateReads, GoTo
<1>5. CASE MediateRetries
  <2>1. /\ cur \in Tx /\ callee[cur].did = "rejected" /\ res = Interval
        /\ UNCHANGED <<virtualUACTx, res, leg, uas, caller, misread>>
    BY <1>5, <1>t DEF MediateRetries, cancelVars, InHand, LegInv, RunKnows
  <2>2. CASE cur < MaxTx /\ Invite(cur + 1) /\ cur' = cur + 1 /\ GoTo("Run", "publish")
    <3>1. PICK i \in Tx : i = cur + 1
      BY <2>1, <2>2, TxNumbers
    <3>. QED
      BY <2>1, <2>2, <3>1, InviteKept DEF GoTo
  <2>3. CASE GoTo("Run", "relay") /\ UNCHANGED <<cur, uac, callee>>
    <3>1. AnswerIsEarned'
      BY <2>1, <2>3 DEF LegInv, AnswerIsEarned, Connected, PickedUp
    <3>2. RunKnows'
      BY <1>t, <2>1, <2>3 DEF GoTo, RunKnows, Rings
    <3>. QED
      BY <2>1, <2>3, <3>1, <3>2, RunMoves DEF GoTo
  <2>. QED
    BY <1>5, <2>2, <2>3 DEF MediateRetries
<1>. QED
  BY <1>1, <1>2, <1>3, <1>4, <1>5

\* Run, from the last response of the callee to its end.
LEMMA RunConcludes ==
  ASSUME LegInv, Typed',
         \/ MediateRelays \/ MediateEstablishes \/ MediateWaits \/ MediateSeesDone
         \/ MediateTimesOut \/ MediateAbandons \/ RunExits
  PROVE  LegInv'
<1>t. /\ uas \in UasType /\ "Run" \in DOMAIN pc /\ Timeout \in Response /\ TypeOK /\ InHand /\ Typed
  BY GoroutineNames DEF LegInv, Typed, TypeOK, Response, Final
<1>u. UNCHANGED <<cur, virtualUACTx, leg, misread, caller>>
  BY DEF MediateRelays, MediateEstablishes, MediateWaits, MediateSeesDone, MediateTimesOut,
         MediateAbandons, RunExits, b2buaVars, cancelVars
<1>1. CASE MediateRelays
  <2>1. UNCHANGED <<res, uac, callee>> /\ res \in Response
    BY <1>1, <1>t DEF MediateRelays, b2buaVars, InHand
  <2>2. uas'.channel = <<Answer>> => res = Answer \/ uas.channel = <<Answer>>
    BY <1>1, <1>t, <2>1, RespondIs DEF MediateRelays
  <2>3. AnswerIsEarned'
    BY <1>u, <2>1, <2>2 DEF LegInv, AnswerIsEarned, Connected, PickedUp
  <2>4. res /= Ringing => \A i \in Tx : ~Rings(i)
    BY <1>1, OpenOneRings DEF MediateRelays, LegInv, RunKnows
  <2>5. PICK l \in {"mediate", "establish", "exit"} :
          /\ pc' = [pc EXCEPT !["Run"] = l]
          /\ l = "mediate" => res = Ringing
          /\ l = "establish" => res = Answer
          /\ l = "exit" => res /= Ringing
    BY <1>1 DEF MediateRelays, GoTo
  <2>6. RunKnows'
    BY <1>1, <1>t, <1>u, <2>1, <2>4, <2>5 DEF MediateRelays, InHand, RunKnows, Rings
  <2>. QED
    BY <1>u, <2>1, <2>3, <2>5, <2>6, RunMoves
<1>2. CASE MediateEstablishes \/ MediateWaits \/ RunExits
  <2>1. UNCHANGED <<res, uac, callee, uas>>
    BY <1>2 DEF MediateEstablishes, MediateWaits, RunExits, b2buaVars
  <2>2. AnswerIsEarned'
    BY <1>u, <2>1 DEF LegInv, AnswerIsEarned, Connected, PickedUp
  <2>3. PICK l \in {"wait", "exit", "ended"} :
          /\ pc' = [pc EXCEPT !["Run"] = l]
          /\ pc["Run"] = IF l = "wait" THEN "establish" ELSE IF l = "exit" THEN "wait" ELSE "exit"
    BY <1>2 DEF MediateEstablishes, MediateWaits, RunExits, GoTo
  <2>4. RunKnows'
    BY <1>t, <1>u, <2>1, <2>3, OpenOneRings DEF InHand, LegInv, RunKnows, Rings
  <2>. QED
    BY <1>u, <2>1, <2>2, <2>3, <2>4, RunMoves
<1>3. CASE MediateSeesDone
  <2>1. PICK i \in Tx : i = cur
    BY <1>3, <1>t DEF MediateSeesDone, InHand
  <2>2. UNCHANGED <<res, uac, uas>> /\ res /= Timeout
    BY <1>3 DEF MediateSeesDone, b2buaVars, LegInv, RunKnows
  <2>3. CASE UacDone(i) /\ GoTo("Run", "exit") /\ UNCHANGED callee
    <3>1. \A j \in Tx : ~Rings(j)
      BY <2>1, <2>2, <2>3, OpenOneRings DEF UacDone, LegInv, Settled
    <3>2. AnswerIsEarned'
      BY <1>u, <2>2, <2>3 DEF LegInv, AnswerIsEarned, Connected, PickedUp
    <3>3. RunKnows'
      BY <1>t, <1>u, <2>2, <2>3, <3>1 DEF GoTo, RunKnows, Rings
    <3>. QED
      BY <1>u, <2>2, <2>3, <3>2, <3>3, RunMoves DEF GoTo
  <2>4. CASE SendsCancel(i) /\ GoTo("Run", "abandon")
    <3>1. /\ LegChange(i) /\ callee'[i].cancelled
          /\ \A j \in Tx : callee'[j].did = callee[j].did
      BY <1>t, <2>1, <2>2, <2>4, OpenOneRings, SendsCancelChanges
    <3>2. AnswerIsEarned'
      BY <1>u, <2>2, <3>1 DEF LegInv, AnswerIsEarned, Connected, PickedUp
    <3>3. \A j \in Tx : ~Rings(j)'
      BY <2>1, <3>1, OthersRing, OpenOneRings DEF Rings
    <3>4. RunKnows'
      BY <1>t, <2>4, <3>3 DEF GoTo, RunKnows
    <3>. QED
      BY <1>u, <2>2, <2>4, <3>1, <3>2, <3>4, RunChangesLeg DEF GoTo
  <2>. QED
    BY <1>3, <2>1, <2>3, <2>4 DEF MediateSeesDone
<1>4. CASE MediateTimesOut
  <2>1. UNCHANGED <<uac, callee>> /\ res' = Timeout /\ res /= Timeout
    BY <1>4 DEF MediateTimesOut, LegInv, RunKnows
  <2>2. uas'.channel = <<Answer>> => uas.channel = <<Answer>>
    BY <1>4, <1>t, RespondIs DEF MediateTimesOut
  <2>3. AnswerIsEarned'
    BY <1>u, <2>1, <2>2 DEF LegInv, AnswerIsEarned, Connected, PickedUp
  <2>4. RunKnows'
    BY <1>4, <1>t, <2>1 DEF MediateTimesOut, GoTo, RunKnows
  <2>. QED
    BY <1>4, <1>u, <2>1, <2>3, <2>4, RunMoves DEF MediateTimesOut, GoTo
<1>5. CASE MediateAbandons
  <2>1. PICK i \in Tx : i = cur
    BY <1>5, <1>t DEF MediateAbandons, InHand
  <2>2. /\ UNCHANGED <<res, callee, uas>> /\ uac' = Terminated(i)
        /\ callee[i].did /= "nothing" /\ (res = Timeout \/ \A j \in Tx : ~Rings(j))
    BY <1>5, <2>1, OpenOneRings DEF MediateAbandons, b2buaVars, LegInv, RunKnows
  <2>3. LegChange(i) /\ \A j \in Tx : uac'[j].inbox = uac[j].inbox
    BY <1>t, <2>2, TerminatedChanges
  <2>4. AnswerIsEarned'
    BY <1>u, <2>2, <2>3 DEF LegInv, AnswerIsEarned, Connected, PickedUp
  <2>5. RunKnows'
    BY <1>5, <1>t, <2>2, <2>3, OthersRing DEF MediateAbandons, GoTo, RunKnows
  <2>. QED
    BY <1>5, <1>u, <2>2, <2>3, <2>4, <2>5, RunChangesLeg DEF MediateAbandons, GoTo
<1>. QED
  BY <1>1, <1>2, <1>3, <1>4, <1>5

LEMMA LegNext == LegInv /\ [Next]_vars => LegInv'
<1> SUFFICES ASSUME LegInv, [Next]_vars PROVE LegInv'
  OBVIOUS
<1>1. Typed /\ Typed'
  BY TypedNext DEF LegInv
<1>2. CASE UNCHANGED vars
  <2>1. Aside
    BY <1>2 DEF vars, Aside
  <2>. QED
    BY <1>1, <2>1, AsideKeepsLegs
<1>3. CASE RunStep \/ MediateTimesOut
  BY <1>1, <1>3, RunCalls, RunConcludes DEF RunStep
<1>4. ASSUME NEW c \in Cancels, CancelStarts(c) \/ CancelStep(c) PROVE LegInv'
  BY <1>1, <1>4, CancelKept, AsideSteps, AsideKeepsLegs DEF CancelStep
<1>5. ASSUME NEW h \in HangUps, ByeForwarded(h) \/ Disconnects(h) \/ HangUpStep(h) PROVE LegInv'
  BY <1>1, <1>5, AsideSteps, AsideKeepsLegs DEF HangUpStep
<1>6. CASE CallerAcks \/ UasSends \/ UasEnds
  BY <1>1, <1>6, AsideSteps, AsideKeepsLegs
<1>7. ASSUME NEW i \in Tx, LegsStep(i) PROVE LegInv'
  BY <1>1, <1>7, LegsKept
<1>. QED
  BY <1>2, <1>3, <1>4, <1>5, <1>6, <1>7 DEF Next, LegsStep

LEMMA LegHolds == Safety => []LegInv
BY LegInit, LegNext, PTL DEF Safety

\* The caller hears of an answer only if the callee picked up one of the INVITEs, however
\* many were sent: what waits in an inbox, in mediate's hands or in the caller's channel
\* is accounted for from the moment at which the callee's leg took it.
THEOREM NeverConnected == Safety => []NeverConnectedToNobody
<1>1. LegInv => NeverConnectedToNobody
  BY DEF LegInv, AnswerIsEarned, Connected, NeverConnectedToNobody
<1>. QED
  BY <1>1, LegHolds, PTL

\* At most one INVITE of a call is picked up, because none is sent unless its predecessor
\* was rejected.
THEOREM OneLeg == Safety => []OneLegIsPickedUp
<1>1. ASSUME LegInv PROVE OneLegIsPickedUp
  <2>1. \A i \in Tx : PickedUp(i) => i = cur
    <3>1. cur \in Int /\ \A i \in Tx : i = cur \/ i < cur \/ i > cur
      BY <1>1, TxNumbers DEF LegInv, Typed, TypeOK
    <3>. QED
      BY <1>1, <3>1 DEF LegInv, OneAtATime, PickedUp
  <2>2. {i \in Tx : PickedUp(i)} \subseteq {cur}
    BY <2>1
  <2>3. IsFiniteSet({cur}) /\ Cardinality({cur}) = 1
    BY FS_Singleton
  <2>4. Cardinality({i \in Tx : PickedUp(i)}) <= Cardinality({cur})
    BY <2>2, <2>3, FS_Subset
  <2>. QED
    BY <2>3, <2>4 DEF OneLegIsPickedUp
<1>. QED
  BY <1>1, LegHolds, PTL

\* The invariant of the run with CANCELs: every call, with any number of INVITEs, CANCELs
\* and hang-ups, has the types it should have, and one of its INVITEs at most is picked up.
THEOREM Invariant == Safety => []Inv
BY TypeCorrect, OneLeg, PTL DEF Inv

\* When Run ends otherwise than by a timeout, every phone it made ring has been stopped:
\* whoever ended the call, Run or a Cancel, and wherever the other one was.
THEOREM NoPhone == Safety => []NoPhoneLeftRinging
<1>1. LegInv => NoPhoneLeftRinging
  BY DEF LegInv, RunKnows, Rings, NoPhoneLeftRinging
<1>. QED
  BY <1>1, LegHolds, PTL

-----------------------------------------------------------------------------
(***************************************************************************)
(* A call that nobody cancels.  Run is then the only one to respond to the *)
(* caller, and it does so with a final response only on its way out of     *)
(* mediate; and a call is hung up only while its dialogs are stored.       *)
(***************************************************************************)

\* As long as Run may respond, the caller has no final response, and none is on its way.
FinalOnce ==
  /\ pc["Run"] \in {"start", "publish", "mediate", "retry", "relay"} =>
       /\ caller.finals = {} /\ uas.state = "proceeding"
       /\ uas.channel \in {<<>>, <<Ringing>>}
  /\ uas.channel \in {<<>>, <<Ringing>>} \/ caller.finals = {}
  /\ caller.finals = {} \/ \E r \in Final : caller.finals = {r}

\* Who knows the dialogs, and since when.
DialogsKnown ==
  /\ dialogs /= {} => established /\ pc["Run"] = "wait" /\ ~bdone
  /\ established => pc["Run"] \in {"wait", "exit", "ended"}
  /\ bdone => established \/ pc["Run"] = "ended"
  /\ \A h \in HangUps : /\ pc[h] \in {"cleanup", "close"} => established
                        /\ pc[h] = "close" => dialogs = {}

CallInv == Typed /\ FinalOnce /\ DialogsKnown

LEMMA CallInit == Init => CallInv
<1> SUFFICES ASSUME Init PROVE CallInv
  OBVIOUS
<1>1. /\ pc["Run"] = "start" /\ \A h \in HangUps : pc[h] = "idle"
      /\ caller.finals = {} /\ uas.state = "proceeding" /\ uas.channel = <<>>
      /\ dialogs = {} /\ ~established /\ ~bdone
  BY GoroutineNames DEF Init
<1>2. FinalOnce /\ DialogsKnown
  BY <1>1 DEF FinalOnce, DialogsKnown
<1>. QED
  BY <1>2, TypedInit DEF CallInv

\* Run's steps, and what follows for the final responses and for the dialogs.
LEMMA FinalOnceRun ==
  ASSUME CallInv, RunStep \/ MediateTimesOut
  PROVE  FinalOnce'
<1>t. uas \in UasType /\ "Run" \in DOMAIN pc /\ {Interval, Failure, Timeout} \subseteq Response
  BY GoroutineNames DEF CallInv, Typed, TypeOK, Response, Final
<1>u. UNCHANGED caller
  BY DEF RunStep, RunRefuses, RunInvites, RunPublishes, MediateReads, MediateRetries, MediateRelays,
         MediateEstablishes, MediateWaits, MediateSeesDone, MediateAbandons, RunExits,
         MediateTimesOut
<1>1. CASE RunRefuses \/ MediateTimesOut
  <2>1. pc["Run"] \in {"start", "mediate"} /\ pc'["Run"] \in {"exit", "abandon"}
    BY <1>1, <1>t DEF RunRefuses, MediateTimesOut, GoTo
  <2>. QED
    BY <1>u, <2>1 DEF CallInv, FinalOnce
<1>2. CASE MediateRelays
  <2>1. /\ res \in Response /\ pc["Run"] = "relay"
        /\ pc'["Run"] \in {"mediate", "establish", "exit"}
        /\ pc'["Run"] = "mediate" => res = Ringing
    BY <1>2, <1>t DEF MediateRelays, GoTo, CallInv, Typed, InHand
  <2>2. /\ uas'.state = uas.state
        /\ uas'.channel = <<res>> \/ uas.state = "terminated"
    BY <1>2, <1>t, <2>1, RespondIs DEF MediateRelays
  <2>. QED
    BY <1>u, <2>1, <2>2 DEF CallInv, FinalOnce
<1>3. CASE ~RunRefuses /\ ~MediateTimesOut /\ ~MediateRelays
  <2>1. UNCHANGED uas
    BY <1>3 DEF RunStep, RunInvites, RunPublishes, MediateReads, MediateRetries,
                MediateEstablishes, MediateWaits, MediateSeesDone, MediateAbandons, RunExits
  <2>2. pc'["Run"] \in {"start", "publish", "mediate", "retry", "relay"} =>
          pc["Run"] \in {"start", "publish", "mediate", "retry", "relay"}
    BY <1>3, <1>t DEF RunStep, RunInvites, RunPublishes, MediateReads, MediateRetries, GoTo,
                      MediateEstablishes, MediateWaits, MediateSeesDone, MediateAbandons, RunExits
  <2>. QED
    BY <1>u, <2>1, <2>2 DEF CallInv, FinalOnce
<1>. QED
  BY <1>1, <1>2, <1>3

LEMMA DialogsKnownRun ==
  ASSUME CallInv, RunStep \/ MediateTimesOut
  PROVE  DialogsKnown'
<1>t. "Run" \in DOMAIN pc /\ (bdone' \in BOOLEAN /\ bdone \in BOOLEAN)
      /\ \A h \in HangUps : h /= "Run" /\ h \in DOMAIN pc
  BY GoroutineNames, TypedNext DEF CallInv, Typed, TypeOK, RunStep, RunRefuses, RunInvites,
     RunPublishes, MediateReads, MediateRetries, MediateRelays, MediateEstablishes, MediateWaits,
     MediateSeesDone, MediateAbandons, RunExits, MediateTimesOut
<1>1. \A h \in HangUps : pc'[h] = pc[h]
  BY <1>t DEF GoTo, RunStep, RunRefuses, RunInvites,
     RunPublishes, MediateReads, MediateRetries, MediateRelays, MediateEstablishes, MediateWaits,
     MediateSeesDone, MediateAbandons, RunExits, MediateTimesOut
<1>2. CASE MediateEstablishes
  <2>1. /\ pc["Run"] = "establish" /\ pc'["Run"] = "wait" /\ established' /\ bdone' = bdone
    BY <1>2, <1>t DEF MediateEstablishes, GoTo
  <2>2. ~bdone /\ \A h \in HangUps : pc[h] \notin {"cleanup", "close"}
    BY <2>1 DEF CallInv, DialogsKnown
  <2>. QED
    BY <1>1, <2>1, <2>2 DEF DialogsKnown
<1>3. CASE MediateWaits \/ RunExits
  <2>1. UNCHANGED <<established, dialogs>>
    BY <1>3 DEF MediateWaits, RunExits, b2buaVars, serverVars
  <2>2. \/ pc["Run"] = "wait" /\ pc'["Run"] = "exit" /\ bdone /\ bdone'
        \/ pc["Run"] = "exit" /\ pc'["Run"] = "ended"
    BY <1>3, <1>t DEF MediateWaits, RunExits, GoTo
  <2>. QED
    BY <1>1, <2>1, <2>2 DEF CallInv, DialogsKnown
<1>4. CASE ~MediateEstablishes /\ ~MediateWaits /\ ~RunExits
  <2>1. UNCHANGED <<established, dialogs, bdone>>
    BY <1>4 DEF RunStep, RunRefuses, RunInvites, RunPublishes, MediateReads, MediateRetries,
                MediateRelays, MediateSeesDone, MediateAbandons, MediateTimesOut,
                b2buaVars, serverVars
  <2>2. pc["Run"] \notin {"wait", "exit", "ended"}
    BY <1>4 DEF RunStep, RunRefuses, RunInvites, RunPublishes, MediateReads, MediateRetries,
                MediateRelays, MediateSeesDone, MediateAbandons, MediateTimesOut
  <2>. QED
    BY <1>1, <2>1, <2>2 DEF CallInv, DialogsKnown
<1>. QED
  BY <1>2, <1>3, <1>4

LEMMA CallNext == ASSUME Cancels = {}, CallInv, [Next]_vars PROVE CallInv'
<1>t. /\ uas \in UasType /\ caller \in CallerType
      /\ "Run" \in DOMAIN pc /\ \A h \in HangUps : h /= "Run" /\ h \in DOMAIN pc
  BY GoroutineNames DEF CallInv, Typed, TypeOK
<1>1. Typed'
  BY TypedNext DEF CallInv
<1>2. CASE RunStep \/ MediateTimesOut
  BY <1>1, <1>2, FinalOnceRun, DialogsKnownRun DEF CallInv
<1>3. ASSUME NEW h \in HangUps, ByeForwarded(h) \/ Disconnects(h) PROVE CallInv'
  <2>1. /\ uas' = uas /\ caller'.finals = caller.finals
        /\ UNCHANGED <<established, dialogs, bdone>>
    BY <1>3, <1>t DEF ByeForwarded, Disconnects, CallerType, b2buaVars, serverVars
  <2>2. dialogs /= {} /\ pc' = [pc EXCEPT ![h] = "cleanup"]
    BY <1>3 DEF ByeForwarded, Disconnects, InDialog, GoTo
  <2>3. FinalOnce'
    BY <1>t, <2>1, <2>2 DEF CallInv, FinalOnce
  <2>4. DialogsKnown'
    BY <1>t, <2>1, <2>2 DEF CallInv, DialogsKnown
  <2>. QED
    BY <1>1, <2>3, <2>4 DEF CallInv
<1>4. ASSUME NEW h \in HangUps, HangUpStep(h) PROVE CallInv'
  <2>1. UNCHANGED <<uas, caller, established>> /\ established
    BY <1>4 DEF HangUpStep, Cleans, Closes, b2buaVars, CallInv, DialogsKnown
  <2>2. /\ pc'["Run"] = pc["Run"] /\ \A k \in HangUps \ {h} : pc'[k] = pc[k]
        /\ pc'[h] \in {"close", "ended"} /\ dialogs' = {}
    BY <1>4, <1>t, <2>1 DEF HangUpStep, Cleans, Closes, GoTo, serverVars, CallInv, DialogsKnown
  <2>3. FinalOnce'
    BY <2>1, <2>2 DEF CallInv, FinalOnce
  <2>4. DialogsKnown'
    BY <2>1, <2>2 DEF CallInv, DialogsKnown
  <2>. QED
    BY <1>1, <2>3, <2>4 DEF CallInv
<1>5. CASE UasSends
  <2>1. PICK r \in Response :
          /\ uas.channel = <<r>> /\ uas'.channel = <<>>
          /\ \/ uas'.state = uas.state /\ caller' = caller
             \/ caller'.finals = caller.finals \cup ({r} \cap Final)
          /\ r = Ringing => uas'.state = uas.state
    BY <1>5, <1>t, UasSendsIs
  <2>2. FinalOnce'
    <3>1. CASE r = Ringing
      <4>1. caller'.finals = caller.finals
        BY <2>1, <3>1 DEF Final
      <4>. QED
        BY <1>5, <2>1, <3>1, <4>1 DEF UasSends, CallInv, FinalOnce
    <3>2. CASE r /= Ringing
      <4>1. r \in Final /\ uas.channel \notin {<<>>, <<Ringing>>}
        BY <2>1, <3>2 DEF Response
      <4>2. /\ caller.finals = {} /\ caller'.finals \in {{}, {r}}
            /\ pc["Run"] \notin {"start", "publish", "mediate", "retry", "relay"}
        BY <2>1, <4>1 DEF CallInv, FinalOnce
      <4>. QED
        BY <1>5, <2>1, <4>1, <4>2 DEF UasSends, FinalOnce
    <3>. QED
      BY <3>1, <3>2
  <2>3. DialogsKnown'
    BY <1>5 DEF UasSends, b2buaVars, serverVars, CallInv, DialogsKnown
  <2>. QED
    BY <1>1, <2>2, <2>3 DEF CallInv
<1>6. CASE \/ UNCHANGED vars \/ CallerAcks \/ UasEnds
           \/ \E i \in Tx : LegsStep(i)
  <2>1. /\ UNCHANGED <<pc, established, dialogs, bdone>>
        /\ caller'.finals = caller.finals /\ uas'.channel = uas.channel
        /\ uas'.state = uas.state \/ uas.state = "completed"
    BY <1>6, <1>t DEF vars, CallerAcks, UasEnds, LegsStep, CalleeRings, CalleeAnswers,
       CalleeRejects, CalleeConfirmsCancel, CalleeByes, UacTimesOut, UacEnds, b2buaVars,
       serverVars, CallerType, UasType
  <2>2. FinalOnce' /\ DialogsKnown'
    BY <2>1 DEF CallInv, FinalOnce, DialogsKnown
  <2>. QED
    BY <1>1, <2>2 DEF CallInv
<1>. QED
  BY <1>2, <1>3, <1>4, <1>5, <1>6 DEF Next, LegsStep

LEMMA CallHolds == ASSUME Cancels = {} PROVE Safety => []CallInv
<1>1. CallInv /\ [Next]_vars => CallInv'
  BY CallNext
<1>. QED
  BY <1>1, CallInit, PTL DEF Safety

\* A caller that does not cancel gets one final response at most: Run's own, from whichever
\* of its branches takes it out of mediate first.
THEOREM OneFinal == ASSUME Cancels = {} PROVE Safety => []OneFinalResponse
<1>1. ASSUME CallInv PROVE OneFinalResponse
  <2>1. CASE caller.finals = {}
    BY <2>1, FS_EmptySet DEF OneFinalResponse
  <2>2. ASSUME NEW r \in Final, caller.finals = {r} PROVE OneFinalResponse
    <3>1. Cardinality(caller.finals) = 1
      BY <2>2, FS_Singleton
    <3>. QED
      BY <3>1 DEF OneFinalResponse
  <2>. QED
    BY <1>1, <2>1, <2>2 DEF CallInv, FinalOnce
<1>2. Safety => []CallInv
  BY CallHolds
<1>. QED
  BY <1>1, <1>2, PTL

\* Nor is a dialog of an uncancelled call found whose Run is over, however many hang up at
\* the same time.
THEOREM LiveDialogs == ASSUME Cancels = {} PROVE Safety => []DialogsAreLive
<1>1. CallInv => DialogsAreLive
  BY DEF CallInv, DialogsKnown, DialogsAreLive
<1>2. Safety => []CallInv
  BY CallHolds
<1>. QED
  BY <1>1, <1>2, PTL

-----------------------------------------------------------------------------
(***************************************************************************)
(* A call that may be cancelled.  Besides Run only a Cancel responds to    *)
(* the caller, with a 487: until Run leaves mediate nothing else was heard *)
(* or is on its way, and the caller's transaction has ended early only if  *)
(* the caller gave up.                                                     *)
(***************************************************************************)
Calling == pc["Run"] \in {"start", "publish", "mediate", "retry", "relay"}
GaveUp == \E c \in Cancels : pc[c] /= "idle"
OfCancel == {<<>>, <<Ringing>>, <<Cancelled>>}

\* The 487 of a CANCEL never comes from a callee's leg: a callee that was called off
\* refuses like any other.
NoCancelled == res /= Cancelled /\ \A i \in Tx : uac[i].inbox /= <<Cancelled>>

HeardOnce ==
  /\ Calling => /\ caller.finals \subseteq {Cancelled} /\ uas.channel \in OfCancel
                /\ uas.state = "proceeding" \/ GaveUp
  /\ uas.channel \in OfCancel \/ caller.finals \subseteq {Cancelled}
  /\ uas.channel = <<Cancelled>> => GaveUp
  /\ Answer \in caller.finals => uas.state = "terminated"

HeardInv == LegInv /\ NoCancelled /\ HeardOnce

LEMMA HeardInit == Init => HeardInv
<1> SUFFICES ASSUME Init PROVE HeardInv
  OBVIOUS
<1>1. /\ caller.finals = {} /\ uas.state = "proceeding" /\ uas.channel = <<>>
      /\ res = NoResponse /\ \A i \in Tx : uac[i].inbox = <<>>
  BY DEF Init
<1>2. NoCancelled
  BY <1>1 DEF NoCancelled, NoResponse, Cancelled
<1>3. HeardOnce
  BY <1>1 DEF HeardOnce, OfCancel
<1>. QED
  BY <1>2, <1>3, LegInit DEF HeardInv

\* A caller that gave up has given up for good.
LEMMA GaveUpStays == ASSUME Typed, [Next]_vars PROVE GaveUp => GaveUp'
<1> SUFFICES ASSUME NEW c \in Cancels, pc[c] /= "idle" PROVE pc'[c] /= "idle"
  BY DEF GaveUp
<1>t. /\ c \in DOMAIN pc /\ c /= "Run" /\ c \notin HangUps
      /\ \A g \in Cancels \cup HangUps : g \in DOMAIN pc
  BY GoroutineNames, B2BUAAssumption DEF Typed, TypeOK
<1>1. CASE RunStep \/ MediateTimesOut
  BY <1>1, <1>t DEF RunStep, RunRefuses, RunInvites, RunPublishes, MediateReads, MediateRetries,
     MediateRelays, MediateEstablishes, MediateWaits, MediateSeesDone, MediateAbandons, RunExits,
     MediateTimesOut, GoTo
<1>2. ASSUME NEW d \in Cancels, CancelStarts(d) \/ CancelStep(d) PROVE pc'[c] /= "idle"
  BY <1>2, <1>t DEF CancelStarts, CancelStep, CancelsLeg, CancelsNothing, TerminatesLeg,
     CancelResponds, Cleans, Closes, GoTo
<1>3. ASSUME NEW h \in HangUps, ByeForwarded(h) \/ Disconnects(h) \/ HangUpStep(h)
      PROVE  pc'[c] /= "idle"
  BY <1>3, <1>t DEF ByeForwarded, Disconnects, HangUpStep, Cleans, Closes, GoTo
<1>4. CASE \/ UNCHANGED vars \/ CallerAcks \/ UasSends \/ UasEnds
           \/ \E i \in Tx : LegsStep(i)
  BY <1>4 DEF vars, CallerAcks, UasSends, UasEnds, LegsStep, CalleeRings, CalleeAnswers,
     CalleeRejects, CalleeConfirmsCancel, CalleeByes, UacTimesOut, UacEnds
<1>. QED
  BY <1>1, <1>2, <1>3, <1>4 DEF Next, LegsStep

LEMMA NoCancelledStays == ASSUME Typed, NoCancelled, [Next]_vars PROVE NoCancelled'
<1>t. /\ uac \in [Tx -> UacType] /\ callee \in [Tx -> CalleeType] /\ TypeOK /\ InHand
      /\ {Answer, Reject, Interval, Timeout} \subseteq Response \ {Cancelled}
      /\ Ringing /= Cancelled
  BY DEF Typed, TypeOK, Response, Final, Answer, Reject, Interval, Timeout, Cancelled, Ringing
<1>1. CASE UNCHANGED uac /\ UNCHANGED res
  BY <1>1 DEF NoCancelled
<1>2. CASE MediateReads
  BY <1>2, <1>t, ReadsIs DEF NoCancelled
<1>3. CASE RunInvites \/ MediateRetries
  <2>1. res' = res
    BY <1>3 DEF RunInvites, MediateRetries
  <2>2. ASSUME NEW i, Invite(i), i \in Tx PROVE \A j \in Tx : uac'[j].inbox = uac[j].inbox
    BY <1>t, <2>2, InviteIs
  <2>3. CASE RunInvites
    <3>1. 1 \in Tx
      BY TxNumbers
    <3>. QED
      BY <2>1, <2>2, <2>3, <3>1 DEF RunInvites, NoCancelled
  <2>4. CASE MediateRetries
    <3>1. cur \in Tx /\ (cur < MaxTx => cur + 1 \in Tx)
      BY <1>t, <2>4, TxNumbers DEF MediateRetries, InHand
    <3>. QED
      BY <2>1, <2>2, <2>4, <3>1 DEF MediateRetries, NoCancelled
  <2>. QED
    BY <1>3, <2>3, <2>4
<1>4. CASE MediateTimesOut
  BY <1>4, <1>t DEF MediateTimesOut, NoCancelled
<1>5. ASSUME NEW i \in Tx, uac' = Terminated(i), res' = res PROVE NoCancelled'
  BY <1>5, <1>t, TerminatedIs DEF NoCancelled
<1>6. CASE MediateAbandons
  BY <1>6, <1>5, <1>t DEF MediateAbandons, InHand, b2buaVars
<1>7. ASSUME NEW c \in Cancels, TerminatesLeg(c) PROVE NoCancelled'
  BY <1>7, <1>5, <1>t DEF TerminatesLeg, InHand, b2buaVars
<1>8. ASSUME NEW i \in Tx, LegsStep(i) PROVE NoCancelled'
  <2>1. res' = res
    BY <1>8 DEF LegsStep, CalleeRings, CalleeAnswers, CalleeRejects, CalleeConfirmsCancel,
                CalleeByes, UacTimesOut, UacEnds, b2buaVars
  <2>2. ASSUME NEW r \in Response \ {Cancelled}, NEW n \in {"answered", "completed"},
               UacReceivesFinal(i, r, n)
        PROVE  NoCancelled'
    BY <1>t, <2>1, <2>2, ReceivesIs DEF NoCancelled
  <2>3. CASE CalleeAnswers(i) \/ CalleeConfirmsCancel(i)
    BY <1>t, <2>2, <2>3 DEF CalleeAnswers, CalleeConfirmsCancel
  <2>4. CASE CalleeRejects(i)
    BY <1>t, <2>2, <2>4 DEF CalleeRejects
  <2>5. CASE CalleeRings(i)
    BY <1>t, <2>1, <2>5, RingsIs DEF NoCancelled
  <2>6. CASE UacTimesOut(i)
    BY <1>t, <2>1, <2>6, TimesOutIs DEF NoCancelled
  <2>7. CASE UacEnds(i)
    BY <1>5, <2>1, <2>7 DEF UacEnds
  <2>8. CASE CalleeByes(i)
    BY <1>1, <2>1, <2>8 DEF CalleeByes
  <2>. QED
    BY <1>8, <2>3, <2>4, <2>5, <2>6, <2>7, <2>8 DEF LegsStep
<1>9. \/ UNCHANGED uac /\ UNCHANGED res
      \/ MediateReads \/ RunInvites \/ MediateRetries \/ MediateTimesOut \/ MediateAbandons
      \/ \E c \in Cancels : TerminatesLeg(c)
      \/ \E i \in Tx : LegsStep(i)
  BY DEF Next, vars, RunStep, RunRefuses, RunPublishes, MediateRelays, MediateEstablishes,
     MediateWaits, MediateSeesDone, RunExits, CancelStarts, CancelStep, CancelsLeg, CancelsNothing,
     CancelResponds, Cleans, Closes, ByeForwarded, Disconnects, HangUpStep, CallerAcks, UasSends,
     UasEnds, LegsStep, b2buaVars
<1>. QED
  BY <1>1, <1>2, <1>3, <1>4, <1>6, <1>7, <1>8, <1>9

\* A step that neither responds to the caller nor takes Run back into mediate.
LEMMA HeardElsewhere ==
  ASSUME HeardOnce, GaveUp => GaveUp', caller'.finals = caller.finals,
         uas'.channel = uas.channel, uas'.state = uas.state \/ uas'.state = "terminated",
         uas'.state = uas.state \/ uas.state = "completed",
         Calling' => Calling
  PROVE  HeardOnce'
BY DEF HeardOnce, OfCancel

\* Run's steps.
LEMMA HeardRun ==
  ASSUME HeardInv, GaveUp => GaveUp', RunStep \/ MediateTimesOut
  PROVE  HeardOnce'
<1>t. /\ uas \in UasType /\ "Run" \in DOMAIN pc
      /\ {Interval, Failure, Timeout} \subseteq Response
      /\ InHand /\ HeardOnce /\ res /= Cancelled
  BY GoroutineNames DEF HeardInv, NoCancelled, LegInv, Typed, TypeOK, Response, Final
<1>u. UNCHANGED caller
  BY DEF RunStep, RunRefuses, RunInvites, RunPublishes, MediateReads, MediateRetries, MediateRelays,
         MediateEstablishes, MediateWaits, MediateSeesDone, MediateAbandons, RunExits,
         MediateTimesOut
<1>d. Interval /= Cancelled /\ Failure /= Cancelled /\ Timeout /= Cancelled
  BY DEF Interval, Failure, Timeout, Cancelled
<1>c. ASSUME NEW r \in Response, Respond(r), r /= Cancelled, Calling,
             Calling' => r = Ringing
      PROVE  HeardOnce'
  <2>1. /\ uas'.state = uas.state
        /\ uas'.channel = <<r>> \/ uas'.channel = uas.channel
    BY <1>c, <1>t, RespondIs
  <2>2. caller'.finals \subseteq {Cancelled} /\ uas.channel \in OfCancel
        /\ (uas.state = "proceeding" \/ GaveUp)
    BY <1>c, <1>t, <1>u DEF HeardOnce
  <2>3. uas'.channel = <<Cancelled>> => GaveUp'
    BY <1>c, <1>t, <2>1 DEF HeardOnce
  <2>4. Answer \notin caller'.finals
    BY <2>2 DEF Answer, Cancelled
  <2>5. Calling' => uas'.channel \in OfCancel
    BY <1>c, <2>1, <2>2 DEF OfCancel
  <2>. QED
    BY <2>1, <2>2, <2>3, <2>4, <2>5 DEF HeardOnce
<1>1. CASE RunRefuses
  <2>1. PICK r \in {Interval, Failure} : Respond(r)
    BY <1>1 DEF RunRefuses
  <2>2. Calling /\ ~Calling'
    BY <1>1, <1>t DEF RunRefuses, GoTo, Calling
  <2>. QED
    BY <1>c, <1>d, <1>t, <2>1, <2>2
<1>2. CASE MediateTimesOut
  <2>1. Calling /\ ~Calling' /\ Respond(Timeout)
    BY <1>2, <1>t DEF MediateTimesOut, GoTo, Calling
  <2>. QED
    BY <1>c, <1>d, <1>t, <2>1
<1>3. CASE MediateRelays
  <2>1. Calling /\ Respond(res) /\ res \in Response /\ (Calling' => res = Ringing)
    BY <1>3, <1>t DEF MediateRelays, GoTo, Calling, InHand
  <2>. QED
    BY <1>c, <1>t, <2>1
<1>4. CASE ~RunRefuses /\ ~MediateTimesOut /\ ~MediateRelays
  <2>1. UNCHANGED uas
    BY <1>4 DEF RunStep, RunInvites, RunPublishes, MediateReads, MediateRetries,
                MediateEstablishes, MediateWaits, MediateSeesDone, MediateAbandons, RunExits
  <2>2. Calling' => Calling
    BY <1>4, <1>t DEF RunStep, RunInvites, RunPublishes, MediateReads, MediateRetries, GoTo, Calling,
                      MediateEstablishes, MediateWaits, MediateSeesDone, MediateAbandons, RunExits
  <2>. QED
    BY <1>t, <1>u, <2>1, <2>2, HeardElsewhere
<1>. QED
  BY <1>1, <1>2, <1>3, <1>4

\* A Cancel responds with a 487, and the caller gave up.
LEMMA HeardCancel ==
  ASSUME HeardInv, GaveUp => GaveUp', NEW c \in Cancels, CancelStarts(c) \/ CancelStep(c)
  PROVE  HeardOnce'
<1>t. /\ uas \in UasType /\ "Run" \in DOMAIN pc /\ c \in DOMAIN pc /\ c /= "Run"
      /\ Cancelled \in Response /\ HeardOnce
  BY GoroutineNames DEF HeardInv, LegInv, Typed, TypeOK, Response, Final
<1>u. UNCHANGED caller /\ pc'["Run"] = pc["Run"]
  BY <1>t DEF CancelStarts, CancelStep, CancelsLeg, CancelsNothing, TerminatesLeg, CancelResponds,
     Cleans, Closes, GoTo
<1>v. Calling' <=> Calling
  BY <1>u DEF Calling
<1>1. CASE CancelResponds(c)
  <2>1. GaveUp
    BY <1>1 DEF CancelResponds, GaveUp
  <2>2. /\ uas'.state = uas.state
        /\ uas'.channel = <<Cancelled>> \/ uas'.channel = uas.channel
    BY <1>1, <1>t, RespondIs DEF CancelResponds
  <2>3. uas'.channel \in OfCancel \/ uas'.channel = uas.channel
    BY <2>2 DEF OfCancel
  <2>. QED
    BY <1>t, <1>u, <1>v, <2>1, <2>2, <2>3 DEF HeardOnce
<1>2. CASE ~CancelResponds(c)
  <2>1. UNCHANGED uas
    BY <1>2 DEF CancelStarts, CancelStep, CancelsLeg, CancelsNothing, TerminatesLeg, Cleans, Closes
  <2>. QED
    BY <1>t, <1>u, <1>v, <2>1, HeardElsewhere
<1>. QED
  BY <1>1, <1>2

\* The caller hears what was in the channel.
LEMMA HeardSends == ASSUME HeardInv, GaveUp => GaveUp', UasSends PROVE HeardOnce'
<1>t. uas \in UasType /\ caller \in CallerType /\ HeardOnce
  BY DEF HeardInv, LegInv, Typed, TypeOK
<1>u. Calling' <=> Calling
  BY DEF UasSends, Calling
<1>1. PICK r \in Response :
        /\ uas.channel = <<r>> /\ uas'.channel = <<>>
        /\ \/ uas'.state = uas.state /\ caller' = caller
           \/ caller'.finals = caller.finals \cup ({r} \cap Final)
        /\ r = Ringing => uas'.state = uas.state
  BY <1>t, UasSendsIs
<1>2. uas'.channel \in OfCancel /\ uas'.channel /= <<Cancelled>>
  BY <1>1 DEF OfCancel
<1>3. /\ uas.state = "terminated" => uas'.state = "terminated" /\ caller' = caller
      /\ uas.state /= "terminated" /\ r = Answer => uas'.state = "terminated"
  BY <1>1, <1>t DEF UasSends, UasDone, UasType, Answer, Ringing
<1>4. Answer \in caller'.finals => uas'.state = "terminated"
  BY <1>1, <1>3, <1>t DEF HeardOnce, UasType
<1>5. ASSUME Calling PROVE /\ caller'.finals \subseteq {Cancelled}
                           /\ uas'.state = "proceeding" \/ GaveUp
  <2>1. r \in {Ringing, Cancelled} /\ caller.finals \subseteq {Cancelled}
        /\ (uas.state = "proceeding" \/ GaveUp) /\ (r = Cancelled => GaveUp)
    BY <1>1, <1>5, <1>t DEF HeardOnce, OfCancel
  <2>2. r = Ringing => {r} \cap Final = {}
    BY DEF Ringing, Final, Answer, Reject, Interval, Timeout, Failure, Cancelled
  <2>3. caller'.finals \subseteq {Cancelled}
    BY <1>1, <2>1, <2>2
  <2>. QED
    BY <1>1, <2>1, <2>3
<1>. QED
  BY <1>u, <1>2, <1>4, <1>5 DEF HeardOnce

LEMMA HeardNext == HeardInv /\ [Next]_vars => HeardInv'
<1> SUFFICES ASSUME HeardInv, [Next]_vars PROVE HeardInv'
  OBVIOUS
<1>t. /\ LegInv /\ Typed /\ NoCancelled /\ HeardOnce
      /\ uas \in UasType /\ caller \in CallerType
      /\ "Run" \in DOMAIN pc /\ \A h \in HangUps : h /= "Run" /\ h \in DOMAIN pc
  BY GoroutineNames DEF HeardInv, LegInv, Typed, TypeOK
<1>g. GaveUp => GaveUp'
  BY <1>t, GaveUpStays
<1>1. LegInv' /\ NoCancelled'
  BY <1>t, LegNext, NoCancelledStays
<1>2. CASE RunStep \/ MediateTimesOut
  BY <1>1, <1>2, <1>g, HeardRun DEF HeardInv
<1>3. ASSUME NEW c \in Cancels, CancelStarts(c) \/ CancelStep(c) PROVE HeardInv'
  BY <1>1, <1>3, <1>g, HeardCancel DEF HeardInv
<1>4. CASE UasSends
  BY <1>1, <1>4, <1>g, HeardSends DEF HeardInv
<1>5. ASSUME NEW h \in HangUps, ByeForwarded(h) \/ Disconnects(h) \/ HangUpStep(h)
      PROVE  HeardInv'
  <2>1. uas' = uas /\ caller'.finals = caller.finals /\ pc'["Run"] = pc["Run"]
    BY <1>5, <1>t DEF ByeForwarded, Disconnects, HangUpStep, Cleans, Closes, GoTo, CallerType
  <2>2. HeardOnce'
    BY <1>t, <1>g, <2>1, HeardElsewhere DEF Calling
  <2>. QED
    BY <1>1, <2>2 DEF HeardInv
<1>6. CASE \/ UNCHANGED vars \/ CallerAcks \/ UasEnds
           \/ \E i \in Tx : LegsStep(i)
  <2>1. /\ UNCHANGED pc
        /\ caller'.finals = caller.finals /\ uas'.channel = uas.channel
        /\ uas'.state = uas.state \/ (uas.state = "completed" /\ uas'.state = "terminated")
    BY <1>6, <1>t DEF vars, CallerAcks, UasEnds, LegsStep, CalleeRings, CalleeAnswers,
       CalleeRejects, CalleeConfirmsCancel, CalleeByes, UacTimesOut, UacEnds, CallerType, UasType
  <2>2. HeardOnce'
    <3>1. Calling' <=> Calling
      BY <2>1 DEF Calling
    <3>. QED
      BY <1>t, <1>g, <2>1, <3>1, HeardElsewhere
  <2>. QED
    BY <1>1, <2>2 DEF HeardInv
<1>. QED
  BY <1>2, <1>3, <1>4, <1>5, <1>6 DEF Next, LegsStep

LEMMA HeardHolds == Safety => []HeardInv
BY HeardInit, HeardNext, PTL DEF Safety

-----------------------------------------------------------------------------
(***************************************************************************)
(* The refinement of BridgedCall.  A step of the B2BUA is a step of the    *)
(* call if it sends an INVITE or a CANCEL, if the callee decides, or if    *)
(* the caller's transaction sends a final response; the rest is nothing    *)
(* that either end could see.                                              *)
(***************************************************************************)

LEMMA BridgeStutters ==
  ASSUME \A i \in Tx : callee'[i].did = callee[i].did /\ callee'[i].cancelled = callee[i].cancelled,
         caller'.finals = caller.finals, misread' = misread, GaveUp' <=> GaveUp
  PROVE  UNCHANGED Bridge!vars
<1>1. [i \in Tx |-> PhoneOf(i)]' = [i \in Tx |-> PhoneOf(i)]
  BY DEF PhoneOf
<1>2. {i \in Tx : callee[i].cancelled}' = {i \in Tx : callee[i].cancelled}
  OBVIOUS
<1>3. (\E c \in Cancels : pc[c] /= "idle")' = (\E c \in Cancels : pc[c] /= "idle")
  BY DEF GaveUp
<1>. QED
  BY <1>1, <1>2, <1>3 DEF Bridge!vars

\* One phone is another one than before.
LEMMA PhoneChanges ==
  ASSUME NEW k \in Tx, NEW d, PhoneOf(k)' = d,
         \A i \in Tx \ {k} : callee'[i].did = callee[i].did
  PROVE  [i \in Tx |-> PhoneOf(i)]' = [[i \in Tx |-> PhoneOf(i)] EXCEPT ![k] = d]
BY DEF PhoneOf

\* What else there is besides the phones stays as it is.
LEMMA RestStays ==
  ASSUME caller'.finals = caller.finals, misread' = misread, GaveUp' <=> GaveUp,
         \A i \in Tx : callee'[i].cancelled = callee[i].cancelled
  PROVE  /\ {i \in Tx : callee[i].cancelled}' = {i \in Tx : callee[i].cancelled}
         /\ (\E c \in Cancels : pc[c] /= "idle")' = (\E c \in Cancels : pc[c] /= "idle")
BY DEF GaveUp

\* The next phone rings.
LEMMA BridgeRings ==
  ASSUME Typed, OneAtATime, NEW k \in Tx, k = cur + 1, Invite(k),
         cur \in Tx => callee[cur].did = "rejected",
         caller.finals \subseteq {Cancelled},
         caller'.finals = caller.finals, misread' = misread, GaveUp' <=> GaveUp
  PROVE  Bridge!Next
<1>t. uac \in [Tx -> UacType] /\ callee \in [Tx -> CalleeType] /\ cur \in Tx \cup {0}
      /\ \A i \in Tx : i \in Int
  BY TxNumbers DEF Typed, TypeOK, NoTx
<1>1. callee'[k].did = "invited" /\ \A i \in Tx \ {k} : callee'[i] = callee[i]
  BY <1>t, InviteIs
<1>2. \A i \in Tx : callee'[i].cancelled = callee[i].cancelled
  <2> DEFINE new == [callee[k] EXCEPT !.did = "invited"]
  <2>1. new.cancelled = callee[k].cancelled
    BY <1>t DEF CalleeType
  <2>2. callee' = [callee EXCEPT ![k] = new]
    BY DEF Invite
  <2>. QED
    BY <1>t, <2>1, <2>2
<1>3. /\ \A i \in Tx : i < k => callee[i].did = "rejected"
      /\ \A i \in Tx : i >= k => callee[i].did = "nothing"
  <2>1. \A i \in Tx : i < k => i < cur \/ i = cur
    BY <1>t
  <2>2. \A i \in Tx : i >= k => i > cur
    BY <1>t
  <2>. QED
    BY <2>1, <2>2 DEF OneAtATime
<1>4. \A i \in Tx : PhoneOf(i) = IF i < k THEN "refused" ELSE "none"
  <2> TAKE i \in Tx
  <2>1. i < k \/ i >= k
    BY <1>t
  <2>2. CASE i < k
    BY <1>3, <2>2 DEF PhoneOf
  <2>3. CASE i >= k
    BY <1>t, <1>3, <2>3 DEF PhoneOf
  <2>. QED
    BY <2>1, <2>2, <2>3
<1>5. PhoneOf(k)' = "ringing"
  BY <1>1 DEF PhoneOf
<1>6. [i \in Tx |-> PhoneOf(i)]' = [[i \in Tx |-> PhoneOf(i)] EXCEPT ![k] = "ringing"]
  BY <1>1, <1>5, PhoneChanges
<1>7. ~(k < k)
  BY <1>t
<1>8. Bridge!Ring(k)
  BY <1>2, <1>4, <1>6, <1>7, RestStays DEF Bridge!Ring
<1>. QED
  BY <1>8 DEF Bridge!Next

\* A phone is called off, by a Cancel or by Run when the caller's transaction is over.
LEMMA BridgeCallsOff ==
  ASSUME Typed, NEW k \in Tx, SendsCancel(k), callee[k].did /= "nothing", GaveUp,
         caller'.finals = caller.finals, misread' = misread, GaveUp' <=> GaveUp
  PROVE  Bridge!Next
<1>1. \A i \in Tx : /\ callee'[i].did = callee[i].did
                    /\ callee'[i].cancelled <=> callee[i].cancelled \/ i = k
  BY SendsCancelIs DEF Typed, TypeOK
<1>2. [i \in Tx |-> PhoneOf(i)]' = [i \in Tx |-> PhoneOf(i)]
  BY <1>1 DEF PhoneOf
<1>3. {i \in Tx : callee[i].cancelled}' = {i \in Tx : callee[i].cancelled} \cup {k}
  BY <1>1
<1>4. PhoneOf(k) /= "none"
  BY DEF PhoneOf
<1>5. (\E c \in Cancels : pc[c] /= "idle")' = (\E c \in Cancels : pc[c] /= "idle")
  BY DEF GaveUp
<1>6. Bridge!CallOff(k)
  BY <1>2, <1>3, <1>4, <1>5 DEF Bridge!CallOff, GaveUp
<1>. QED
  BY <1>6 DEF Bridge!Next

\* What the callee and its transactions do.
LEMMA BridgeLegs ==
  ASSUME Typed, NEW k \in Tx, LegsStep(k)
  PROVE  Bridge!Next \/ UNCHANGED Bridge!vars
<1>t. callee \in [Tx -> CalleeType]
  BY DEF Typed, TypeOK
<1>u. UNCHANGED <<pc, caller>>
  BY DEF LegsStep, CalleeRings, CalleeAnswers, CalleeRejects, CalleeConfirmsCancel, CalleeByes,
         UacTimesOut, UacEnds
<1>g. caller'.finals = caller.finals /\ (GaveUp' <=> GaveUp)
  BY <1>u DEF GaveUp
<1>d. ASSUME NEW d \in {"answered", "rejected", "hungup", "refused"},
             callee' = [callee EXCEPT ![k].did = d], misread' = misread
      PROVE  /\ callee[k].did = "invited" /\ d \in {"answered", "rejected"} => Bridge!Next
             /\ PickedUp(k) /\ d /= "rejected" => UNCHANGED Bridge!vars
  <2>1. /\ callee'[k].did = d
        /\ \A i \in Tx : callee'[i].cancelled = callee[i].cancelled
        /\ \A i \in Tx \ {k} : callee'[i].did = callee[i].did
    BY <1>d, <1>t, DidIs
  <2>2. ASSUME callee[k].did = "invited", d \in {"answered", "rejected"} PROVE Bridge!Next
    <3>1. PhoneOf(k) = "ringing" /\ PhoneOf(k)' \in {"pickedUp", "refused"}
      BY <2>1, <2>2 DEF PhoneOf
    <3>2. [i \in Tx |-> PhoneOf(i)]' = [[i \in Tx |-> PhoneOf(i)] EXCEPT ![k] = PhoneOf(k)']
      BY <2>1, PhoneChanges
    <3>3. Bridge!Decides(k)
      BY <1>d, <1>g, <2>1, <3>1, <3>2, RestStays DEF Bridge!Decides
    <3>. QED
      BY <3>3 DEF Bridge!Next
  <2>3. ASSUME PickedUp(k), d /= "rejected" PROVE UNCHANGED Bridge!vars
    <3>1. PhoneOf(k)' = PhoneOf(k)
      BY <2>1, <2>3 DEF PhoneOf, PickedUp
    <3>2. [i \in Tx |-> PhoneOf(i)]' = [i \in Tx |-> PhoneOf(i)]
      BY <2>1, <3>1 DEF PhoneOf
    <3>. QED
      BY <1>d, <1>g, <2>1, <3>2, RestStays DEF Bridge!vars
  <2>. QED
    BY <2>2, <2>3
<1>1. CASE CalleeRings(k) \/ UacTimesOut(k) \/ UacEnds(k)
  <2>1. callee' = callee /\ misread' = misread
    BY <1>1 DEF CalleeRings, UacTimesOut, UacEnds, cancelVars
  <2>. QED
    BY <1>g, <2>1, BridgeStutters
<1>2. CASE CalleeAnswers(k)
  <2>1. /\ callee' = [callee EXCEPT ![k].did = "answered"] /\ misread' = misread
        /\ callee[k].did \in {"invited", "answered"}
    BY <1>2 DEF CalleeAnswers, cancelVars
  <2>. QED
    BY <1>d, <2>1 DEF PickedUp
<1>3. CASE CalleeRejects(k)
  <2>1. /\ callee' = [callee EXCEPT ![k].did = "rejected"] /\ misread' = misread
        /\ callee[k].did = "invited"
    BY <1>3 DEF CalleeRejects, cancelVars
  <2>. QED
    BY <1>d, <2>1
<1>4. CASE CalleeByes(k)
  <2>1. PICK d \in {"hungup", "refused"} : callee' = [callee EXCEPT ![k].did = d]
    BY <1>4 DEF CalleeByes
  <2>2. misread' = misread /\ PickedUp(k)
    BY <1>4 DEF CalleeByes, cancelVars, PickedUp
  <2>. QED
    BY <1>d, <2>1, <2>2
<1>5. CASE CalleeConfirmsCancel(k)
  <2>1. callee[k].cancelled /\ callee' = callee /\ misread' \in {misread, TRUE}
    BY <1>5 DEF CalleeConfirmsCancel, Typed, TypeOK
  <2>2. CASE misread' = misread
    BY <1>g, <2>1, <2>2, BridgeStutters
  <2>3. CASE misread' = TRUE
    <3>1. [i \in Tx |-> PhoneOf(i)]' = [i \in Tx |-> PhoneOf(i)]
      BY <2>1 DEF PhoneOf
    <3>2. {i \in Tx : callee[i].cancelled}' = {i \in Tx : callee[i].cancelled}
      BY <2>1
    <3>3. (\E c \in Cancels : pc[c] /= "idle")' = (\E c \in Cancels : pc[c] /= "idle")
      BY <1>u
    <3>4. Bridge!Mistake(k)
      BY <1>g, <2>1, <2>3, <3>1, <3>2, <3>3 DEF Bridge!Mistake
    <3>. QED
      BY <3>4 DEF Bridge!Next
  <2>. QED
    BY <2>1, <2>2, <2>3
<1>. QED
  BY <1>1, <1>2, <1>3, <1>4, <1>5 DEF LegsStep

\* The caller's transaction sends what is in its channel.
LEMMA BridgeHears == ASSUME HeardInv, UasSends PROVE Bridge!Next \/ UNCHANGED Bridge!vars
<1>t. uas \in UasType /\ caller \in CallerType /\ HeardOnce /\ AnswerIsEarned
  BY DEF HeardInv, LegInv, Typed, TypeOK
<1>u. /\ callee' = callee /\ misread' = misread /\ (GaveUp' <=> GaveUp)
  BY DEF UasSends, cancelVars, GaveUp
<1>1. PICK r \in Response :
        /\ uas.channel = <<r>>
        /\ \/ uas'.state = uas.state /\ caller' = caller
           \/ caller'.finals = caller.finals \cup ({r} \cap Final)
  BY <1>t, UasSendsIs
<1>2. CASE caller'.finals = caller.finals
  BY <1>u, <1>2, BridgeStutters
<1>3. CASE caller'.finals /= caller.finals
  <2>1. caller'.finals = caller.finals \cup ({r} \cap Final)
    BY <1>1, <1>3
  <2>2. r \in Final /\ caller'.finals = caller.finals \cup {r}
    BY <1>3, <2>1
  <2>3. uas.state /= "terminated"
    BY <1>3 DEF UasSends, UasDone
  <2>4. Answer \notin caller.finals
    BY <1>t, <2>3 DEF HeardOnce
  <2>5. IF r = Cancelled THEN GaveUp ELSE caller.finals \subseteq {Cancelled}
    <3>1. CASE r = Cancelled
      BY <1>1, <1>t, <3>1 DEF HeardOnce
    <3>2. CASE r /= Cancelled
      <4>1. r /= Ringing
        BY <2>2 DEF Ringing, Final, Answer, Reject, Interval, Timeout, Failure, Cancelled
      <4>2. uas.channel \notin OfCancel
        BY <1>1, <3>2, <4>1 DEF OfCancel
      <4>. QED
        BY <1>t, <3>2, <4>2 DEF HeardOnce
    <3>. QED
      BY <3>1, <3>2
  <2>6. r = Answer => misread \/ \E i \in Tx : PhoneOf(i) = "pickedUp"
    BY <1>1, <1>t DEF AnswerIsEarned, Connected, PickedUp, PhoneOf
  <2>7. [i \in Tx |-> PhoneOf(i)]' = [i \in Tx |-> PhoneOf(i)]
    BY <1>u DEF PhoneOf
  <2>8. /\ {i \in Tx : callee[i].cancelled}' = {i \in Tx : callee[i].cancelled}
        /\ (\E c \in Cancels : pc[c] /= "idle")' = (\E c \in Cancels : pc[c] /= "idle")
    BY <1>u DEF GaveUp
  <2>9. Bridge!Hear(r)
    BY <1>u, <2>2, <2>4, <2>5, <2>6, <2>7, <2>8 DEF Bridge!Hear, GaveUp
  <2>. QED
    BY <2>2, <2>9 DEF Bridge!Next
<1>. QED
  BY <1>2, <1>3

LEMMA BridgeCancels ==
  ASSUME HeardInv, NEW c \in Cancels, CancelStarts(c) \/ CancelStep(c)
  PROVE  Bridge!Next \/ UNCHANGED Bridge!vars
<1>t. /\ Typed /\ TypeOK /\ InHand /\ OneAtATime
      /\ c \in DOMAIN pc /\ caller' = caller
  BY GoroutineNames DEF HeardInv, LegInv, Typed, TypeOK, CancelStarts, CancelStep, CancelsLeg,
     CancelsNothing, TerminatesLeg, CancelResponds, Cleans, Closes
<1>1. CASE CancelStarts(c)
  <2>1. /\ callee' = callee /\ misread' = misread /\ pc'[c] = "cancel"
    BY <1>1, <1>t DEF CancelStarts, GoTo, cancelVars
  <2>2. (\E d \in Cancels : pc[d] /= "idle")' = TRUE
    BY <2>1
  <2>3. [i \in Tx |-> PhoneOf(i)]' = [i \in Tx |-> PhoneOf(i)]
    BY <2>1 DEF PhoneOf
  <2>4. {i \in Tx : callee[i].cancelled}' = {i \in Tx : callee[i].cancelled}
    BY <2>1
  <2>5. Bridge!GiveUp
    BY <1>t, <2>1, <2>2, <2>3, <2>4 DEF Bridge!GiveUp
  <2>. QED
    BY <2>5 DEF Bridge!Next
<1>2. CASE CancelStep(c)
  <2>1. pc[c] /= "idle" /\ pc'[c] /= "idle"
    BY <1>2, <1>t DEF CancelStep, CancelsLeg, CancelsNothing, TerminatesLeg, CancelResponds,
                      Cleans, Closes, GoTo
  <2>2. GaveUp /\ GaveUp'
    BY <2>1 DEF GaveUp
  <2>3. misread' = misread
    BY <1>2 DEF CancelStep, CancelsLeg, CancelsNothing, TerminatesLeg, CancelResponds, Cleans,
                Closes, cancelVars
  <2>4. CASE CancelsLeg(c)
    <3>1. virtualUACTx \in Tx /\ SendsCancel(virtualUACTx)
      BY <2>4, <1>t DEF CancelsLeg, TypeOK, NoTx
    <3>2. callee[virtualUACTx].did /= "nothing"
      <4>1. virtualUACTx \in Int /\ cur \in Int /\ virtualUACTx <= cur
        BY <1>t, <3>1, TxNumbers DEF OneAtATime, TypeOK, NoTx
      <4>2. ~(virtualUACTx > cur)
        BY <4>1
      <4>. QED
        BY <1>t, <3>1, <4>2 DEF OneAtATime
    <3>. QED
      BY <1>t, <2>2, <2>3, <3>1, <3>2, BridgeCallsOff
  <2>5. CASE ~CancelsLeg(c)
    <3>1. callee' = callee
      BY <1>2, <2>5 DEF CancelStep, CancelsNothing, TerminatesLeg, CancelResponds, Cleans, Closes
    <3>. QED
      BY <1>t, <2>2, <2>3, <3>1, BridgeStutters
  <2>. QED
    BY <2>4, <2>5
<1>. QED
  BY <1>1, <1>2

LEMMA BridgeRun ==
  ASSUME HeardInv, RunStep \/ MediateTimesOut
  PROVE  Bridge!Next \/ UNCHANGED Bridge!vars
<1>t. /\ Typed /\ TypeOK /\ InHand /\ OneAtATime /\ RunKnows /\ HeardOnce
      /\ "Run" \in DOMAIN pc
  BY GoroutineNames DEF HeardInv, LegInv, Typed, TypeOK
<1>u. caller' = caller /\ misread' = misread
  BY DEF RunStep, RunRefuses, RunInvites, RunPublishes, MediateReads, MediateRetries, MediateRelays,
         MediateEstablishes, MediateWaits, MediateSeesDone, MediateAbandons, RunExits,
         MediateTimesOut, cancelVars
<1>g. GaveUp' <=> GaveUp
  <2>1. \A c \in Cancels : pc'[c] = pc[c]
    BY <1>t, GoroutineNames DEF TypeOK, GoTo,
         RunStep, RunRefuses, RunInvites, RunPublishes, MediateReads, MediateRetries, MediateRelays,
         MediateEstablishes, MediateWaits, MediateSeesDone, MediateAbandons, RunExits,
         MediateTimesOut
  <2>. QED
    BY <2>1 DEF GaveUp
<1>1. CASE RunInvites
  <2>1. /\ cur = 0 /\ 1 \in Tx /\ 1 = cur + 1 /\ cur \notin Tx /\ Invite(1)
        /\ caller.finals \subseteq {Cancelled}
    BY <1>1, <1>t, TxNumbers DEF RunInvites, OneAtATime, HeardOnce, Calling, NoTx
  <2>. QED
    BY <1>t, <1>u, <1>g, <2>1, BridgeRings
<1>2. CASE MediateRetries
  <2>1. /\ cur \in Tx /\ callee[cur].did = "rejected" /\ caller.finals \subseteq {Cancelled}
    BY <1>2, <1>t DEF MediateRetries, InHand, RunKnows, HeardOnce, Calling
  <2>2. CASE cur < MaxTx /\ Invite(cur + 1)
    <3>1. cur + 1 \in Tx
      BY <2>1, <2>2, TxNumbers
    <3>. QED
      BY <1>t, <1>u, <1>g, <2>1, <2>2, <3>1, BridgeRings
  <2>3. CASE callee' = callee
    BY <1>u, <1>g, <2>3, BridgeStutters
  <2>. QED
    BY <1>2, <2>2, <2>3 DEF MediateRetries
<1>3. CASE MediateSeesDone
  <2>1. /\ cur \in Tx /\ GaveUp
    BY <1>3, <1>t DEF MediateSeesDone, UasDone, InHand, HeardOnce, Calling
  <2>2. callee[cur].did /= "nothing"
    <3>1. ~(cur > cur)
      BY <2>1, TxNumbers
    <3>. QED
      BY <1>t, <2>1, <3>1 DEF OneAtATime
  <2>3. CASE SendsCancel(cur)
    BY <1>t, <1>u, <1>g, <2>1, <2>2, <2>3, BridgeCallsOff
  <2>4. CASE callee' = callee
    BY <1>u, <1>g, <2>4, BridgeStutters
  <2>. QED
    BY <1>3, <2>3, <2>4 DEF MediateSeesDone
<1>4. CASE ~RunInvites /\ ~MediateRetries /\ ~MediateSeesDone
  <2>1. callee' = callee
    BY <1>4 DEF RunStep, RunRefuses, RunPublishes, MediateReads, MediateRelays,
         MediateEstablishes, MediateWaits, MediateAbandons, RunExits, MediateTimesOut
  <2>. QED
    BY <1>u, <1>g, <2>1, BridgeStutters
<1>. QED
  BY <1>1, <1>2, <1>3, <1>4

LEMMA BridgeInit == Init => Bridge!Init
<1> SUFFICES ASSUME Init PROVE Bridge!Init
  OBVIOUS
<1>1. /\ \A i \in Tx : callee[i].did = "nothing" /\ ~callee[i].cancelled
      /\ \A c \in Cancels : pc[c] = "idle"
      /\ caller.finals = {} /\ misread = FALSE
  BY GoroutineNames DEF Init
<1>2. [i \in Tx |-> PhoneOf(i)] = [i \in Tx |-> "none"]
  BY <1>1 DEF PhoneOf
<1>3. {i \in Tx : callee[i].cancelled} = {}
  BY <1>1
<1>. QED
  BY <1>1, <1>2, <1>3 DEF Bridge!Init

LEMMA BridgeNext == HeardInv /\ [Next]_vars => [Bridge!Next]_(Bridge!vars)
<1> SUFFICES ASSUME HeardInv, [Next]_vars PROVE Bridge!Next \/ UNCHANGED Bridge!vars
  OBVIOUS
<1>t. /\ Typed /\ callee \in [Tx -> CalleeType] /\ caller \in CallerType
      /\ \A h \in HangUps : h \in DOMAIN pc /\ h \notin Cancels
      /\ \A c \in Cancels : c \in DOMAIN pc
  BY GoroutineNames, B2BUAAssumption DEF HeardInv, LegInv, Typed, TypeOK
<1>1. CASE UNCHANGED vars
  <2>1. GaveUp' <=> GaveUp
    BY <1>1 DEF vars, GaveUp
  <2>. QED
    BY <1>1, <2>1, BridgeStutters DEF vars
<1>2. CASE RunStep \/ MediateTimesOut
  BY <1>2, BridgeRun
<1>3. ASSUME NEW c \in Cancels, CancelStarts(c) \/ CancelStep(c)
      PROVE  Bridge!Next \/ UNCHANGED Bridge!vars
  BY <1>3, BridgeCancels
<1>4. CASE UasSends
  BY <1>4, BridgeHears
<1>5. ASSUME NEW h \in HangUps, ByeForwarded(h) \/ Disconnects(h) \/ HangUpStep(h)
      PROVE  UNCHANGED Bridge!vars
  <2>1. Aside
    BY <1>5, <1>t, AsideSteps DEF HangUpStep
  <2>2. caller'.finals = caller.finals
    BY <1>5, <1>t DEF ByeForwarded, Disconnects, HangUpStep, Cleans, Closes, CallerType
  <2>3. PICK l : pc' = [pc EXCEPT ![h] = l]
    BY <1>5 DEF ByeForwarded, Disconnects, HangUpStep, Cleans, Closes, GoTo
  <2>4. GaveUp' <=> GaveUp
    BY <1>t, <2>3 DEF GaveUp
  <2>. QED
    BY <2>1, <2>2, <2>4, BridgeStutters DEF Aside
<1>6. CASE CallerAcks \/ UasEnds
  <2>1. Aside
    BY <1>6, <1>t, AsideSteps
  <2>2. caller'.finals = caller.finals /\ pc' = pc
    BY <1>6, <1>t DEF CallerAcks, UasEnds, CallerType
  <2>3. GaveUp' <=> GaveUp
    BY <2>2 DEF GaveUp
  <2>. QED
    BY <2>1, <2>2, <2>3, BridgeStutters DEF Aside
<1>7. ASSUME NEW i \in Tx, LegsStep(i) PROVE Bridge!Next \/ UNCHANGED Bridge!vars
  BY <1>7, <1>t, BridgeLegs
<1>. QED
  BY <1>1, <1>2, <1>3, <1>4, <1>5, <1>6, <1>7 DEF Next, LegsStep

\* The two ends of a call see what BridgedCall promises, for any number of CANCELs, hang-ups
\* and retries: one phone at a time and none after the caller has its final response, and
\* one final response besides the 487 of a caller that gave up, a 200 last.
THEOREM ImplementsCall == Safety => BridgesCall
BY HeardHolds, BridgeInit, BridgeNext, PTL DEF Safety, BridgesCall, Bridge!Safety
=============================================================================
