------------------------ MODULE InviteClientTxProofs ------------------------
(***************************************************************************)
(* What TLC checks of InviteClientTx on small instances, proved for every  *)
(* set of dispatchers and responses and every number of retransmissions,   *)
(* on every transport, whether writes may fail or not.                     *)
(***************************************************************************)
EXTENDS InviteClientTxProps, TLAPS

\* The goroutines are different goroutines, and none is the absent one.
LEMMA GoroutineNames ==
  /\ Run \in Goroutine /\ TU \in Goroutine /\ Canceller \in Goroutine
  /\ TimerA \in Goroutine /\ TimerB \in Goroutine /\ TimerD \in Goroutine
  /\ Timer = {TimerA, TimerB, TimerD} /\ None \notin Goroutine
  /\ Run \notin {TU, Canceller, TimerA, TimerB, TimerD}
  /\ TU \notin {Canceller, TimerA, TimerB, TimerD}
  /\ Canceller \notin {TimerA, TimerB, TimerD}
  /\ TimerA \notin {TimerB, TimerD} /\ TimerB /= TimerD
  /\ \A d \in Dispatchers :
       /\ Dispatch(d) \in Goroutine
       /\ Dispatch(d) \notin {Run, TU, Canceller, TimerA, TimerB, TimerD}
       /\ \A e \in Dispatchers : Dispatch(e) = Dispatch(d) => e = d
  /\ \A g \in Goroutine : \/ g \in {Run, TU, Canceller, TimerA, TimerB, TimerD}
                          \/ \E d \in Dispatchers : g = Dispatch(d)
BY InviteClientTxAssumption
   DEF Goroutine, Run, TU, Canceller, TimerA, TimerB, TimerD, Timer, Dispatch

\* Where a call of Terminate returns to.
LEMMA AfterIs ==
  /\ After(Run) = "startB" /\ After(TU) = "ended" /\ After(Canceller) = "ended"
  /\ After(TimerA) = "idle" /\ After(TimerB) = "idle" /\ After(TimerD) = "idle"
  /\ \A d \in Dispatchers : After(Dispatch(d)) = "idle"
  /\ \A g : After(g) \in {"startB", "ended", "idle"}
BY GoroutineNames DEF After

\* What a response is, and is not.
LEMMA ResponseKinds ==
  /\ Received \subseteq Response /\ Prov \subseteq Received
  /\ Ok \subseteq Final /\ Fail \subseteq Final /\ Final \subseteq Response
  /\ Ok \subseteq Received /\ Fail \subseteq Received
  /\ Ok \cap Fail = {} /\ Prov \cap Fail = {} /\ Prov \cap Ok = {}
  /\ Timeout \in Final /\ Unavailable \in Final
  /\ None \notin Response
BY InviteClientTxAssumption DEF Response, Received, Final

-----------------------------------------------------------------------------
(***************************************************************************)
(* The inductive invariant.  The types alone are not inductive: the bound  *)
(* on the INVITEs sent needs that timer A runs after the first one only.   *)
(***************************************************************************)

\* Where each goroutine can be.
Places ==
  /\ pc[Run] \in {"send", "push503", "terminate", "close", "startB", "startA", "wait", "ended"}
  /\ pc[TU] \in {"read", "terminate", "close", "ended"}
  /\ pc[Canceller] \in {"idle", "terminate", "close", "ended"}
  /\ pc[TimerA] \in {"idle", "resend", "push503", "wedged"}
  /\ pc[TimerB] \in {"idle", "push408", "terminate", "close"}
  /\ pc[TimerD] \in {"idle", "terminate", "close"}
  /\ \A d \in Dispatchers : pc[Dispatch(d)] \in {"idle", "terminate", "close", "wedged"}

\* Timer A runs, and its callback is under way, only after run has started it; until
\* then the INVITE has left once at most, and not at all where its write has failed.
InvitesInOrder ==
  /\ pc[Run] \notin {"wait", "ended"} => TimerA \notin armed /\ pc[TimerA] = "idle"
  /\ pc[Run] \in {"send", "push503", "terminate", "close"} => invites = 0
  /\ pc[TimerA] = "resend" => invites <= MaxResend
  /\ lastResponse /= None => invites > 0 /\ state /= "Calling"

\* Whoever closes Done() has terminated the transaction.
ClosedWhenTerminated == done \/ (\E g \in Goroutine : pc[g] = "close") => state = "Terminated"

\* The TU has, or will read next, a final response.
FinalSeen == pc[TU] /= "read" \/ (responses /= <<>> /\ responses[1] \in Final)

\* Run and timer B terminate the transaction after a final response of their own, timer D
\* after timer B has expired, or after a rejection that the TU has or that was lost, and a
\* dispatcher after a 2xx or, on TCP, such a rejection.
EndedForAReason ==
  /\ pc[Run] = "terminate" => FinalSeen
  /\ pc[TimerB] = "terminate" => FinalSeen
  /\ TimerD \in armed => state = "Completed" /\ lastResponse /= None
  /\ TimerD \in armed /\ ~early => pc[Run] \in {"startA", "wait", "ended"}
  /\ pc[TimerD] /= "idle" =>
       early \/ (TimerB \notin armed /\ pc[Run] \in {"startA", "wait", "ended"})
  /\ pc[TimerD] /= "idle" \/ lost => state \in {"Completed", "Terminated"}
  /\ state = "Completed" => FinalSeen \/ lost
  /\ \A d \in Dispatchers : pc[Dispatch(d)] = "terminate" =>
       state = "Terminated" \/ (reliable /\ state = "Completed")

IInv == TypeOK /\ Places /\ InvitesInOrder /\ DoneClosedOnce /\ ClosedWhenTerminated
          /\ EndedForAReason /\ OutcomeIsComing /\ RejectionAcked

LEMMA IInit == Init => IInv
<1> SUFFICES ASSUME Init PROVE IInv
  OBVIOUS
<1> USE GoroutineNames, InviteClientTxAssumption
<1>1. pc \in [Goroutine -> {"send", "read", "idle"}]
  BY DEF Init
<1>2. pc[Run] = "send" /\ pc[TU] = "read"
  BY DEF Init
<1>3. \A g \in Goroutine : g \notin {Run, TU} => pc[g] = "idle"
  BY DEF Init
<1>4. TypeOK
  <2>1. pc \in [Goroutine -> {"send", "push503", "push408", "startB", "startA", "wait", "read",
                             "idle", "resend", "terminate", "close", "wedged", "ended"}]
    BY <1>1
  <2>2. invites \in 0 .. MaxResend + 1
    BY DEF Init
  <2>3. /\ reliable \in BOOLEAN /\ state \in State /\ mu \in Goroutine \cup {None}
        /\ lastResponse \in Received \cup {None} /\ done \in BOOLEAN
    BY DEF Init, State
  <2>4. /\ responses = <<>> /\ armed \subseteq Timer
        /\ acked \subseteq Fail /\ answer \in Final \cup {None}
        /\ early \in BOOLEAN /\ lost \in BOOLEAN
    BY DEF Init
  <2>. QED
    BY <2>1, <2>2, <2>3, <2>4 DEF TypeOK
<1>. QED
  BY <1>2, <1>3, <1>4 DEF Init, IInv, Places, InvitesInOrder, DoneClosedOnce, ClosedWhenTerminated,
     EndedForAReason, OutcomeIsComing, RejectionAcked

-----------------------------------------------------------------------------
(* Each action keeps it. *)

LEMMA IRun == IInv /\ RunStep => IInv'
<1> SUFFICES ASSUME IInv, RunStep PROVE IInv'
  OBVIOUS
<1> USE GoroutineNames, ResponseKinds, InviteClientTxAssumption
        DEF IInv, TypeOK, Places, InvitesInOrder, DoneClosedOnce, ClosedWhenTerminated,
            EndedForAReason, FinalSeen, RejectionLost, OutcomeIsComing, RejectionAcked, rejection
<1>1. CASE RunSends
  BY <1>1 DEF RunSends, GoTo
<1>2. CASE RunStartsB
  BY <1>2 DEF RunStartsB, GoTo
<1>3. CASE RunStartsA
  BY <1>3 DEF RunStartsA, GoTo
<1>4. CASE RunEnds
  BY <1>4 DEF RunEnds, GoTo
<1>. QED
  BY <1>1, <1>2, <1>3, <1>4 DEF RunStep

LEMMA IPush == IInv /\ (PushUnavailable \/ PushTimeout) => IInv'
<1> SUFFICES ASSUME IInv, PushUnavailable \/ PushTimeout PROVE IInv'
  OBVIOUS
<1> USE GoroutineNames, ResponseKinds, InviteClientTxAssumption
        DEF IInv, TypeOK, Places, InvitesInOrder, DoneClosedOnce, ClosedWhenTerminated,
            EndedForAReason, FinalSeen, RejectionLost, OutcomeIsComing, RejectionAcked, rejection
<1>1. CASE Push(Run, "push503", Unavailable, "terminate")
  BY <1>1 DEF Push, GoTo
<1>2. CASE Push(TimerA, "push503", Unavailable, "wedged")
  BY <1>2 DEF Push, GoTo
<1>3. CASE Push(TimerB, "push408", Timeout, "terminate")
  BY <1>3 DEF Push, GoTo
<1>. QED
  BY <1>1, <1>2, <1>3 DEF PushUnavailable, PushTimeout

LEMMA ITimers == IInv /\ ((\E t \in Timer : Fire(t)) \/ ResendInvite) => IInv'
<1> SUFFICES ASSUME IInv, (\E t \in Timer : Fire(t)) \/ ResendInvite PROVE IInv'
  OBVIOUS
<1> USE GoroutineNames, ResponseKinds, InviteClientTxAssumption
        DEF IInv, TypeOK, Places, InvitesInOrder, DoneClosedOnce, ClosedWhenTerminated,
            EndedForAReason, FinalSeen, RejectionLost, OutcomeIsComing, RejectionAcked, rejection
<1>1. CASE Fire(TimerA)
  BY <1>1 DEF Fire, GoTo
<1>2. CASE Fire(TimerB)
  BY <1>2 DEF Fire, GoTo
<1>3. CASE Fire(TimerD)
  BY <1>3 DEF Fire, GoTo
<1>4. CASE ResendInvite
  BY <1>4 DEF ResendInvite, GoTo
<1>. QED
  BY <1>1, <1>2, <1>3, <1>4

LEMMA IReceive ==
  ASSUME IInv, NEW d \in Dispatchers, NEW r \in Received, ReceiveResponse(d, r)
  PROVE  IInv'
<1> USE GoroutineNames, ResponseKinds, InviteClientTxAssumption
        DEF IInv, TypeOK, Places, InvitesInOrder, DoneClosedOnce, ClosedWhenTerminated,
            EndedForAReason, FinalSeen, RejectionLost, OutcomeIsComing, RejectionAcked, rejection,
            Receives
<1>1. CASE ReceiveLate(d, r)
  BY <1>1 DEF ReceiveLate
<1>2. CASE ReceiveProv(d, r)
  BY <1>2 DEF ReceiveProv, Deliver, State
<1>3. CASE ReceiveOk(d, r)
  BY <1>3 DEF ReceiveOk, Deliver, GoTo, State
<1>4. CASE ReceiveFail(d, r)
  <2>1. /\ r \in Fail /\ lastResponse' = r /\ state \in {"Calling", "Proceeding"}
        /\ state' = "Completed" /\ ~done /\ (\A g \in Goroutine : pc[g] /= "close")
        /\ UNCHANGED <<done, invites, answer, reliable>>
    BY <1>4 DEF ReceiveFail, State
  <2>2. /\ responses' \in {<<>>} \cup {<<q>> : q \in Response}
        /\ lost' \in BOOLEAN /\ (~lost' => responses' = <<r>>)
        /\ responses /= <<>> => responses' = responses
    <3>1. r \in Response /\ responses' = IF responses = <<>> THEN <<r>> ELSE responses
      BY <1>4 DEF ReceiveFail, Deliver
    <3>2. lost' \in BOOLEAN /\ (~lost' => responses = <<>>)
      BY <1>4 DEF ReceiveFail
    <3>. QED
      BY <3>1, <3>2
  <2>3. /\ invites > 0 /\ mu = None
        /\ pc[Run] \in {"startB", "startA", "wait", "ended"}
        /\ TimerD \notin armed /\ pc[TimerD] = "idle" /\ ~lost
    <3>1. invites > 0 /\ mu = None
      BY <1>4 DEF ReceiveFail
    <3>2. state \notin {"Completed", "Terminated"}
      BY <2>1
    <3>. QED
      BY <3>1, <3>2
  <2>. DEFINE Acks == SendAck(d, r) /\ IF reliable
                 THEN GoTo(Dispatch(d), "terminate") /\ UNCHANGED <<armed, early>>
                 ELSE StartD /\ UNCHANGED pc
  <2>4. CASE Acks /\ reliable
    <3>1. /\ acked' = acked \cup {r} /\ mu' = mu /\ armed' = armed /\ early' = early
          /\ pc' = [pc EXCEPT ![Dispatch(d)] = "terminate"]
      BY <2>4 DEF SendAck, GoTo
    <3>. QED
      BY <2>1, <2>2, <2>3, <2>4, <3>1 DEF State
  <2>5. CASE Acks /\ ~reliable
    <3>1. /\ acked' = acked \cup {r} /\ mu' = mu /\ pc' = pc
          /\ armed' = armed \cup {TimerD}
          /\ early' \in BOOLEAN /\ (~early' => pc[Run] /= "startB")
      BY <2>5 DEF StartD, SendAck
    <3>2. TypeOK'
      BY <2>1, <2>2, <2>5, <3>1 DEF State
    <3>3. Places' /\ InvitesInOrder'
      BY <2>1, <2>3, <3>1
    <3>4. DoneClosedOnce' /\ ClosedWhenTerminated' /\ RejectionAcked'
      BY <2>1, <3>1
    <3>5. EndedForAReason'
      <4>1. FinalSeen => FinalSeen'
        BY <2>2, <3>1
      <4>2. FinalSeen' \/ lost'
        BY <2>1, <2>2, <3>1
      <4>3. \A e \in Dispatchers : pc[Dispatch(e)] /= "terminate"
        BY <2>1
      <4>4. /\ pc[Run] = "terminate" => FinalSeen
            /\ pc[TimerB] = "terminate" => FinalSeen
        OBVIOUS
      <4>. QED
        BY <2>1, <2>3, <3>1, <4>1, <4>2, <4>3, <4>4
    <3>6. OutcomeIsComing'
      BY <2>1, <2>2, <2>3, <3>1
    <3>. QED
      BY <3>2, <3>3, <3>4, <3>5, <3>6
  <2>6. CASE AckFails(d) /\ UNCHANGED early
    <3>1. /\ mu' = Dispatch(d) /\ UNCHANGED <<acked, armed, early>>
          /\ pc' = [pc EXCEPT ![Dispatch(d)] = "wedged"]
      BY <2>6 DEF AckFails, GoTo
    <3>. QED
      BY <2>1, <2>2, <2>3, <3>1 DEF State
  <2>. QED
    BY <1>4, <2>4, <2>5, <2>6 DEF ReceiveFail
<1>5. CASE ReceiveFailAgain(d, r)
  BY <1>5 DEF ReceiveFailAgain, SendAck, AckFails, GoTo
<1>. QED
  BY <1>1, <1>2, <1>3, <1>4, <1>5 DEF ReceiveResponse

LEMMA IUsers == IInv /\ (TUReads \/ Abandon(TU) \/ Abandon(Canceller)) => IInv'
<1> SUFFICES ASSUME IInv, TUReads \/ Abandon(TU) \/ Abandon(Canceller) PROVE IInv'
  OBVIOUS
<1> USE GoroutineNames, ResponseKinds, InviteClientTxAssumption
        DEF IInv, TypeOK, Places, InvitesInOrder, DoneClosedOnce, ClosedWhenTerminated,
            EndedForAReason, FinalSeen, RejectionLost, OutcomeIsComing, RejectionAcked, rejection
<1>1. CASE TUReads
  <2>1. /\ pc[TU] = "read" /\ responses /= <<>> /\ responses' = <<>>
        /\ UNCHANGED <<state, mu, lastResponse, done, armed, invites, acked, reliable,
                       early, lost>>
    <3>1. PICK q \in Response : responses = <<q>>
      BY <1>1 DEF TUReads
    <3>2. Tail(responses) = <<>>
      BY <3>1
    <3>. QED
      BY <1>1, <3>2 DEF TUReads
  <2>2. \/ /\ responses[1] \in Final /\ answer' = responses[1]
           /\ pc' = [pc EXCEPT ![TU] = "ended"]
        \/ responses[1] \notin Final /\ UNCHANGED <<answer, pc>>
    BY <1>1 DEF TUReads, GoTo
  <2>3. TypeOK' /\ Places' /\ InvitesInOrder'
    BY <2>1, <2>2
  <2>4. DoneClosedOnce' /\ ClosedWhenTerminated' /\ RejectionAcked'
    BY <2>1, <2>2
  <2>5. FinalSeen => FinalSeen'
    BY <2>1, <2>2
  <2>6. EndedForAReason' /\ OutcomeIsComing'
    BY <2>1, <2>2, <2>5
  <2>. QED
    BY <2>3, <2>4, <2>6
<1>2. CASE Abandon(TU)
  BY <1>2 DEF Abandon, GoTo
<1>3. CASE Abandon(Canceller)
  BY <1>3 DEF Abandon, GoTo
<1>. QED
  BY <1>1, <1>2, <1>3

LEMMA ITerminate ==
  ASSUME IInv, NEW g \in Goroutine, Terminate(g) \/ CloseDone(g)
  PROVE  IInv'
<1> USE GoroutineNames, AfterIs, ResponseKinds, InviteClientTxAssumption
        DEF IInv, TypeOK, Places, InvitesInOrder, DoneClosedOnce, ClosedWhenTerminated,
            EndedForAReason, FinalSeen, RejectionLost, OutcomeIsComing, RejectionAcked, rejection
<1>1. CASE Terminate(g) /\ state = "Terminated"
  BY <1>1 DEF Terminate, GoTo
<1>2. CASE Terminate(g) /\ state /= "Terminated"
  BY <1>2 DEF Terminate, GoTo, State
<1>3. CASE CloseDone(g)
  BY <1>3 DEF CloseDone, GoTo
<1>. QED
  BY <1>1, <1>2, <1>3

LEMMA INext == IInv /\ [Next]_vars => IInv'
<1> SUFFICES ASSUME IInv, [Next]_vars PROVE IInv'
  OBVIOUS
<1>1. CASE UNCHANGED vars
  BY <1>1 DEF vars, IInv, TypeOK, Places, InvitesInOrder, DoneClosedOnce, ClosedWhenTerminated,
     EndedForAReason, FinalSeen, RejectionLost, OutcomeIsComing, RejectionAcked, rejection
<1>. QED
  BY <1>1, IRun, IPush, ITimers, IReceive, IUsers, ITerminate DEF Next

LEMMA IHolds == Safety => []IInv
BY IInit, INext, PTL DEF Safety

\* The types, one close of Done(), every rejection acknowledged, and a way for mediate to
\* learn the outcome of the call: the invariant the run of InviteClientTx checks.
THEOREM Invariant == Safety => []Inv
<1>1. IInv => Inv
  BY DEF IInv, Inv
<1>. QED
  BY <1>1, IHolds, PTL

-----------------------------------------------------------------------------
\* run sends the first INVITE and timer A the others, in Calling, where no response has
\* come yet; in Terminated there is nobody left who acknowledges.
LEMMA QuietStep ==
  ASSUME IInv, [Next]_vars
  PROVE  /\ lastResponse /= None => invites' \in {invites, 1}
         /\ state = "Terminated" => state' = "Terminated" /\ acked' = acked
<1>1. CASE UNCHANGED vars
  BY <1>1 DEF vars
<1>2. CASE RunStep
  <2>1. pc[Run] = "send" => invites = 0
    BY DEF IInv, InvitesInOrder
  <2>. QED
    BY <1>2, <2>1 DEF RunStep, RunSends, RunStartsB, RunStartsA, RunEnds
<1>3. CASE PushUnavailable \/ PushTimeout
  BY <1>3 DEF PushUnavailable, PushTimeout, Push
<1>4. ASSUME NEW t \in Timer, Fire(t) PROVE UNCHANGED <<invites, state, acked>>
  BY <1>4 DEF Fire
<1>5. CASE ResendInvite
  BY <1>5 DEF ResendInvite, IInv, InvitesInOrder
<1>6. ASSUME NEW d \in Dispatchers, NEW r \in Received, ReceiveResponse(d, r)
      PROVE  /\ invites' = invites
             /\ state = "Terminated" => state' = "Terminated" /\ acked' = acked
  BY <1>6 DEF ReceiveResponse, ReceiveLate, ReceiveProv, ReceiveOk, ReceiveFail,
              ReceiveFailAgain, Receives
<1>7. CASE TUReads \/ Abandon(TU) \/ Abandon(Canceller)
  BY <1>7 DEF TUReads, Abandon
<1>8. ASSUME NEW g \in Goroutine, Terminate(g) \/ CloseDone(g)
      PROVE  /\ UNCHANGED <<invites, acked>>
             /\ state = "Terminated" => state' = "Terminated"
  BY <1>8 DEF Terminate, CloseDone
<1>. QED
  BY <1>1, <1>2, <1>3, <1>4, <1>5, <1>6, <1>7, <1>8 DEF Next

\* No INVITE is repeated once the callee has been heard of, whenever timer A expired, and
\* a terminated transaction stays so and acknowledges nothing.
THEOREM Quiet == Safety => QuietOnceAnswered
<1>1. IInv /\ [Next]_vars => [/\ lastResponse /= None => invites' \in {invites, 1}
                              /\ state = "Terminated" => /\ state' = "Terminated"
                                                         /\ acked' = acked]_vars
  BY QuietStep
<1>. QED
  BY <1>1, IHolds, PTL DEF Safety, QuietOnceAnswered

-----------------------------------------------------------------------------
(***************************************************************************)
(* The transaction implements ClientTransaction.                           *)
(***************************************************************************)
phase == IF done THEN "done" ELSE IF state = "Terminated" THEN "terminated" ELSE "live"

LEMMA ContractInit == Init => Contract!Init
BY DEF Init, Contract!Init

\* A response that comes while the transaction is alive is delivered, or lost.
LEMMA ContractReceive ==
  ASSUME IInv, NEW d \in Dispatchers, NEW r \in Received, ReceiveResponse(d, r)
  PROVE  [Contract!Next]_Contract!vars
<1>1. CASE responses' = responses /\ phase' = phase
  BY <1>1 DEF Contract!vars, phase
<1>2. CASE ~(responses' = responses /\ phase' = phase)
  <2>1. phase = "live" /\ phase' \in {"live", "terminated"} /\ Deliver(r)
    BY <1>2 DEF ReceiveResponse, ReceiveLate, ReceiveProv, ReceiveOk, ReceiveFail,
                ReceiveFailAgain, Receives, IInv, ClosedWhenTerminated, phase
  <2>2. CASE responses = <<>>
    <3>1. Contract!Deliver(r)
      BY <2>1, <2>2 DEF Contract!Deliver, Deliver, phase
    <3>. QED
      BY <3>1 DEF Contract!Next
  <2>3. CASE responses /= <<>>
    <3>1. Contract!Stop
      BY <1>2, <2>1, <2>3 DEF Contract!Stop, Deliver, phase
    <3>. QED
      BY <3>1 DEF Contract!Next
  <2>. QED
    BY <2>2, <2>3
<1>. QED
  BY <1>1, <1>2

\* The 408 and the 503 are the transaction's own.
LEMMA ContractPush ==
  ASSUME PushUnavailable \/ PushTimeout
  PROVE  Contract!Next
<1>1. PICK r \in {Timeout, Unavailable} : Contract!MakeUp(r)
  BY DEF PushUnavailable, PushTimeout, Push, Contract!MakeUp
<1>. QED
  BY <1>1 DEF Contract!Next

\* The two steps of Terminate are the two of the contract.
LEMMA ContractTerminate ==
  ASSUME IInv, NEW g \in Goroutine, Terminate(g) \/ CloseDone(g)
  PROVE  [Contract!Next]_Contract!vars
<1>1. responses' = responses
  BY DEF Terminate, CloseDone
<1>2. CASE Terminate(g) /\ state /= "Terminated"
  <2>1. phase = "live" /\ phase' = "terminated"
    BY <1>2 DEF Terminate, phase, IInv, ClosedWhenTerminated
  <2>2. Contract!Stop
    BY <1>1, <2>1 DEF Contract!Stop, phase
  <2>. QED
    BY <2>2 DEF Contract!Next
<1>3. CASE Terminate(g) /\ state = "Terminated"
  BY <1>1, <1>3 DEF Terminate, Contract!vars
<1>4. CASE CloseDone(g)
  <2>1. phase = "terminated" /\ phase' = "done"
    BY <1>4 DEF CloseDone, phase, IInv, DoneClosedOnce, ClosedWhenTerminated
  <2>2. Contract!Close
    BY <1>1, <2>1 DEF Contract!Close, phase
  <2>. QED
    BY <2>2 DEF Contract!Next
<1>. QED
  BY <1>2, <1>3, <1>4

LEMMA ContractNext == IInv /\ [Next]_vars => [Contract!Next]_Contract!vars
<1> SUFFICES ASSUME IInv, [Next]_vars PROVE [Contract!Next]_Contract!vars
  OBVIOUS
<1>1. CASE UNCHANGED vars
  BY <1>1 DEF vars, Contract!vars
<1>2. CASE RunStep
  BY <1>2 DEF RunStep, RunSends, RunStartsB, RunStartsA, RunEnds, Contract!vars
<1>3. ASSUME NEW t \in Timer, Fire(t) PROVE UNCHANGED Contract!vars
  BY <1>3 DEF Fire, Contract!vars
<1>4. CASE ResendInvite
  BY <1>4 DEF ResendInvite, Contract!vars
<1>5. CASE TUReads
  <2>1. PICK r \in Response : responses = <<r>>
    BY <1>5 DEF TUReads, IInv, TypeOK
  <2>2. Contract!Read
    BY <1>5, <2>1 DEF TUReads, Contract!Read
  <2>. QED
    BY <2>2 DEF Contract!Next
<1>6. CASE Abandon(TU) \/ Abandon(Canceller)
  BY <1>6 DEF Abandon, Contract!vars
<1>. QED
  BY <1>1, <1>2, <1>3, <1>4, <1>5, <1>6, ContractReceive, ContractPush, ContractTerminate
     DEF Next

\* Every step of the transaction is one its user may rely on, or none to the user:
\* Responses() holds what came while the transaction was alive and what it made up, and
\* Done() is closed at most once, after the end.
THEOREM ImplementsContract == Safety => KeepsContract
BY IHolds, ContractInit, ContractNext, PTL DEF Safety, KeepsContract, Contract!Safety
=============================================================================
