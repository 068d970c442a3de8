----------------------- MODULE NonInviteClientTxProofs -----------------------
(***************************************************************************)
(* What TLC checks of NonInviteClientTx on small instances, proved for     *)
(* every set of dispatchers and responses and every number of              *)
(* retransmissions, on every transport, whether writes may fail or not.    *)
(***************************************************************************)
EXTENDS NonInviteClientTxProps, TLAPS

\* The goroutines are different goroutines.
LEMMA GoroutineNames ==
  /\ Run \in Goroutine /\ TU \in Goroutine
  /\ TimerE \in Goroutine /\ TimerF \in Goroutine /\ TimerK \in Goroutine
  /\ Timer = {TimerE, TimerF, TimerK}
  /\ Run \notin {TU, TimerE, TimerF, TimerK} /\ TU \notin {TimerE, TimerF, TimerK}
  /\ TimerE \notin {TimerF, TimerK} /\ TimerF /= TimerK
  /\ \A d \in Dispatchers :
       /\ Dispatch(d) \in Goroutine
       /\ Dispatch(d) \notin {Run, TU, TimerE, TimerF, TimerK}
BY DEF Goroutine, Run, TU, TimerE, TimerF, TimerK, Timer, Dispatch

-----------------------------------------------------------------------------
(***************************************************************************)
(* The inductive invariant.  The types alone are not inductive: the bound  *)
(* on the requests sent needs that timer E runs after the first one only.  *)
(***************************************************************************)

\* Where a goroutine of each kind can be.
Places ==
  /\ pc[Run] \in {"send", "push503", "terminate", "close", "startF", "startE", "wait", "ended"}
  /\ pc[TU] \in {"read", "ended"}
  /\ pc[TimerE] \in {"idle", "resend", "push503", "wedged"}
  /\ pc[TimerF] \in {"idle", "push408", "terminate", "close"}
  /\ pc[TimerK] \in {"idle", "terminate", "close"}

\* Timer E runs, and its callback is under way, only after run has started it; until
\* then the request has left once at most, and not at all where its write has failed.
RequestsInOrder ==
  /\ pc[Run] \notin {"wait", "ended"} => TimerE \notin armed /\ pc[TimerE] = "idle"
  /\ pc[Run] \in {"send", "push503", "terminate", "close"} => requests = 0
  /\ pc[TimerE] = "resend" => requests <= MaxResend

\* A transaction is terminated exactly if its Done() is closed or about to be.
TerminatedHasCloser == state = "Terminated" <=> done \/ \E g \in Goroutine : pc[g] = "close"

IInv == TypeOK /\ Places /\ RequestsInOrder /\ DoneClosedOnce /\ TerminatedHasCloser

LEMMA IInit == Init => IInv
<1> SUFFICES ASSUME Init PROVE IInv
  OBVIOUS
<1> USE GoroutineNames, NonInviteClientTxAssumption
<1>1. pc \in [Goroutine -> {"send", "push503", "push408", "startF", "startE", "wait", "read",
                            "idle", "resend", "terminate", "close", "wedged", "ended"}]
  BY DEF Init
<1>2. /\ reliable \in BOOLEAN /\ state \in State /\ mu \in Goroutine \cup {None}
      /\ lastResponse \in Received \cup {None} /\ done \in BOOLEAN
      /\ responses = <<>> /\ armed \subseteq Timer
      /\ answer \in Response \cup {None}
  BY DEF Init, State
<1>3. TypeOK
  <2>1. requests \in 0 .. MaxResend + 1
    BY DEF Init
  <2>. QED
    BY <1>1, <1>2, <2>1 DEF TypeOK
<1>4. pc[Run] = "send" /\ pc[TU] = "read"
  BY DEF Init
<1>5. \A g \in Goroutine : g \notin {Run, TU} => pc[g] = "idle"
  BY DEF Init
<1>. QED
  BY <1>3, <1>4, <1>5
     DEF Init, IInv, Places, RequestsInOrder, DoneClosedOnce, TerminatedHasCloser

-----------------------------------------------------------------------------
(* Each action keeps it. *)

LEMMA IRun == IInv /\ RunStep => IInv'
<1> SUFFICES ASSUME IInv, RunStep PROVE IInv'
  OBVIOUS
<1> USE GoroutineNames, NonInviteClientTxAssumption
        DEF IInv, TypeOK, Places, RequestsInOrder, DoneClosedOnce, TerminatedHasCloser
<1>1. CASE RunSends
  BY <1>1 DEF RunSends, GoTo
<1>2. CASE RunStartsF
  BY <1>2 DEF RunStartsF, GoTo
<1>3. CASE RunStartsE
  BY <1>3 DEF RunStartsE, GoTo
<1>4. CASE RunEnds
  BY <1>4 DEF RunEnds, GoTo
<1>. QED
  BY <1>1, <1>2, <1>3, <1>4 DEF RunStep

LEMMA IPush == IInv /\ (PushUnavailable \/ PushTimeout) => IInv'
<1> SUFFICES ASSUME IInv, PushUnavailable \/ PushTimeout PROVE IInv'
  OBVIOUS
<1> USE GoroutineNames
        DEF IInv, TypeOK, Places, RequestsInOrder, DoneClosedOnce, TerminatedHasCloser
<1>1. Unavailable \in Response /\ Timeout \in Response
  BY DEF Response
<1>2. CASE Push(Run, "push503", Unavailable, "terminate")
  BY <1>1, <1>2 DEF Push, GoTo
<1>3. CASE Push(TimerE, "push503", Unavailable, "wedged")
  BY <1>1, <1>3 DEF Push, GoTo
<1>4. CASE Push(TimerF, "push408", Timeout, "terminate")
  BY <1>1, <1>4 DEF Push, GoTo
<1>. QED
  BY <1>2, <1>3, <1>4 DEF PushUnavailable, PushTimeout

LEMMA ITimers == IInv /\ ((\E t \in Timer : Fire(t)) \/ ResendRequest) => IInv'
<1> SUFFICES ASSUME IInv, (\E t \in Timer : Fire(t)) \/ ResendRequest PROVE IInv'
  OBVIOUS
<1> USE GoroutineNames, NonInviteClientTxAssumption
        DEF IInv, TypeOK, Places, RequestsInOrder, DoneClosedOnce, TerminatedHasCloser
<1>1. CASE Fire(TimerE)
  BY <1>1 DEF Fire, GoTo
<1>2. CASE Fire(TimerF)
  BY <1>2 DEF Fire, GoTo
<1>3. CASE Fire(TimerK)
  BY <1>3 DEF Fire, GoTo
<1>4. CASE ResendRequest
  BY <1>4 DEF ResendRequest, GoTo
<1>. QED
  BY <1>1, <1>2, <1>3, <1>4

LEMMA IReceive ==
  ASSUME IInv, NEW d \in Dispatchers, NEW r \in Received, ReceiveResponse(d, r)
  PROVE  IInv'
<1> USE GoroutineNames
        DEF IInv, TypeOK, Places, RequestsInOrder, DoneClosedOnce, TerminatedHasCloser, Receives
<1>1. r \in Response
  BY DEF Response
<1>2. CASE ReceiveLate(d, r)
  BY <1>2 DEF ReceiveLate
<1>3. CASE ReceiveProv(d, r)
  BY <1>1, <1>3 DEF ReceiveProv, Deliver, State
<1>4. CASE ReceiveFinal(d, r)
  BY <1>1, <1>4 DEF ReceiveFinal, Deliver, GoTo, State
<1>. QED
  BY <1>2, <1>3, <1>4 DEF ReceiveResponse

LEMMA ITUReads == IInv /\ TUReads => IInv'
<1> SUFFICES ASSUME IInv, TUReads PROVE IInv'
  OBVIOUS
<1>1. PICK r \in Response : responses = <<r>>
  BY DEF TUReads, IInv, TypeOK
<1>. QED
  BY <1>1, GoroutineNames
     DEF TUReads, GoTo, IInv, TypeOK, Places, RequestsInOrder, DoneClosedOnce,
         TerminatedHasCloser

\* The first caller of Terminate becomes the one that closes, the others do not.
LEMMA ITerminate ==
  ASSUME IInv, NEW g \in Goroutine, Terminate(g) \/ CloseDone(g)
  PROVE  IInv'
<1> USE GoroutineNames
        DEF IInv, TypeOK, Places, RequestsInOrder, DoneClosedOnce, TerminatedHasCloser
<1>1. CASE Terminate(g) /\ state = "Terminated"
  BY <1>1 DEF Terminate, GoTo, After
<1>2. CASE Terminate(g) /\ state /= "Terminated"
  BY <1>2 DEF Terminate, GoTo, State
<1>3. CASE CloseDone(g)
  BY <1>3 DEF CloseDone, GoTo, After
<1>. QED
  BY <1>1, <1>2, <1>3

LEMMA INext == IInv /\ [Next]_vars => IInv'
<1> SUFFICES ASSUME IInv, [Next]_vars PROVE IInv'
  OBVIOUS
<1>1. CASE UNCHANGED vars
  BY <1>1 DEF vars, IInv, TypeOK, Places, RequestsInOrder, DoneClosedOnce, TerminatedHasCloser
<1>. QED
  BY <1>1, IRun, IPush, ITimers, IReceive, ITUReads, ITerminate DEF Next

LEMMA IHolds == Safety => []IInv
BY IInit, INext, PTL DEF Safety

\* The types and one close of Done(): the invariant the run of NonInviteClientTx checks.
THEOREM Invariant == Safety => []Inv
<1>1. IInv => Inv
  BY DEF IInv, Inv
<1>. QED
  BY <1>1, IHolds, PTL

-----------------------------------------------------------------------------
\* In Completed and in Terminated nothing is delivered, and only run may still have the
\* first request to send.
LEMMA QuietStep ==
  ASSUME IInv, [Next]_vars, state \in {"Completed", "Terminated"}
  PROVE  /\ state' \in {"Completed", "Terminated"}
         /\ requests' \in {requests, 1}
         /\ responses' \in {responses, <<>>, <<Timeout>>, <<Unavailable>>}
<1>1. CASE UNCHANGED vars
  BY <1>1 DEF vars
<1>2. CASE RunStep
  <2>1. pc[Run] = "send" => requests = 0
    BY DEF IInv, RequestsInOrder
  <2>. QED
    BY <1>2, <2>1 DEF RunStep, RunSends, RunStartsF, RunStartsE, RunEnds
<1>3. CASE PushUnavailable \/ PushTimeout
  BY <1>3 DEF PushUnavailable, PushTimeout, Push
<1>4. ASSUME NEW t \in Timer, Fire(t) PROVE UNCHANGED <<requests, state, responses>>
  BY <1>4 DEF Fire
<1>5. CASE ResendRequest
  BY <1>5 DEF ResendRequest
<1>6. ASSUME NEW d \in Dispatchers, NEW r \in Received, ReceiveResponse(d, r)
      PROVE  UNCHANGED <<requests, state, responses>>
  BY <1>6 DEF ReceiveResponse, ReceiveLate, ReceiveProv, ReceiveFinal, Receives
<1>7. CASE TUReads
  BY <1>7 DEF TUReads
<1>8. ASSUME NEW g \in Goroutine, Terminate(g) \/ CloseDone(g)
      PROVE  UNCHANGED <<requests, responses>> /\ state' \in {"Completed", "Terminated"}
  BY <1>8 DEF Terminate, CloseDone
<1>. QED
  BY <1>1, <1>2, <1>3, <1>4, <1>5, <1>6, <1>7, <1>8 DEF Next

\* Once the final answer is there the request is not repeated and no other answer of the
\* peer is delivered, whenever the timers expired.
THEOREM Quiet == Safety => QuietOnceCompleted
<1>1. IInv /\ [Next]_vars =>
        [(state \in {"Completed", "Terminated"}) =>
           /\ state' \in {"Completed", "Terminated"}
           /\ requests' \in {requests, 1}
           /\ responses' \in {responses, <<>>, <<Timeout>>, <<Unavailable>>}]_vars
  BY QuietStep
<1>. QED
  BY <1>1, IHolds, PTL DEF Safety, QuietOnceCompleted

-----------------------------------------------------------------------------
(***************************************************************************)
(* The transaction implements ClientTransaction.                           *)
(***************************************************************************)
phase == IF done THEN "done" ELSE IF state = "Terminated" THEN "terminated" ELSE "live"

LEMMA ContractInit == Init => Contract!Init
BY DEF Init, Contract!Init

\* A response that comes before the final one, or is it, is delivered or lost.
LEMMA ContractReceive ==
  ASSUME IInv, NEW d \in Dispatchers, NEW r \in Received, ReceiveResponse(d, r)
  PROVE  [Contract!Next]_Contract!vars
<1>1. done' = done /\ (state' = "Terminated" <=> state = "Terminated")
  BY DEF ReceiveResponse, ReceiveLate, ReceiveProv, ReceiveFinal, Receives
<1>2. CASE responses' = responses
  BY <1>1, <1>2 DEF Contract!vars
<1>3. CASE responses' /= responses
  <2>1. phase = "live" /\ responses = <<>> /\ responses' = <<r>>
    BY <1>3 DEF ReceiveResponse, ReceiveLate, ReceiveProv, ReceiveFinal, Deliver,
                IInv, TerminatedHasCloser, phase
  <2>2. Contract!Deliver(r)
    BY <1>1, <2>1 DEF Contract!Deliver, phase
  <2>. QED
    BY <2>2 DEF Contract!Next
<1>. QED
  BY <1>2, <1>3

\* The 408 and the 503 are the transaction's own.
LEMMA ContractPush ==
  ASSUME PushUnavailable \/ PushTimeout
  PROVE  Contract!Next
<1>1. PICK r \in {Timeout, Unavailable} : Contract!MakeUp(r)
  BY DEF PushUnavailable, PushTimeout, Push, Contract!MakeUp
<1>. QED
  BY <1>1 DEF Contract!Next

\* The two steps of Terminate are the two of the contract.
LEMMA ContractTerminate ==
  ASSUME IInv, NEW g \in Goroutine, Terminate(g) \/ CloseDone(g)
  PROVE  [Contract!Next]_Contract!vars
<1>1. responses' = responses
  BY DEF Terminate, CloseDone
<1>2. CASE Terminate(g) /\ state /= "Terminated"
  <2>1. phase = "live" /\ phase' = "terminated"
    BY <1>2 DEF Terminate, phase, IInv, TerminatedHasCloser
  <2>2. Contract!Stop
    BY <1>1, <2>1 DEF Contract!Stop, phase
  <2>. QED
    BY <2>2 DEF Contract!Next
<1>3. CASE Terminate(g) /\ state = "Terminated"
  BY <1>1, <1>3 DEF Terminate, Contract!vars
<1>4. CASE CloseDone(g)
  <2>1. phase = "terminated" /\ phase' = "done"
    BY <1>4 DEF CloseDone, phase, IInv, DoneClosedOnce, TerminatedHasCloser
  <2>2. Contract!Close
    BY <1>1, <2>1 DEF Contract!Close, phase
  <2>. QED
    BY <2>2 DEF Contract!Next
<1>. QED
  BY <1>2, <1>3, <1>4

LEMMA ContractNext == IInv /\ [Next]_vars => [Contract!Next]_Contract!vars
<1> SUFFICES ASSUME IInv, [Next]_vars PROVE [Contract!Next]_Contract!vars
  OBVIOUS
<1>1. CASE UNCHANGED vars
  BY <1>1 DEF vars, Contract!vars
<1>2. CASE RunStep
  BY <1>2 DEF RunStep, RunSends, RunStartsF, RunStartsE, RunEnds, Contract!vars
<1>3. ASSUME NEW t \in Timer, Fire(t) PROVE UNCHANGED Contract!vars
  BY <1>3 DEF Fire, Contract!vars
<1>4. CASE ResendRequest
  BY <1>4 DEF ResendRequest, Contract!vars
<1>5. CASE TUReads
  <2>1. Contract!Read
    BY <1>5 DEF TUReads, Contract!Read
  <2>. QED
    BY <2>1 DEF Contract!Next
<1>. QED
  BY <1>1, <1>2, <1>3, <1>4, <1>5, ContractReceive, ContractPush, ContractTerminate DEF Next

\* Every step of the transaction is one its user may rely on, or none to the user:
\* Responses() holds what came while the transaction was alive and what it made up, and
\* Done() is closed once, after the end.  (That Done() follows in time is TLC's.)
THEOREM ImplementsContract == Safety => Contract!Safety
BY IHolds, ContractInit, ContractNext, PTL DEF Safety, Contract!Safety
=============================================================================
