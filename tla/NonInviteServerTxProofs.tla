----------------------- MODULE NonInviteServerTxProofs -----------------------
(***************************************************************************)
(* What TLC checks of NonInviteServerTx on small instances, proved for     *)
(* every set of users, dispatchers and responses, on every transport,      *)
(* whether writes may fail or not.                                         *)
(***************************************************************************)
EXTENDS NonInviteServerTxProps, SequenceTheorems, TLAPS

\* The goroutines are different goroutines, and none is the absent one.
LEMMA GoroutineNames ==
  /\ Run \in Goroutine /\ TimerJ \in Goroutine /\ Run /= TimerJ /\ None \notin Goroutine
  /\ \A d \in Dispatchers :
       Dispatch(d) \in Goroutine /\ Dispatch(d) /= Run /\ Dispatch(d) /= TimerJ
BY NonInviteServerTxAssumption DEF Goroutine, Run, TimerJ, Dispatch

LEMMA TypeInit == Init => TypeOK
BY DEF Init, TypeOK, State

\* The users: Respond and its two ways to return.
UserStep(u) == (\E r \in Response : Respond(u, r)) \/ RespondAccepted(u) \/ RespondRefused(u)

LEMMA TypeUsers == ASSUME TypeOK, NEW u \in TUs, UserStep(u) PROVE TypeOK'
<1>1. ASSUME NEW r \in Response, Respond(u, r) PROVE TypeOK'
  BY <1>1 DEF TypeOK, Respond
<1>2. CASE RespondAccepted(u)
  BY <1>2 DEF TypeOK, RespondAccepted
<1>3. CASE RespondRefused(u)
  BY <1>3 DEF TypeOK, RespondRefused
<1>. QED
  BY <1>1, <1>2, <1>3 DEF UserStep

\* A response that run takes out of the channel is a response.
LEMMA TypeRun == TypeOK /\ RunStep => TypeOK'
<1> SUFFICES ASSUME TypeOK, RunStep PROVE TypeOK'
  OBVIOUS
<1> USE GoroutineNames
<1>1. CASE RunTakes
  <2>1. PICK r \in Response : responses = <<r>>
    BY <1>1 DEF TypeOK, RunTakes
  <2>. QED
    BY <1>1, <2>1 DEF TypeOK, RunTakes, GoTo
<1>2. CASE RunSeesDone
  BY <1>2 DEF TypeOK, RunSeesDone, GoTo
<1>3. CASE RunDrops
  BY <1>3 DEF TypeOK, RunDrops, GoTo
<1>4. CASE RunSends /\ Written(taken) /\ RunGoesOn
  BY <1>4 DEF TypeOK, State, RunSends, Written, RunGoesOn, GoTo, Response
<1>5. CASE RunSends /\ WriteFails(Run) /\ UNCHANGED <<state, armed>>
  <2>1. taken \in Response \cup {None}
    BY DEF TypeOK
  <2>. QED
    BY <1>5, <2>1 DEF TypeOK, RunSends, WriteFails, GoTo
<1>. QED
  BY <1>1, <1>2, <1>3, <1>4, <1>5 DEF RunStep, RunSends

LEMMA TypeNext == TypeOK /\ [Next]_vars => TypeOK'
<1> SUFFICES ASSUME TypeOK, [Next]_vars PROVE TypeOK'
  OBVIOUS
<1> USE GoroutineNames
<1>1. CASE UNCHANGED vars
  BY <1>1 DEF TypeOK, vars
<1>2. ASSUME NEW d \in Dispatchers, Receive(d) PROVE TypeOK'
  BY <1>2 DEF TypeOK, Receive, Written, WriteFails, GoTo
<1>3. CASE FireJ
  BY <1>3 DEF TypeOK, FireJ, GoTo
<1>4. ASSUME NEW g \in Goroutine, Terminate(g) \/ CloseDone(g) PROVE TypeOK'
  BY <1>4 DEF TypeOK, State, Terminate, CloseDone, GoTo, After
<1>. QED
  BY <1>1, <1>2, <1>3, <1>4, TypeUsers, TypeRun DEF Next, UserStep

\* The variables keep their types in every behaviour, whatever the constants are.
THEOREM TypeCorrect == Safety => []TypeOK
BY TypeInit, TypeNext, PTL DEF Safety

-----------------------------------------------------------------------------
(***************************************************************************)
(* Done() is closed once, and an answered transaction has its end ahead.   *)
(* Neither is inductive alone.  That the first caller of Terminate finds   *)
(* nobody on the way to close the channel follows from the state it reads, *)
(* and that a timer J which expires finds its goroutine idle, from the     *)
(* state in which it is started.                                           *)
(***************************************************************************)
TerminatedHasCloser == state = "Terminated" <=> done \/ \E g \in Goroutine : pc[g] = "close"

TimerJOnlyOnce ==
  /\ armed => state = "Completed" /\ pc[TimerJ] = "idle"
  /\ pc[TimerJ] /= "idle" => state \in {"Completed", "Terminated"}

\* run has a response in its hands exactly where it looks at one, and the final
\* response that was sent is the last one there is to send.
AnsweredOnce ==
  /\ pc[Run] = "took" <=> taken /= None
  /\ lastResponse \in Final => mu /= None \/ state \in {"Completed", "Terminated"}

IInv == TypeOK /\ DoneClosedOnce /\ TerminatedHasCloser /\ TimerJOnlyOnce /\ AnsweredOnce
          /\ EndIsComing

LEMMA IInit == Init => IInv
BY TypeInit, GoroutineNames, NonInviteServerTxAssumption
   DEF Init, IInv, DoneClosedOnce, TerminatedHasCloser, TimerJOnlyOnce, AnsweredOnce,
       EndIsComing, Response

\* The users move nothing but what is on its way to run.
LEMMA IUsers == ASSUME IInv, NEW u \in TUs, UserStep(u) PROVE IInv'
<1>1. UNCHANGED <<state, mu, lastResponse, done, armed, pc, taken>>
  BY DEF UserStep, Respond, RespondAccepted, RespondRefused
<1>. QED
  BY <1>1, TypeUsers
     DEF IInv, DoneClosedOnce, TerminatedHasCloser, TimerJOnlyOnce, AnsweredOnce, EndIsComing

\* run never goes to close Done() by itself, and starts timer J for the first final
\* response only.
LEMMA IRun == IInv /\ RunStep => IInv'
<1> SUFFICES ASSUME IInv, RunStep PROVE IInv'
  OBVIOUS
<1> USE GoroutineNames, NonInviteServerTxAssumption
<1>t. TypeOK /\ TypeOK'
  BY TypeRun DEF IInv
<1>1. CASE RunTakes
  <2>1. taken' \in Response
    BY <1>1, <1>t DEF TypeOK, RunTakes
  <2>. QED
    BY <1>1, <1>t, <2>1
       DEF IInv, TypeOK, RunTakes, GoTo, DoneClosedOnce, TerminatedHasCloser, TimerJOnlyOnce,
           AnsweredOnce, EndIsComing
<1>2. CASE RunSeesDone
  BY <1>2, <1>t
     DEF IInv, TypeOK, RunSeesDone, GoTo, DoneClosedOnce, TerminatedHasCloser, TimerJOnlyOnce,
         AnsweredOnce, EndIsComing
<1>3. CASE RunDrops
  BY <1>3, <1>t
     DEF IInv, TypeOK, RunDrops, GoTo, DoneClosedOnce, TerminatedHasCloser, TimerJOnlyOnce,
         AnsweredOnce, EndIsComing
<1>4. CASE RunSends /\ Written(taken) /\ RunGoesOn
  BY <1>4, <1>t
     DEF IInv, TypeOK, RunSends, Written, RunGoesOn, GoTo, DoneClosedOnce,
         TerminatedHasCloser, TimerJOnlyOnce, AnsweredOnce, EndIsComing, Response
<1>5. CASE RunSends /\ WriteFails(Run) /\ UNCHANGED <<state, armed>>
  BY <1>5, <1>t
     DEF IInv, TypeOK, RunSends, WriteFails, GoTo, DoneClosedOnce, TerminatedHasCloser,
         TimerJOnlyOnce, AnsweredOnce, EndIsComing
<1>. QED
  BY <1>1, <1>2, <1>3, <1>4, <1>5 DEF RunStep, RunSends

\* A dispatcher may wedge itself; it does not close.
LEMMA IReceive == ASSUME IInv, NEW d \in Dispatchers, Receive(d) PROVE IInv'
<1> USE GoroutineNames, NonInviteServerTxAssumption
<1>t. TypeOK /\ TypeOK'
  BY TypeNext DEF IInv, Next
<1>. QED
  BY <1>t DEF IInv, TypeOK, Receive, Written, WriteFails, GoTo, DoneClosedOnce,
              TerminatedHasCloser, TimerJOnlyOnce, AnsweredOnce, EndIsComing

\* Timer J passes the end on to its callback.
LEMMA IFireJ == IInv /\ FireJ => IInv'
<1> SUFFICES ASSUME IInv, FireJ PROVE IInv'
  OBVIOUS
<1> USE GoroutineNames
<1>t. TypeOK /\ TypeOK'
  BY TypeNext DEF IInv, Next
<1>. QED
  BY <1>t DEF IInv, TypeOK, FireJ, GoTo, DoneClosedOnce, TerminatedHasCloser, TimerJOnlyOnce,
              AnsweredOnce, EndIsComing

\* The first caller of Terminate becomes the one that closes, the others do not.
LEMMA ITerminate ==
  ASSUME IInv, NEW g \in Goroutine, Terminate(g) \/ CloseDone(g)
  PROVE  IInv'
<1> USE GoroutineNames
<1>t. TypeOK /\ TypeOK'
  BY TypeNext DEF IInv, Next
<1>1. CASE Terminate(g)
  BY <1>1, <1>t
     DEF IInv, TypeOK, Terminate, GoTo, After, DoneClosedOnce, TerminatedHasCloser,
         TimerJOnlyOnce, AnsweredOnce, EndIsComing
<1>2. CASE CloseDone(g)
  BY <1>2, <1>t
     DEF IInv, TypeOK, CloseDone, GoTo, After, DoneClosedOnce, TerminatedHasCloser,
         TimerJOnlyOnce, AnsweredOnce, EndIsComing
<1>. QED
  BY <1>1, <1>2

LEMMA INext == IInv /\ [Next]_vars => IInv'
<1> SUFFICES ASSUME IInv, [Next]_vars PROVE IInv'
  OBVIOUS
<1>1. CASE UNCHANGED vars
  BY <1>1, TypeNext
     DEF vars, IInv, DoneClosedOnce, TerminatedHasCloser, TimerJOnlyOnce, AnsweredOnce,
         EndIsComing
<1>. QED
  BY <1>1, IUsers, IRun, IReceive, IFireJ, ITerminate DEF Next, UserStep

LEMMA IHolds == Safety => []IInv
BY IInit, INext, PTL DEF Safety

\* The types, one close of Done(), and the end of an answered transaction ahead:
\* the invariant the run of NonInviteServerTx checks.
THEOREM Invariant == Safety => []Inv
<1>1. IInv => Inv
  BY DEF IInv, Inv
<1>. QED
  BY <1>1, IHolds, PTL

-----------------------------------------------------------------------------
\* A step that sends another response than the last one is run's, and run sends nothing
\* where a final response has been sent.
LEMMA FinalStandsStep ==
  ASSUME IInv, [Next]_vars, lastResponse \in Final
  PROVE  lastResponse' = lastResponse /\ wire' \subseteq wire \cup {lastResponse}
<1>1. CASE UNCHANGED vars
  BY <1>1 DEF vars
<1>2. ASSUME NEW u \in TUs, UserStep(u) PROVE UNCHANGED <<lastResponse, wire>>
  BY <1>2 DEF UserStep, Respond, RespondAccepted, RespondRefused
<1>3. CASE RunStep
  BY <1>3 DEF IInv, AnsweredOnce, RunStep, RunTakes, RunSeesDone, RunDrops, RunSends
<1>4. ASSUME NEW d \in Dispatchers, Receive(d)
      PROVE  lastResponse' = lastResponse /\ wire' \subseteq wire \cup {lastResponse}
  BY <1>4 DEF Receive, Written, WriteFails
<1>5. CASE FireJ
  BY <1>5 DEF FireJ
<1>6. ASSUME NEW g \in Goroutine, Terminate(g) \/ CloseDone(g)
      PROVE  UNCHANGED <<lastResponse, wire>>
  BY <1>6 DEF Terminate, CloseDone
<1>. QED
  BY <1>1, <1>2, <1>3, <1>4, <1>5, <1>6 DEF Next, UserStep

\* However many users answer, and however their answers, retransmissions and timers
\* interleave, the first final response is the only one that is ever sent.
THEOREM FirstFinal == Safety => FirstFinalStands
<1>1. IInv /\ [Next]_vars =>
        [(lastResponse \in Final) => /\ lastResponse' = lastResponse
                                     /\ wire' \subseteq wire \cup {lastResponse}]_vars
  BY FinalStandsStep
<1>. QED
  BY <1>1, IHolds, PTL DEF Safety, FirstFinalStands

-----------------------------------------------------------------------------
(***************************************************************************)
(* The transaction implements ServerTransaction.                           *)
(***************************************************************************)
phase == IF done THEN "done" ELSE IF state = "Terminated" THEN "terminated" ELSE "live"
inHand == IF taken = None THEN <<>> ELSE <<taken>>

\* What run has in its hands comes before what is in the channel.
LEMMA Concatenations ==
  ASSUME NEW a, NEW b
  PROVE  /\ <<>> \o <<>> = <<>> /\ <<a>> \o <<>> = <<a>> /\ <<>> \o <<b>> = <<b>>
         /\ <<a>> \o <<b>> = <<a, b>> /\ Append(<<a>>, b) = <<a, b>>
<1>1. /\ <<a>> \in Seq({a, b}) /\ <<b>> \in Seq({a, b})
      /\ <<a, b>> \in Seq({a, b}) /\ Len(<<a, b>>) = 2
  OBVIOUS
<1>2. <<a>> \o <<b>> \in Seq({a, b}) /\ Len(<<a>> \o <<b>>) = 2
  BY <1>1, ConcatProperties
<1>3. \A i \in 1 .. 2 : (<<a>> \o <<b>>)[i] = <<a, b>>[i]
  BY <1>1, ConcatProperties
<1>4. <<a>> \o <<b>> = <<a, b>>
  BY <1>1, <1>2, <1>3, SeqEqual
<1>5. Append(<<a>>, b) = <<a>> \o <<b>>
  BY <1>1, AppendIsConcat
<1>6. <<>> \o <<>> = <<>> /\ <<a>> \o <<>> = <<a>> /\ <<>> \o <<b>> = <<b>>
  OBVIOUS
<1>. QED
  BY <1>4, <1>5, <1>6

LEMMA ContractInit == Init => Contract!Init
BY Concatenations DEF Init, Contract!Init

\* A response that is accepted is the last in line.
LEMMA ContractAccept ==
  ASSUME TypeOK, NEW u \in TUs, RespondAccepted(u)
  PROVE  Contract!Next
<1>1. offer[u] \in Response /\ responses = <<>> /\ responses' = <<offer[u]>>
  BY DEF RespondAccepted, TypeOK
<1>2. phase' = phase /\ inHand' = inHand
  BY DEF RespondAccepted, phase, inHand
<1>3. Contract!Accept(offer[u])
  BY <1>1, <1>2, Concatenations DEF RespondAccepted, phase, inHand, Contract!Accept
<1>. QED
  BY <1>1, <1>3 DEF Contract!Next

\* run takes a response, drops it once it has answered for good, or transmits it.
LEMMA ContractRun == IInv /\ RunStep => [Contract!Next]_Contract!vars
<1> SUFFICES ASSUME IInv, RunStep PROVE [Contract!Next]_Contract!vars
  OBVIOUS
<1> USE GoroutineNames
<1>1. CASE RunTakes
  <2>1. PICK r \in Response : responses = <<r>>
    BY <1>1 DEF RunTakes, IInv, TypeOK
  <2>2. inHand = <<>> /\ inHand' = <<r>> /\ responses' = <<>>
    BY <1>1, <2>1, NonInviteServerTxAssumption DEF RunTakes, IInv, AnsweredOnce, inHand
  <2>3. inHand \o responses = inHand' \o responses'
    BY <2>1, <2>2, Concatenations
  <2>. QED
    BY <1>1, <2>3 DEF RunTakes, Contract!vars, inHand
<1>2. CASE RunSeesDone
  BY <1>2 DEF RunSeesDone, Contract!vars
<1>3. CASE RunDrops \/ RunSends
  <2>1. taken \in Response /\ taken' = None /\ responses' = responses
    BY <1>3 DEF RunDrops, RunSends, IInv, TypeOK, AnsweredOnce
  <2>2. inHand = <<taken>> /\ inHand' = <<>>
    BY <2>1, NonInviteServerTxAssumption DEF inHand
  <2>3. responses = <<>> \/ \E b : responses = <<b>>
    BY DEF IInv, TypeOK
  <2>4. /\ inHand \o responses /= <<>> /\ Head(inHand \o responses) = taken
        /\ inHand' \o responses' = Tail(inHand \o responses)
    <3>1. CASE responses = <<>>
      <4>1. inHand \o responses = <<taken>> /\ inHand' \o responses' = <<>>
        BY <2>1, <2>2, <3>1, Concatenations
      <4>. QED
        BY <4>1
    <3>2. ASSUME NEW b, responses = <<b>>
          PROVE  <2>4
      <4>1. inHand \o responses = <<taken, b>> /\ inHand' \o responses' = <<b>>
        BY <2>1, <2>2, <3>2, Concatenations
      <4>. QED
        BY <4>1
    <3>. QED
      BY <2>3, <3>1, <3>2
  <2>5. CASE RunDrops
    <3>1. phase /= "live" \/ lastResponse \in Final
      BY <2>5 DEF RunDrops, phase
    <3>2. Contract!Discard
      BY <2>4, <2>5, <3>1 DEF RunDrops, Contract!Discard, phase, inHand
    <3>. QED
      BY <3>2 DEF Contract!Next
  <2>6. CASE RunSends
    <3>1. phase = "live" /\ phase' = phase /\ lastResponse' = taken
      BY <2>6 DEF RunSends, RunGoesOn, phase, IInv, TerminatedHasCloser
    <3>2. Contract!Transmit
      BY <2>4, <3>1 DEF Contract!Transmit, phase, inHand
    <3>. QED
      BY <3>2 DEF Contract!Next
  <2>. QED
    BY <1>3, <2>5, <2>6
<1>. QED
  BY <1>1, <1>2, <1>3 DEF RunStep

\* The two steps of Terminate are the two of the contract.
LEMMA ContractTerminate ==
  ASSUME IInv, NEW g \in Goroutine, Terminate(g) \/ CloseDone(g)
  PROVE  [Contract!Next]_Contract!vars
<1>1. UNCHANGED <<taken, responses, lastResponse>>
  BY DEF Terminate, CloseDone
<1>2. CASE Terminate(g) /\ state /= "Terminated"
  <2>1. phase = "live" /\ phase' = "terminated"
    BY <1>2 DEF Terminate, phase, IInv, TerminatedHasCloser
  <2>2. Contract!Stop
    BY <1>1, <2>1 DEF Contract!Stop, phase
  <2>. QED
    BY <2>2 DEF Contract!Next
<1>3. CASE Terminate(g) /\ state = "Terminated"
  BY <1>1, <1>3 DEF Terminate, Contract!vars
<1>4. CASE CloseDone(g)
  <2>1. phase = "terminated" /\ phase' = "done"
    BY <1>4 DEF CloseDone, phase, IInv, DoneClosedOnce, TerminatedHasCloser
  <2>2. Contract!Close
    BY <1>1, <2>1 DEF Contract!Close, phase
  <2>. QED
    BY <2>2 DEF Contract!Next
<1>. QED
  BY <1>2, <1>3, <1>4

LEMMA ContractNext == IInv /\ [Next]_vars => [Contract!Next]_Contract!vars
<1> SUFFICES ASSUME IInv, [Next]_vars PROVE [Contract!Next]_Contract!vars
  OBVIOUS
<1>1. CASE UNCHANGED vars
  BY <1>1 DEF vars, Contract!vars
<1>2. ASSUME NEW u \in TUs, (\E r \in Response : Respond(u, r)) \/ RespondRefused(u)
      PROVE  UNCHANGED Contract!vars
  BY <1>2 DEF Respond, RespondRefused, Contract!vars
<1>3. ASSUME NEW d \in Dispatchers, Receive(d) PROVE UNCHANGED Contract!vars
  BY <1>3 DEF Receive, Contract!vars
<1>4. CASE FireJ
  BY <1>4 DEF FireJ, Contract!vars
<1>5. TypeOK
  BY DEF IInv
<1>. QED
  BY <1>1, <1>2, <1>3, <1>4, <1>5, ContractAccept, ContractRun, ContractTerminate DEF Next

\* Every step of the transaction is one its user may rely on, or none to the user:
\* responses leave in order and once, none but the first final one, none after the end,
\* and Done() is closed once, after it.  (That Done() follows in time is TLC's.)
THEOREM ImplementsContract == Safety => Contract!Safety
BY IHolds, ContractInit, ContractNext, PTL DEF Safety, Contract!Safety
=============================================================================
