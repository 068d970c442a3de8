------------------------ MODULE InviteServerTxProofs ------------------------
(***************************************************************************)
(* What TLC checks of InviteServerTx on small instances, proved for every  *)
(* set of users, dispatchers and responses, on every transport, whether    *)
(* writes may fail or not.                                                 *)
(***************************************************************************)
EXTENDS InviteServerTxProps, FiniteSetTheorems, SequenceTheorems, TLAPS

\* The names of the goroutines are goroutines.
LEMMA GoroutineNames ==
  /\ Run \in Goroutine
  /\ \A d \in Dispatchers : Dispatch(d) \in Goroutine
  /\ \A u \in TUs : TimerG(u) \in Timer /\ TimerH(u) \in Timer /\ TimerI(u) \in Timer
  /\ Timer \subseteq Goroutine
BY DEF Goroutine, Run, Dispatch, Timer, TimerG, TimerH, TimerI

\* Where a call of Terminate returns to is a place a goroutine can be.
LEMMA AfterType == \A g : After(g) \in {"ended", "idle"}
BY DEF After

-----------------------------------------------------------------------------
USE DEF Message, NoMessage

LEMMA TypeInit == Init => TypeOK
<1> SUFFICES ASSUME Init PROVE TypeOK
  OBVIOUS
<1>1. pc \in [Goroutine -> {"idle", "select", "took", "ended", "resend",
                            "terminate", "close", "wedged"}]
  BY DEF Init
<1>2. pc[Run] = "select"
  BY GoroutineNames DEF Init
<1>. QED
  BY <1>1, <1>2 DEF Init, TypeOK, State

\* The users: Respond and its two ways to return.
LEMMA TypeRespond ==
  ASSUME TypeOK, NEW u \in TUs,
         \/ \E r \in Response : Respond(u, r)
         \/ RespondAccepted(u) \/ RespondRefused(u)
  PROVE  TypeOK'
<1>1. ASSUME NEW r \in Response, Respond(u, r) PROVE TypeOK'
  BY <1>1 DEF TypeOK, Respond
<1>2. CASE RespondAccepted(u)
  <2>1. offer[u] \in Response
    BY <1>2 DEF RespondAccepted, TypeOK
  <2>2. responses' \in {<<m>> : m \in Message}
    BY <1>2, <2>1 DEF RespondAccepted
  <2>. QED
    BY <1>2, <2>2 DEF RespondAccepted, Return, TypeOK
<1>3. CASE RespondRefused(u)
  BY <1>3 DEF RespondRefused, Return, TypeOK
<1>. QED
  BY <1>1, <1>2, <1>3

\* run: it takes a response, sees Done(), drops the response or sends it.
LEMMA TypeRun == TypeOK /\ RunStep => TypeOK'
<1> SUFFICES ASSUME TypeOK, RunStep PROVE TypeOK'
  OBVIOUS
<1> USE GoroutineNames
<1>1. CASE RunTakes
  <2>1. PICK m \in Message : responses = <<m>>
    BY <1>1 DEF RunTakes, TypeOK
  <2>2. taken' \in Message
    BY <1>1, <2>1 DEF RunTakes
  <2>. QED
    BY <1>1, <2>2 DEF RunTakes, TypeOK
<1>2. CASE RunSeesDone
  BY <1>2 DEF RunSeesDone, TypeOK
<1>3. CASE RunTooLate
  BY <1>3 DEF RunTooLate, TypeOK
<1>4. CASE RunSends
  <2>1. taken.res \in Response \cup {None} /\ taken.from \in TUs \cup {None}
    BY DEF TypeOK
  <2>2. CASE Written(taken.res) /\ RunGoesOn
    <3>1. taken.res \in Response
      BY <2>2 DEF RunGoesOn, Response
    <3>2. taken \in Message
      BY <3>1, InviteServerTxAssumption DEF TypeOK
    <3>3. taken.from \in TUs
      BY <3>2
    <3>4. CASE taken.res \in Fail /\ state' = "Completed" /\ StartGH(taken.from)
               /\ pc' = [pc EXCEPT ![Run] = "select"]
      <4>1. timer' \in [{"G", "H", "I"} -> TUs \cup {None}]
        BY <3>3, <3>4 DEF StartGH, TypeOK
      <4>2. armed' \subseteq Timer
        BY <3>3, <3>4 DEF StartGH, TypeOK, Timer
      <4>3. timer'["H"] \in TUs
        BY <3>3, <3>4 DEF StartGH
      <4>. QED
        BY <1>4, <2>2, <3>1, <3>4, <4>1, <4>2, <4>3 DEF RunSends, Written, TypeOK, State
    <3>5. CASE ~(taken.res \in Fail /\ state' = "Completed" /\ StartGH(taken.from)
                 /\ pc' = [pc EXCEPT ![Run] = "select"])
      BY <1>4, <2>2, <3>1, <3>5 DEF RunSends, RunGoesOn, Written, TypeOK
    <3>. QED
      BY <3>4, <3>5
  <2>3. CASE WriteFails(Run) /\ UNCHANGED <<state, timer, armed>>
    BY <1>4, <2>1, <2>3 DEF RunSends, WriteFails, TypeOK
  <2>. QED
    BY <1>4, <2>2, <2>3 DEF RunSends
<1>. QED
  BY <1>1, <1>2, <1>3, <1>4 DEF RunStep

\* Receive: an ACK or a retransmitted INVITE.
LEMMA TypeReceive ==
  ASSUME TypeOK, NEW d \in Dispatchers, ReceiveAck(d) \/ ReceiveInvite(d)
  PROVE  TypeOK'
<1> USE GoroutineNames
<1>1. CASE ReceiveAck(d)
  <2>1. timer' \in [{"G", "H", "I"} -> TUs \cup {None}]
    BY <1>1 DEF ReceiveAck, TypeOK
  <2>. QED
    BY <1>1, <2>1 DEF ReceiveAck, TypeOK, State
<1>2. CASE ReceiveInvite(d)
  BY <1>2 DEF ReceiveInvite, Written, WriteFails, TypeOK
<1>. QED
  BY <1>1, <1>2

\* The timers expire and timer G resends.
LEMMA TypeTimer ==
  ASSUME TypeOK, NEW t \in Timer, Fire(t) \/ Resend(t)
  PROVE  TypeOK'
<1> USE GoroutineNames
<1>1. CASE Fire(t)
  BY <1>1 DEF Fire, TypeOK
<1>2. CASE Resend(t)
  <2>1. CASE state = "Completed"
    BY <1>2, <2>1 DEF Resend, Written, WriteFails, Current, TypeOK
  <2>2. CASE state /= "Completed"
    BY <1>2, <2>2 DEF Resend, TypeOK
  <2>. QED
    BY <2>1, <2>2
<1>. QED
  BY <1>1, <1>2

\* Terminate and close(done).
LEMMA TypeTerminate ==
  ASSUME TypeOK, NEW g \in Goroutine, Terminate(g) \/ CloseDone(g)
  PROVE  TypeOK'
<1>1. After(g) \in {"ended", "idle"}
  BY AfterType
<1>2. pc'[Run] = "took" <=> pc[Run] = "took"
  BY <1>1, GoroutineNames DEF Terminate, CloseDone, TypeOK
<1>. QED
  BY <1>1, <1>2 DEF Terminate, CloseDone, TypeOK, State

LEMMA TypeNext == TypeOK /\ [Next]_vars => TypeOK'
<1> SUFFICES ASSUME TypeOK, [Next]_vars PROVE TypeOK'
  OBVIOUS
<1>1. CASE UNCHANGED vars
  BY <1>1 DEF vars, TypeOK
<1>. QED
  BY <1>1, TypeRespond, TypeRun, TypeReceive, TypeTimer, TypeTerminate DEF Next

\* The variables keep their types in every behaviour, whatever the constants are.
THEOREM TypeCorrect == Safety => []TypeOK
BY TypeInit, TypeNext, PTL DEF Safety
-----------------------------------------------------------------------------
(***************************************************************************)
(* Done() is closed once.  DoneClosedOnce alone is not inductive: that the *)
(* first caller of Terminate finds nobody on the way to close the channel  *)
(* follows from the state it reads, by TerminatedHasCloser.                *)
(***************************************************************************)
Closing == DoneClosedOnce /\ TerminatedHasCloser

\* A step that neither terminates the transaction nor sends a goroutine to close
\* Done() or back from it has no part in closing.
NotClosing ==
  /\ done' = done
  /\ state' = "Terminated" <=> state = "Terminated"
  /\ \A g \in Goroutine : pc'[g] = "close" <=> pc[g] = "close"

LEMMA ClosingKept == Closing /\ NotClosing => Closing'
BY DEF Closing, NotClosing, DoneClosedOnce, TerminatedHasCloser

\* The step of a goroutine from somewhere else to somewhere else.
LEMMA MoveElsewhere ==
  ASSUME TypeOK, NEW g \in Goroutine, NEW l, l /= "close", pc[g] /= "close",
         pc' = [pc EXCEPT ![g] = l]
  PROVE  \A h \in Goroutine : pc'[h] = "close" <=> pc[h] = "close"
BY DEF TypeOK

LEMMA UsersDoNotClose ==
  ASSUME NEW u \in TUs,
         \/ \E r \in Response : Respond(u, r)
         \/ RespondAccepted(u) \/ RespondRefused(u)
  PROVE  NotClosing
BY DEF Respond, RespondAccepted, RespondRefused, NotClosing

LEMMA RunDoesNotClose == TypeOK /\ RunStep => NotClosing
<1> SUFFICES ASSUME TypeOK, RunStep PROVE NotClosing
  OBVIOUS
<1> USE GoroutineNames
<1>1. CASE RunTakes
  BY <1>1, MoveElsewhere DEF RunTakes, NotClosing
<1>2. CASE RunSeesDone
  BY <1>2, MoveElsewhere DEF RunSeesDone, NotClosing
<1>3. CASE RunTooLate
  BY <1>3, MoveElsewhere DEF RunTooLate, NotClosing
<1>4. CASE RunSends
  <2>1. done' = done /\ state /= "Terminated" /\ state' /= "Terminated"
    BY <1>4 DEF RunSends, RunGoesOn
  <2>2. \E l \in {"select", "terminate", "wedged"} : pc' = [pc EXCEPT ![Run] = l]
    BY <1>4 DEF RunSends, RunGoesOn, WriteFails
  <2>. QED
    BY <1>4, <2>1, <2>2, MoveElsewhere DEF RunSends, NotClosing
<1>. QED
  BY <1>1, <1>2, <1>3, <1>4 DEF RunStep

LEMMA ReceiveDoesNotClose ==
  ASSUME TypeOK, NEW d \in Dispatchers, ReceiveAck(d) \/ ReceiveInvite(d)
  PROVE  NotClosing
<1> USE GoroutineNames
<1>1. CASE ReceiveAck(d)
  <2>1. pc' = pc \/ pc' = [pc EXCEPT ![Dispatch(d)] = "terminate"]
    BY <1>1 DEF ReceiveAck
  <2>2. \A g \in Goroutine : pc'[g] = "close" <=> pc[g] = "close"
    BY <1>1, <2>1, MoveElsewhere DEF ReceiveAck
  <2>. QED
    BY <1>1, <2>2 DEF ReceiveAck, NotClosing
<1>2. CASE ReceiveInvite(d)
  BY <1>2, MoveElsewhere DEF ReceiveInvite, WriteFails, NotClosing
<1>. QED
  BY <1>1, <1>2

LEMMA TimersDoNotClose ==
  ASSUME TypeOK, NEW t \in Timer, Fire(t) \/ Resend(t)
  PROVE  NotClosing
<1>1. t \in Goroutine
  BY GoroutineNames
<1>2. \E l \in {"resend", "terminate", "idle", "wedged"} : pc' = [pc EXCEPT ![t] = l]
  BY DEF Fire, Resend, WriteFails
<1>3. pc[t] /= "close" /\ done' = done /\ state' = state
  BY DEF Fire, Resend
<1>. QED
  BY <1>1, <1>2, <1>3, MoveElsewhere DEF NotClosing

\* The first caller of Terminate becomes the one that closes, the others do not.
LEMMA TerminateCloses ==
  ASSUME TypeOK, Closing, NEW g \in Goroutine, Terminate(g)
  PROVE  Closing'
<1>1. CASE state = "Terminated"
  <2>1. pc' = [pc EXCEPT ![g] = After(g)] /\ pc[g] /= "close" /\ After(g) /= "close"
    BY <1>1, AfterType DEF Terminate
  <2>. QED
    BY <1>1, <2>1, MoveElsewhere, ClosingKept DEF Terminate, NotClosing
<1>2. CASE state /= "Terminated"
  <2>1. ~done /\ \A h \in Goroutine : pc[h] /= "close"
    BY <1>2 DEF Closing, TerminatedHasCloser
  <2>2. \A h \in Goroutine : pc'[h] = "close" <=> h = g
    BY <1>2, <2>1 DEF Terminate, TypeOK
  <2>. QED
    BY <1>2, <2>1, <2>2 DEF Terminate, Closing, DoneClosedOnce, TerminatedHasCloser
<1>. QED
  BY <1>1, <1>2

\* Once Done() is closed nobody is on the way to close it.
LEMMA CloseCloses ==
  ASSUME TypeOK, Closing, NEW g \in Goroutine, CloseDone(g)
  PROVE  Closing'
<1>1. After(g) /= "close"
  BY AfterType
<1>2. \A h \in Goroutine : pc'[h] /= "close"
  BY <1>1 DEF CloseDone, TypeOK, Closing, DoneClosedOnce
<1>3. state' = "Terminated" /\ done'
  BY DEF CloseDone, Closing, TerminatedHasCloser
<1>. QED
  BY <1>2, <1>3 DEF Closing, DoneClosedOnce, TerminatedHasCloser

LEMMA ClosingNext == TypeOK /\ Closing /\ [Next]_vars => Closing'
<1> SUFFICES ASSUME TypeOK, Closing, [Next]_vars PROVE Closing'
  OBVIOUS
<1>1. CASE UNCHANGED vars
  BY <1>1, ClosingKept DEF vars, NotClosing
<1>2. CASE Next
  BY <1>2, UsersDoNotClose, RunDoesNotClose, ReceiveDoesNotClose, TimersDoNotClose,
     TerminateCloses, CloseCloses, ClosingKept DEF Next
<1>. QED
  BY <1>1, <1>2

LEMMA ClosingInit == Init => Closing
BY DEF Init, Closing, DoneClosedOnce, TerminatedHasCloser

\* Whoever terminates the transaction first closes Done(), and nobody closes it again:
\* the process never panics on the channel, however many timers, dispatchers and users
\* there are.
THEOREM ClosedOnce == Safety => []DoneClosedOnce
<1>1. Closing => DoneClosedOnce
  BY DEF Closing
<1>. QED
  BY <1>1, TypeCorrect, ClosingInit, ClosingNext, PTL DEF Safety

\* A terminated transaction has its Done() closed or about to be.
THEOREM CloserExists == Safety => []TerminatedHasCloser
<1>1. Closing => TerminatedHasCloser
  BY DEF Closing
<1>. QED
  BY <1>1, TypeCorrect, ClosingInit, ClosingNext, PTL DEF Safety

\* The invariant the run of InviteServerTx checks.
THEOREM Invariant == Safety => []Inv
<1>1. TypeOK /\ DoneClosedOnce /\ TerminatedHasCloser => Inv
  BY DEF Inv
<1>. QED
  BY <1>1, TypeCorrect, ClosedOnce, CloserExists, PTL

-----------------------------------------------------------------------------
LEMMA SilentStep ==
  ASSUME [Next]_vars, state = "Terminated"
  PROVE  state' = "Terminated" /\ wire' = wire /\ lastResponse' = lastResponse
<1>1. CASE UNCHANGED vars
  BY <1>1 DEF vars
<1>2. CASE RunStep
  BY <1>2 DEF RunStep, RunTakes, RunSeesDone, RunTooLate, RunSends
<1>3. ASSUME NEW u \in TUs,
             \/ \E r \in Response : Respond(u, r)
             \/ RespondAccepted(u) \/ RespondRefused(u)
      PROVE  UNCHANGED <<state, wire, lastResponse>>
  BY <1>3 DEF Respond, RespondAccepted, RespondRefused
<1>4. ASSUME NEW d \in Dispatchers, ReceiveAck(d) \/ ReceiveInvite(d) PROVE FALSE
  BY <1>4 DEF ReceiveAck, ReceiveInvite
<1>5. ASSUME NEW t \in Timer, Fire(t) \/ Resend(t)
      PROVE  UNCHANGED <<state, wire, lastResponse>>
  BY <1>5 DEF Fire, Resend
<1>6. ASSUME NEW g \in Goroutine, Terminate(g) \/ CloseDone(g)
      PROVE  UNCHANGED <<state, wire, lastResponse>>
  BY <1>6 DEF Terminate, CloseDone
<1>. QED
  BY <1>1, <1>2, <1>3, <1>4, <1>5, <1>6 DEF Next

\* Nothing leaves a terminated transaction and it never comes back to life.
THEOREM Silent == Safety => SilentOnceTerminated
<1>1. [Next]_vars => [state = "Terminated" =>
                        /\ state' = "Terminated"
                        /\ wire' = wire
                        /\ lastResponse' = lastResponse]_vars
  BY SilentStep
<1>. QED
  BY <1>1, PTL DEF Safety, SilentOnceTerminated

-----------------------------------------------------------------------------
(***************************************************************************)
(* Timers never desert the transaction.  EndIsComing is inductive with the *)
(* types: what ends a transaction in Completed or Confirmed is a timer, or *)
(* a goroutine at the call of Terminate, and that only leaves there for    *)
(* Terminated.                                                             *)
(***************************************************************************)

\* A step keeps the end coming if it keeps the state, the field of timer H, the timers H
\* and I that run or go off, and the goroutines that are about to terminate.
KeepsEnd ==
  /\ mu' = None => mu = None
  /\ state' = state /\ timer' = timer
  /\ \A t \in armed : t[1] /= "G" => t \in armed' \/ pc'[t] = "terminate"
  /\ \A g \in Goroutine : pc[g] = "terminate" => pc'[g] = "terminate"

LEMMA EndKept == TypeOK /\ EndIsComing /\ KeepsEnd => EndIsComing'
<1> SUFFICES ASSUME TypeOK, EndIsComing, KeepsEnd, mu' = None, mu = None
             PROVE  /\ state = "Completed" =>
                         \E u \in TUs : /\ timer["H"] = u
                                        /\ TimerH(u) \in armed' \/ pc'[TimerH(u)] = "terminate"
                    /\ state = "Confirmed" =>
                         \/ \E u \in TUs : TimerI(u) \in armed' \/ pc'[TimerI(u)] = "terminate"
                         \/ \E d \in Dispatchers : pc'[Dispatch(d)] = "terminate"
  BY DEF EndIsComing, KeepsEnd
<1>. QED
  BY GoroutineNames DEF KeepsEnd, EndIsComing, TimerH, TimerI

\* The step of a goroutine that is not about to terminate.
LEMMA MoveKeepsEnd ==
  ASSUME TypeOK, NEW g \in Goroutine, NEW l, pc[g] /= "terminate",
         pc' = [pc EXCEPT ![g] = l] \/ pc' = pc
  PROVE  \A h \in Goroutine : pc[h] = "terminate" => pc'[h] = "terminate"
BY DEF TypeOK

LEMMA UsersKeepEnd ==
  ASSUME NEW u \in TUs,
         \/ \E r \in Response : Respond(u, r)
         \/ RespondAccepted(u) \/ RespondRefused(u)
  PROVE  KeepsEnd
BY DEF Respond, RespondAccepted, RespondRefused, KeepsEnd

\* run sends a response; a 3xx-6xx starts the timer H that is waited for from then on.
LEMMA RunKeepsEnd == TypeOK /\ EndIsComing /\ RunStep => EndIsComing'
<1> SUFFICES ASSUME TypeOK, EndIsComing, RunStep PROVE EndIsComing'
  OBVIOUS
<1> USE GoroutineNames
<1>1. CASE RunTakes
  BY <1>1, MoveKeepsEnd, EndKept DEF RunTakes, KeepsEnd
<1>2. CASE RunSeesDone
  BY <1>2, MoveKeepsEnd, EndKept DEF RunSeesDone, KeepsEnd
<1>3. CASE RunTooLate
  BY <1>3, MoveKeepsEnd, EndKept DEF RunTooLate, KeepsEnd
<1>4. CASE RunSends
  <2>1. \E l : pc' = [pc EXCEPT ![Run] = l]
    BY <1>4 DEF RunSends, RunGoesOn, WriteFails
  <2>2. \A h \in Goroutine : pc[h] = "terminate" => pc'[h] = "terminate"
    BY <1>4, <2>1, MoveKeepsEnd DEF RunSends
  <2>3. CASE Written(taken.res) /\ state' = "Completed" /\ StartGH(taken.from) /\ taken.res \in Fail
    <3>1. taken \in Message
      BY <1>4, <2>3, InviteServerTxAssumption DEF RunSends, TypeOK, Response
    <3>2. taken.from \in TUs /\ timer'["H"] = taken.from /\ TimerH(taken.from) \in armed'
      BY <2>3, <3>1 DEF StartGH, TimerH
    <3>. QED
      BY <2>3, <3>2 DEF EndIsComing
  <2>4. CASE ~(Written(taken.res) /\ state' = "Completed" /\ StartGH(taken.from)
               /\ taken.res \in Fail)
    BY <1>4, <2>2, <2>4, EndKept DEF RunSends, RunGoesOn, WriteFails, KeepsEnd
  <2>. QED
    BY <2>3, <2>4
<1>. QED
  BY <1>1, <1>2, <1>3, <1>4 DEF RunStep

\* An ACK leaves its dispatcher at the call of Terminate, or timer I running.
LEMMA ReceiveKeepsEnd ==
  ASSUME TypeOK, EndIsComing, NEW d \in Dispatchers, ReceiveAck(d) \/ ReceiveInvite(d)
  PROVE  EndIsComing'
<1> USE GoroutineNames
<1>1. CASE ReceiveAck(d)
  <2>1. CASE reliable
    <3>1. pc'[Dispatch(d)] = "terminate" /\ state' = "Confirmed"
      BY <1>1, <2>1 DEF ReceiveAck, TypeOK
    <3>. QED
      BY <3>1 DEF EndIsComing
  <2>2. CASE ~reliable
    <3>1. timer["H"] \in TUs /\ TimerI(timer["H"]) \in armed' /\ state' = "Confirmed"
      BY <1>1, <2>2 DEF ReceiveAck, TypeOK
    <3>. QED
      BY <3>1 DEF EndIsComing
  <2>. QED
    BY <2>1, <2>2
<1>2. CASE ReceiveInvite(d)
  BY <1>2, MoveKeepsEnd, EndKept DEF ReceiveInvite, WriteFails, Written, KeepsEnd
<1>. QED
  BY <1>1, <1>2

\* A timer H or I that goes off is at the call of Terminate then.
LEMMA TimersKeepEnd ==
  ASSUME TypeOK, NEW t \in Timer, Fire(t) \/ Resend(t)
  PROVE  KeepsEnd
<1> USE GoroutineNames
<1>1. \E l : pc' = [pc EXCEPT ![t] = l]
  BY DEF Fire, Resend, WriteFails
<1>2. \A g \in Goroutine : pc[g] = "terminate" => pc'[g] = "terminate"
  BY <1>1, MoveKeepsEnd DEF Fire, Resend
<1>3. CASE Fire(t)
  BY <1>2, <1>3 DEF Fire, KeepsEnd, TypeOK
<1>4. CASE Resend(t)
  BY <1>2, <1>4 DEF Resend, KeepsEnd
<1>. QED
  BY <1>3, <1>4

LEMMA TerminateKeepsEnd ==
  ASSUME TypeOK, Closing, EndIsComing, NEW g \in Goroutine, Terminate(g) \/ CloseDone(g)
  PROVE  EndIsComing'
<1>1. CASE Terminate(g)
  BY <1>1 DEF Terminate, EndIsComing
<1>2. CASE CloseDone(g)
  BY <1>2 DEF CloseDone, EndIsComing, Closing, TerminatedHasCloser
<1>. QED
  BY <1>1, <1>2

LEMMA EndNext == TypeOK /\ Closing /\ EndIsComing /\ [Next]_vars => EndIsComing'
<1> SUFFICES ASSUME TypeOK, Closing, EndIsComing, [Next]_vars PROVE EndIsComing'
  OBVIOUS
<1>1. CASE UNCHANGED vars
  BY <1>1, EndKept DEF vars, KeepsEnd
<1>2. CASE Next
  BY <1>2, UsersKeepEnd, RunKeepsEnd, ReceiveKeepsEnd, TimersKeepEnd, TerminateKeepsEnd,
     EndKept DEF Next
<1>. QED
  BY <1>1, <1>2

LEMMA ClosingInvariant == Safety => []Closing
BY TypeCorrect, ClosingInit, ClosingNext, PTL DEF Safety

\* In Completed timer H runs or is about to terminate the transaction, in Confirmed
\* timer I or an ACK is, unless a failed write has blocked it.
THEOREM EndComes == Safety => []EndIsComing
<1>1. Init => EndIsComing
  BY DEF Init, EndIsComing
<1>. QED
  BY <1>1, TypeCorrect, ClosingInvariant, EndNext, PTL DEF Safety

-----------------------------------------------------------------------------
(***************************************************************************)
(* No timer is left over as long as one TU has sent a final response.  The *)
(* reason is the way a final response takes: through the channel and run,  *)
(* once, and after that its TU's timer H is the one tx.timerH points at.   *)
(* A second 3xx-6xx that run sends is another TU's.                        *)
(***************************************************************************)
Queued(u) == \E m \in Message : responses = <<m>> /\ m.from = u /\ m.res \notin Prov
InHand(u) == taken.from = u /\ taken.res \notin Prov

FinalsPassOnce ==
  /\ IsFiniteSet(spent)
  /\ \A u \in TUs : offer[u] /= None => u \notin spent
  /\ \A u \in TUs : Queued(u) => u \in spent /\ timer["H"] /= u /\ ~InHand(u)
  /\ \A u \in TUs : InHand(u) => u \in spent /\ timer["H"] /= u
  /\ timer["H"] \in TUs => timer["H"] \in spent
  /\ state = "Confirmed" => timer["H"] \in TUs

OneSpent == \A u, v \in spent : u = v

ArmedAsNeeded ==
  /\ state = "Completed" => armed \subseteq Current({"G", "H"})
  /\ state = "Confirmed" => armed \subseteq Current({"I"})
  /\ state \in {"Proceeding", "Terminated"} => armed = {}

NoStray == FinalsPassOnce /\ (OneSpent => ArmedAsNeeded)

LEMMA NoStrayInit == Init => NoStray
<1> SUFFICES ASSUME Init PROVE NoStray
  OBVIOUS
<1>1. IsFiniteSet(spent)
  BY FS_EmptySet DEF Init
<1>. QED
  BY <1>1, InviteServerTxAssumption
     DEF Init, NoStray, FinalsPassOnce, Queued, InHand, ArmedAsNeeded

\* A step that neither moves a response nor changes the state or the timers, but that a
\* timer may go off.
NoPart ==
  /\ state' = state /\ timer' = timer /\ armed' \subseteq armed
  /\ spent' = spent /\ taken' = taken /\ responses' = responses /\ offer' = offer

LEMMA NoStrayKept == NoStray /\ NoPart => NoStray'
<1> SUFFICES ASSUME NoStray, NoPart PROVE NoStray'
  OBVIOUS
<1>1. FinalsPassOnce'
  BY DEF NoStray, NoPart, FinalsPassOnce, Queued, InHand
<1>2. OneSpent' => ArmedAsNeeded'
  BY DEF NoStray, NoPart, OneSpent, ArmedAsNeeded, Current
<1>. QED
  BY <1>1, <1>2 DEF NoStray

\* A TU's final response goes into the channel, or nowhere, when it is spent.
LEMMA NoStrayUsers ==
  ASSUME TypeOK, NoStray, NEW u \in TUs,
         \/ \E r \in Response : Respond(u, r)
         \/ RespondAccepted(u) \/ RespondRefused(u)
  PROVE  NoStray'
<1>1. IsFiniteSet(spent')
  <2>1. spent' \in {spent, spent \cup {u}}
    BY DEF Respond, RespondAccepted, RespondRefused, Return
  <2>. QED
    BY <2>1, FS_AddElement DEF NoStray, FinalsPassOnce
<1>2. spent \subseteq spent' /\ state' = state /\ timer' = timer /\ armed' = armed /\ taken' = taken
  BY DEF Respond, RespondAccepted, RespondRefused, Return
<1>3. OneSpent' => ArmedAsNeeded'
  BY <1>2 DEF NoStray, OneSpent, ArmedAsNeeded, Current
<1>4. FinalsPassOnce'
  <2>1. \A v \in TUs : offer'[v] /= None => v \notin spent'
    BY DEF Respond, RespondAccepted, RespondRefused, Return, NoStray, FinalsPassOnce, TypeOK
  <2>2. \A v \in TUs : Queued(v)' => v \in spent' /\ timer'["H"] /= v /\ ~InHand(v)'
    <3>1. CASE responses' = responses
      BY <1>2, <3>1 DEF NoStray, FinalsPassOnce, Queued, InHand
    <3>2. CASE responses' /= responses
      <4>1. RespondAccepted(u) /\ u \notin spent
        BY <3>2 DEF Respond, RespondAccepted, RespondRefused, NoStray, FinalsPassOnce
      <4>2. responses' = <<[from |-> u, res |-> offer[u]]>>
        BY <4>1 DEF RespondAccepted
      <4>3. ASSUME NEW v \in TUs, Queued(v)' PROVE v = u /\ offer[u] \notin Prov
        BY <4>2, <4>3 DEF Queued
      <4>4. offer[u] \notin Prov => spent' = spent \cup {u}
        BY <4>1 DEF RespondAccepted, Return
      <4>. QED
        BY <1>2, <4>1, <4>3, <4>4 DEF NoStray, FinalsPassOnce, InHand
    <3>. QED
      BY <3>1, <3>2
  <2>. QED
    BY <1>1, <1>2, <2>1, <2>2 DEF NoStray, FinalsPassOnce, InHand
<1>. QED
  BY <1>3, <1>4 DEF NoStray

\* run takes a response out of the channel, drops it, or sends it.  If it is a 3xx-6xx
\* and only its TU is spent, no timer H has been started before.
LEMMA NoStrayRun == TypeOK /\ NoStray /\ RunStep => NoStray'
<1> SUFFICES ASSUME TypeOK, NoStray, RunStep PROVE NoStray'
  OBVIOUS
<1>1. CASE RunTakes
  <2>1. PICK m \in Message : responses = <<m>>
    BY <1>1 DEF RunTakes, TypeOK
  <2>2. taken' = m /\ responses' = <<>>
    BY <1>1, <2>1 DEF RunTakes
  <2>3. \A u \in TUs : ~Queued(u)' /\ (InHand(u)' => Queued(u))
    BY <2>1, <2>2 DEF Queued, InHand
  <2>. QED
    BY <1>1, <2>3 DEF RunTakes, NoStray, FinalsPassOnce, OneSpent, ArmedAsNeeded, Current
<1>2. CASE RunSeesDone
  BY <1>2, NoStrayKept DEF RunSeesDone, NoPart
<1>3. CASE RunTooLate
  <2>1. \A u \in TUs : ~InHand(u)' /\ (Queued(u)' => Queued(u))
    BY <1>3, InviteServerTxAssumption DEF RunTooLate, Queued, InHand
  <2>. QED
    BY <1>3, <2>1 DEF RunTooLate, NoStray, FinalsPassOnce, OneSpent, ArmedAsNeeded, Current
<1>4. CASE RunSends
  <2>1. \A u \in TUs : ~InHand(u)' /\ (Queued(u)' => Queued(u))
    BY <1>4, InviteServerTxAssumption DEF RunSends, Queued, InHand
  <2>2. spent' = spent /\ offer' = offer /\ responses' = responses
    BY <1>4 DEF RunSends
  <2>3. CASE UNCHANGED <<state, timer, armed>>
    BY <2>1, <2>2, <2>3 DEF NoStray, FinalsPassOnce, OneSpent, ArmedAsNeeded, Current
  <2>4. CASE taken.res \in Fail /\ state' = "Completed" /\ StartGH(taken.from)
    <3>1. taken.from \in TUs /\ InHand(taken.from)
      BY <1>4, <2>4, InviteServerTxAssumption DEF RunSends, TypeOK, InHand, Response
    <3>2. timer'["H"] = taken.from
      BY <2>4 DEF StartGH
    <3>3. FinalsPassOnce'
      <4>1. \A u \in TUs : Queued(u)' => timer'["H"] /= u
        BY <2>1, <3>1, <3>2 DEF NoStray, FinalsPassOnce
      <4>. QED
        BY <2>1, <2>2, <2>4, <3>1, <3>2, <4>1 DEF NoStray, FinalsPassOnce
    <3>4. ASSUME OneSpent' PROVE ArmedAsNeeded'
      <4>1. timer["H"] \notin TUs
        BY <2>2, <3>1, <3>4 DEF NoStray, FinalsPassOnce, OneSpent
      <4>2. state \in {"Proceeding", "Terminated"} /\ armed = {}
        BY <2>2, <3>4, <4>1 DEF TypeOK, State, NoStray, FinalsPassOnce, OneSpent, ArmedAsNeeded
      <4>3. armed' \subseteq Current({"G", "H"})'
        BY <2>4, <3>1, <4>2 DEF StartGH, Current, Timer
      <4>. QED
        BY <2>4, <4>3 DEF ArmedAsNeeded
    <3>. QED
      BY <3>3, <3>4 DEF NoStray
  <2>. QED
    BY <1>4, <2>3, <2>4 DEF RunSends, RunGoesOn
<1>. QED
  BY <1>1, <1>2, <1>3, <1>4 DEF RunStep

\* An ACK stops timers G and H and starts timer I, or none.
LEMMA NoStrayReceive ==
  ASSUME TypeOK, NoStray, NEW d \in Dispatchers, ReceiveAck(d) \/ ReceiveInvite(d)
  PROVE  NoStray'
<1>1. CASE ReceiveAck(d)
  <2>1. timer["H"] \in TUs /\ timer'["H"] = timer["H"] /\ state' = "Confirmed"
    BY <1>1 DEF ReceiveAck, TypeOK
  <2>2. FinalsPassOnce'
    BY <1>1, <2>1 DEF ReceiveAck, NoStray, FinalsPassOnce, Queued, InHand
  <2>3. ASSUME OneSpent' PROVE armed' \subseteq Current({"I"})'
    <3>1. armed \subseteq Current({"G", "H"})
      BY <1>1, <2>3 DEF ReceiveAck, NoStray, OneSpent, ArmedAsNeeded
    <3>2. CASE reliable
      BY <1>1, <3>1, <3>2 DEF ReceiveAck
    <3>3. CASE ~reliable
      <4>1. armed' \subseteq {TimerI(timer["H"])}
        BY <1>1, <3>1, <3>3 DEF ReceiveAck
      <4>2. timer'["I"] = timer["H"]
        BY <1>1, <3>3 DEF ReceiveAck, TypeOK
      <4>. QED
        BY <2>1, <4>1, <4>2 DEF Current, TimerI, Timer
    <3>. QED
      BY <3>2, <3>3
  <2>. QED
    BY <2>1, <2>2, <2>3 DEF NoStray, ArmedAsNeeded
<1>2. CASE ReceiveInvite(d)
  BY <1>2, NoStrayKept DEF ReceiveInvite, NoPart
<1>. QED
  BY <1>1, <1>2

\* Timer G starts again in Completed only, and only the one tx.timerG points at.
LEMMA NoStrayTimers ==
  ASSUME TypeOK, NoStray, NEW t \in Timer, Fire(t) \/ Resend(t)
  PROVE  NoStray'
<1>1. CASE Fire(t)
  BY <1>1, NoStrayKept DEF Fire, NoPart
<1>2. CASE Resend(t) /\ armed' \subseteq armed
  BY <1>2, NoStrayKept DEF Resend, NoPart
<1>3. CASE Resend(t) /\ state = "Completed" /\ armed' = armed \cup Current({"G"})
  <2>1. FinalsPassOnce'
    BY <1>3 DEF Resend, NoStray, FinalsPassOnce, Queued, InHand
  <2>2. OneSpent' => ArmedAsNeeded'
    BY <1>3 DEF Resend, NoStray, OneSpent, ArmedAsNeeded, Current
  <2>. QED
    BY <2>1, <2>2 DEF NoStray
<1>. QED
  BY <1>1, <1>2, <1>3 DEF Resend

\* The first call of Terminate stops every timer that runs.
LEMMA NoStrayTerminate ==
  ASSUME TypeOK, NoStray, NEW g \in Goroutine, Terminate(g) \/ CloseDone(g)
  PROVE  NoStray'
<1>1. CASE UNCHANGED <<state, armed>>
  BY <1>1, NoStrayKept DEF Terminate, CloseDone, NoPart
<1>2. CASE state' = "Terminated" /\ armed' = armed \ Current({"G", "H", "I"})
  <2>1. FinalsPassOnce'
    BY <1>2 DEF Terminate, CloseDone, NoStray, FinalsPassOnce, Queued, InHand
  <2>2. ASSUME OneSpent' PROVE armed' = {}
    BY <1>2, <2>2 DEF Terminate, CloseDone, NoStray, OneSpent, ArmedAsNeeded, Current, TypeOK, State
  <2>. QED
    BY <1>2, <2>1, <2>2 DEF NoStray, ArmedAsNeeded
<1>. QED
  BY <1>1, <1>2 DEF Terminate, CloseDone

LEMMA NoStrayNext == TypeOK /\ NoStray /\ [Next]_vars => NoStray'
<1> SUFFICES ASSUME TypeOK, NoStray, [Next]_vars PROVE NoStray'
  OBVIOUS
<1>1. CASE UNCHANGED vars
  BY <1>1, NoStrayKept DEF vars, NoPart
<1>2. CASE Next
  BY <1>2, NoStrayUsers, NoStrayRun, NoStrayReceive, NoStrayTimers, NoStrayTerminate DEF Next
<1>. QED
  BY <1>1, <1>2

LEMMA NoStrayEnough == NoStray => NoStrayTimer
<1> SUFFICES ASSUME NoStray, Cardinality(spent) <= 1 PROVE ArmedAsNeeded
  BY DEF NoStrayTimer, ArmedAsNeeded
<1>1. OneSpent
  <2> SUFFICES ASSUME NEW u \in spent, NEW v \in spent, u /= v PROVE FALSE
    BY DEF OneSpent
  <2>1. IsFiniteSet(spent) /\ IsFiniteSet(spent \ {u})
    BY FS_RemoveElement DEF NoStray, FinalsPassOnce
  <2>2. Cardinality(spent) \in Nat /\ Cardinality(spent \ {u}) = Cardinality(spent) - 1
    BY <2>1, FS_CardinalityType, FS_RemoveElement
  <2>3. Cardinality(spent \ {u}) = 0
    BY <2>1, <2>2, FS_CardinalityType
  <2>. QED
    BY <2>1, <2>3, FS_EmptySet
<1>. QED
  BY <1>1 DEF NoStray

\* Whatever users, dispatchers and late callbacks do, the timer that ends the transaction
\* is never missing, and no timer is left over after one final response.
THEOREM TimersRight == Safety => []TimersMatchState
<1>1. Safety => []NoStray
  BY TypeCorrect, NoStrayInit, NoStrayNext, PTL DEF Safety
<1>2. NoStray /\ EndIsComing => TimersMatchState
  BY NoStrayEnough DEF TimersMatchState
<1>. QED
  BY <1>1, <1>2, EndComes, PTL

-----------------------------------------------------------------------------
(***************************************************************************)
(* The transaction implements ServerTransaction: what its user is promised *)
(* holds step by step.  (That Done() follows termination in time is        *)
(* fairness, and TLC's.)                                                   *)
(***************************************************************************)
phase == IF done THEN "done" ELSE IF state = "Terminated" THEN "terminated" ELSE "live"
first == IF taken = NoMessage THEN <<>> ELSE <<taken.res>>
second == IF responses = <<>> THEN <<>> ELSE <<responses[1].res>>

\* What run has in its hands comes before what is in the channel.
LEMMA Concatenations ==
  ASSUME NEW a, NEW b
  PROVE  /\ <<>> \o <<>> = <<>> /\ <<a>> \o <<>> = <<a>> /\ <<>> \o <<b>> = <<b>>
         /\ <<a>> \o <<b>> = <<a, b>> /\ Append(<<a>>, b) = <<a, b>>
<1>1. /\ <<a>> \in Seq({a, b}) /\ <<b>> \in Seq({a, b}) /\ <<a, b>> \in Seq({a, b})
      /\ Len(<<a, b>>) = 2
  OBVIOUS
<1>2. <<a>> \o <<b>> \in Seq({a, b}) /\ Len(<<a>> \o <<b>>) = 2
  BY <1>1, ConcatProperties
<1>3. \A i \in 1 .. 2 : (<<a>> \o <<b>>)[i] = <<a, b>>[i]
  BY <1>1, ConcatProperties
<1>4. <<a>> \o <<b>> = <<a, b>>
  BY <1>1, <1>2, <1>3, SeqEqual
<1>5. Append(<<a>>, b) = <<a>> \o <<b>>
  BY <1>1, AppendIsConcat
<1>6. <<>> \o <<>> = <<>> /\ <<a>> \o <<>> = <<a>> /\ <<>> \o <<b>> = <<b>>
  OBVIOUS
<1>. QED
  BY <1>4, <1>5, <1>6

LEMMA ContractInit == Init => Contract!Init
BY Concatenations DEF Init, Contract!Init

\* A response that is accepted is the last in line.
LEMMA ContractAccept ==
  ASSUME TypeOK, NEW u \in TUs, RespondAccepted(u)
  PROVE  Contract!Next
<1>1. offer[u] \in Response /\ responses = <<>> /\ responses' = <<[from |-> u, res |-> offer[u]]>>
  BY DEF RespondAccepted, TypeOK
<1>2. phase' = phase /\ first' = first /\ second = <<>> /\ second' = <<offer[u]>>
  BY <1>1 DEF RespondAccepted, phase, first, second
<1>3. Contract!Accept(offer[u])
  BY <1>1, <1>2, Concatenations DEF RespondAccepted, phase, first, second, Contract!Accept
<1>. QED
  BY <1>1, <1>3 DEF Contract!Next

\* run takes a response, drops it once the transaction is terminated, or transmits it.
LEMMA ContractRun ==
  ASSUME TypeOK, Closing, RunStep
  PROVE  [Contract!Next]_Contract!vars
<1> USE GoroutineNames
<1>1. CASE RunTakes
  <2>1. PICK m \in Message : responses = <<m>>
    BY <1>1 DEF RunTakes, TypeOK
  <2>2. taken = NoMessage /\ taken' = m /\ responses' = <<>> /\ m /= NoMessage
    BY <1>1, <2>1, InviteServerTxAssumption DEF RunTakes, TypeOK
  <2>3. first = <<>> /\ second = <<m.res>> /\ first' = <<m.res>> /\ second' = <<>>
    BY <2>1, <2>2 DEF first, second
  <2>4. first \o second = first' \o second'
    BY <2>3, Concatenations
  <2>. QED
    BY <1>1, <2>4 DEF RunTakes, Contract!vars, first, second
<1>2. CASE RunSeesDone
  BY <1>2 DEF RunSeesDone, Contract!vars
<1>3. CASE RunTooLate \/ RunSends
  <2>1. taken \in Message /\ taken /= NoMessage /\ taken' = NoMessage /\ responses' = responses
    BY <1>3, InviteServerTxAssumption DEF RunTooLate, RunSends, TypeOK
  <2>2. first = <<taken.res>> /\ first' = <<>> /\ second' = second
    BY <2>1 DEF first, second
  <2>3. second = <<>> \/ \E b : second = <<b>>
    BY DEF second
  <2>4. /\ first \o second /= <<>> /\ Head(first \o second) = taken.res
        /\ first' \o second' = Tail(first \o second)
    <3>1. CASE second = <<>>
      <4>1. first \o second = <<taken.res>> /\ first' \o second' = <<>>
        BY <2>2, <3>1, Concatenations
      <4>. QED
        BY <4>1
    <3>2. ASSUME NEW b, second = <<b>>
          PROVE  <2>4
      <4>1. first \o second = <<taken.res, b>> /\ first' \o second' = <<b>>
        BY <2>2, <3>2, Concatenations
      <4>. QED
        BY <4>1
    <3>. QED
      BY <2>3, <3>1, <3>2
  <2>5. CASE RunTooLate
    <3>1. phase /= "live" /\ phase' = phase /\ lastResponse' = lastResponse
      BY <2>5 DEF RunTooLate, phase
    <3>2. Contract!Discard
      BY <2>4, <3>1 DEF Contract!Discard, phase, first, second
    <3>. QED
      BY <3>2 DEF Contract!Next
  <2>6. CASE RunSends
    <3>1. phase = "live" /\ phase' = phase /\ lastResponse' = taken.res
      BY <2>6 DEF RunSends, RunGoesOn, phase, Closing, TerminatedHasCloser
    <3>2. Contract!Transmit
      BY <2>4, <3>1 DEF Contract!Transmit, phase, first, second
    <3>. QED
      BY <3>2 DEF Contract!Next
  <2>. QED
    BY <1>3, <2>5, <2>6
<1>. QED
  BY <1>1, <1>2, <1>3 DEF RunStep

\* The two steps of Terminate are the two of the contract.
LEMMA ContractTerminate ==
  ASSUME TypeOK, Closing, NEW g \in Goroutine, Terminate(g) \/ CloseDone(g)
  PROVE  [Contract!Next]_Contract!vars
<1>1. UNCHANGED <<taken, responses, lastResponse>>
  BY DEF Terminate, CloseDone
<1>2. first' \o second' = first \o second
  BY <1>1 DEF first, second
<1>3. CASE Terminate(g) /\ state /= "Terminated"
  <2>1. phase = "live" /\ phase' = "terminated"
    BY <1>3 DEF Terminate, phase, Closing, TerminatedHasCloser
  <2>2. Contract!Stop
    BY <1>1, <1>2, <2>1 DEF Contract!Stop, phase, first, second
  <2>. QED
    BY <2>2 DEF Contract!Next
<1>4. CASE Terminate(g) /\ state = "Terminated"
  BY <1>1, <1>2, <1>4 DEF Terminate, Contract!vars, first, second
<1>5. CASE CloseDone(g)
  <2>1. phase = "terminated" /\ phase' = "done"
    BY <1>5 DEF CloseDone, phase, Closing, DoneClosedOnce, TerminatedHasCloser
  <2>2. Contract!Close
    BY <1>1, <1>2, <2>1 DEF Contract!Close, phase, first, second
  <2>. QED
    BY <2>2 DEF Contract!Next
<1>. QED
  BY <1>3, <1>4, <1>5

LEMMA ContractNext ==
  ASSUME TypeOK, Closing, [Next]_vars
  PROVE  [Contract!Next]_Contract!vars
<1>1. CASE UNCHANGED vars
  BY <1>1 DEF vars, Contract!vars
<1>2. ASSUME NEW u \in TUs, (\E r \in Response : Respond(u, r)) \/ RespondRefused(u)
      PROVE  UNCHANGED Contract!vars
  BY <1>2 DEF Respond, RespondRefused, Contract!vars
<1>3. ASSUME NEW d \in Dispatchers, ReceiveAck(d) \/ ReceiveInvite(d)
      PROVE  UNCHANGED Contract!vars
  BY <1>3 DEF ReceiveAck, ReceiveInvite, Contract!vars
<1>4. ASSUME NEW t \in Timer, Fire(t) \/ Resend(t)
      PROVE  UNCHANGED Contract!vars
  BY <1>4 DEF Fire, Resend, Contract!vars
<1>. QED
  BY <1>1, <1>2, <1>3, <1>4, ContractAccept, ContractRun, ContractTerminate DEF Next

\* Every step of the transaction is one its user may rely on, or none to the user:
\* responses leave in order and once, none after the end, and Done() is closed once,
\* after it.
THEOREM ImplementsContract == Safety => Contract!Safety
BY TypeCorrect, ClosingInvariant, ContractInit, ContractNext, PTL DEF Safety, Contract!Safety
=============================================================================
