--------------------------- MODULE InviteClientTx ---------------------------
(***************************************************************************)
(* The INVITE client transaction of                                        *)
(* internal/sip/transaction_invite_client.go: the run goroutine, the       *)
(* goroutines that dispatch received responses, the callbacks of timers A, *)
(* B and D, and the two goroutines of b2bua.go that use it: the TU, which  *)
(* reads Responses() until it has a final response or gives up, and the    *)
(* canceller, which only calls Terminate.                                  *)
(*                                                                         *)
(* Locking is modelled as in InviteServerTx: a critical section is one     *)
(* step enabled while mu = None, and mu names a goroutine that will never  *)
(* unlock because it waits, inside its critical section, for a reader or   *)
(* for tx.mu itself.                                                       *)
(***************************************************************************)
EXTENDS Naturals, Sequences, FiniteSets

CONSTANTS Dispatchers,    \* goroutines that pass received responses to ReceiveResponse
          Prov, Ok, Fail, \* 1xx, 2xx and 3xx-6xx responses of the callee
          Timeout,        \* the 408 that timer B makes up
          Unavailable,    \* the 503 that a failed write makes up
          WriteMayFail,   \* transport.Write may return an error
          MaxResend,      \* bound: retransmissions of the INVITE (6 fit before timer B)
          None

Received == Prov \cup Ok \cup Fail
Response == Received \cup {Timeout, Unavailable}
Final == Response \ Prov

Run == <<"run", None>>
TU == <<"tu", None>>
Canceller == <<"cancel", None>>
TimerA == <<"A", None>>
TimerB == <<"B", None>>
TimerD == <<"D", None>>
Timer == {TimerA, TimerB, TimerD}
Dispatch(d) == <<"dispatch", d>>
Goroutine == {Run, TU, Canceller} \cup Timer \cup ({"dispatch"} \X Dispatchers)

ASSUME InviteClientTxAssumption ==
  /\ Prov \cap Ok = {} /\ Prov \cap Fail = {} /\ Ok \cap Fail = {}
  /\ Timeout \notin Received /\ Unavailable \notin Received
  /\ WriteMayFail \in BOOLEAN
  /\ MaxResend \in Nat
  /\ None \notin Response \cup Goroutine

State == {"Calling", "Proceeding", "Completed", "Terminated"}

VARIABLES
  reliable,      \* isReliable(transport.GetProto())
  state,         \* tx.state
  mu,            \* the goroutine that holds tx.mu for ever, or None
  lastResponse,  \* tx.lastResponse
  responses,     \* the channel tx.responses, of capacity 1
  done,          \* tx.done is closed
  armed,         \* the timers that run
  pc,            \* where each goroutine is
  invites,       \* how often the INVITE was written
  acked,         \* the final responses an ACK was written for
  answer,        \* the final response the TU read, or None
  early,         \* timer D was started before timer B, and so expires before it
  lost           \* a rejection found the channel full

rejection == <<early, lost>>
vars == <<reliable, state, mu, lastResponse, responses, done, armed, pc, invites, acked,
          answer, rejection>>

\* NewInviteClientTx, its run goroutine about to send the INVITE.
Init == /\ reliable \in BOOLEAN
        /\ state = "Calling"
        /\ mu = None
        /\ lastResponse = None
        /\ responses = <<>>
        /\ done = FALSE
        /\ armed = {}
        /\ pc = [g \in Goroutine |->
                   IF g = Run THEN "send" ELSE IF g = TU THEN "read" ELSE "idle"]
        /\ invites = 0
        /\ acked = {}
        /\ answer = None
        /\ early = FALSE /\ lost = FALSE

-----------------------------------------------------------------------------
GoTo(g, l) == pc' = [pc EXCEPT ![g] = l]

\* Where a goroutine goes once its call of Terminate has returned: run goes on to
\* start its timers after a failed write, the others are through.
After(g) == IF g = Run THEN "startB" ELSE IF g \in {TU, Canceller} THEN "ended" ELSE "idle"

\* sendResponseToTU: never blocks, a response that finds the channel full is lost.
Deliver(r) == responses' = IF responses = <<>> THEN <<r>> ELSE responses

-----------------------------------------------------------------------------
(* run and sendRequest *)

\* The INVITE leaves, without the lock and whatever the state is by now.
RunSends == /\ pc[Run] = "send"
            /\ \/ GoTo(Run, "startB") /\ invites' = invites + 1
               \/ WriteMayFail /\ GoTo(Run, "push503") /\ UNCHANGED invites
            /\ UNCHANGED <<state, mu, lastResponse, responses, done, armed, acked,
                           answer, reliable, rejection>>

RunStartsB == /\ pc[Run] = "startB"
              /\ armed' = armed \cup {TimerB}
              /\ GoTo(Run, "startA")
              /\ UNCHANGED <<state, mu, lastResponse, responses, done, invites, acked,
                             answer, reliable, rejection>>

RunStartsA == /\ pc[Run] = "startA"
              /\ armed' = IF reliable THEN armed ELSE armed \cup {TimerA}
              /\ GoTo(Run, "wait")
              /\ UNCHANGED <<state, mu, lastResponse, responses, done, invites, acked,
                             answer, reliable, rejection>>

\* <-tx.done; the deferred Terminate finds the state already Terminated.
RunEnds == /\ pc[Run] = "wait" /\ done
           /\ GoTo(Run, "ended")
           /\ UNCHANGED <<state, mu, lastResponse, responses, done, armed, invites,
                          acked, answer, reliable, rejection>>

\* tx.responses <- 503 of a failed write (run, timer A), tx.responses <- 408 of timer B:
\* blocks while the channel is full, then calls Terminate.  Timer A holds the lock here,
\* and so waits for itself next.
Push(g, l, r, next) == /\ pc[g] = l
                       /\ responses = <<>>
                       /\ responses' = <<r>>
                       /\ GoTo(g, next)
                       /\ UNCHANGED <<state, mu, lastResponse, done, armed, invites,
                                      acked, answer, reliable, rejection>>

\* Mutant: timer B reports the timeout and leaves the transaction as it is.
PushTimeoutOnly == Push(TimerB, "push408", Timeout, "idle")

PushUnavailable == \/ Push(Run, "push503", Unavailable, "terminate")
                   \/ Push(TimerA, "push503", Unavailable, "wedged")
PushTimeout == Push(TimerB, "push408", Timeout, "terminate")

-----------------------------------------------------------------------------
(* The timers *)

\* A timer expires: its callback is a goroutine that Stop no longer reaches.  Timers B
\* and D both last 32 s, so that D expires first only if it was started first.
Fire(t) == /\ t \in armed /\ pc[t] = "idle"
           /\ t = TimerA => invites <= MaxResend
           /\ t = TimerD /\ ~early => TimerB \notin armed
           /\ armed' = armed \ {t}
           /\ GoTo(t, IF t = TimerA THEN "resend"
                      ELSE IF t = TimerB THEN "push408" ELSE "terminate")
           /\ UNCHANGED <<state, mu, lastResponse, responses, done, invites, acked,
                          answer, reliable, rejection>>

\* Mutant: timer A stops retransmitting only when the transaction is over.
ResendInviteLate == /\ pc[TimerA] = "resend" /\ mu = None
                    /\ state /= "Terminated"
                    /\ invites' = invites + 1
                    /\ armed' = armed \cup {TimerA}
                    /\ GoTo(TimerA, "idle")
                    /\ UNCHANGED <<mu, state, lastResponse, responses, done, acked,
                                   answer, reliable, rejection>>

\* The callback of timer A: only in Calling the INVITE leaves again and A restarts.
ResendInvite ==
  /\ pc[TimerA] = "resend" /\ mu = None
  /\ \/ /\ state = "Calling"
        /\ invites' = invites + 1
        /\ armed' = armed \cup {TimerA}
        /\ GoTo(TimerA, "idle")
        /\ UNCHANGED mu
     \/ /\ state = "Calling" /\ WriteMayFail
        /\ mu' = TimerA
        /\ GoTo(TimerA, "push503")
        /\ UNCHANGED <<invites, armed>>
     \/ /\ state /= "Calling"
        /\ GoTo(TimerA, "idle")
        /\ UNCHANGED <<mu, invites, armed>>
  /\ UNCHANGED <<state, lastResponse, responses, done, acked, answer, reliable, rejection>>

-----------------------------------------------------------------------------
(* ReceiveResponse *)

\* The callee answers an INVITE it has got.
Receives(d, r) == /\ pc[Dispatch(d)] = "idle" /\ mu = None
                  /\ invites > 0
                  /\ lastResponse' = r
                  /\ UNCHANGED <<done, invites, answer, reliable>>

\* Too late for the transaction, but not for lastResponse.
ReceiveLate(d, r) == /\ Receives(d, r)
                     /\ state = "Terminated" \/ (state = "Completed" /\ r \in Ok)
                     /\ UNCHANGED <<state, mu, responses, armed, pc, acked, rejection>>

\* Mutant: a 1xx stops timer B as well.
ReceiveProvStopsB(d, r) == /\ Receives(d, r)
                           /\ r \in Prov /\ state /= "Terminated"
                           /\ state' = IF state = "Calling" THEN "Proceeding" ELSE state
                           /\ armed' = armed \ {TimerA, TimerB}
                           /\ Deliver(r)
                           /\ UNCHANGED <<mu, pc, acked, rejection>>

\* Mutant: a 1xx is passed on in every state.
ReceiveProvLate(d, r) == /\ Receives(d, r)
                         /\ r \in Prov
                         /\ Deliver(r)
                         /\ UNCHANGED <<mu, state, armed, pc, acked, rejection>>

ReceiveProv(d, r) == /\ Receives(d, r)
                     /\ r \in Prov /\ state /= "Terminated"
                     /\ IF state = "Calling"
                        THEN state' = "Proceeding" /\ armed' = armed \ {TimerA}
                        ELSE UNCHANGED <<state, armed>>
                     /\ Deliver(r)
                     /\ UNCHANGED <<mu, pc, acked, rejection>>

\* A 2xx: the state is set to Terminated here, so that the call of Terminate that
\* follows finds nothing left to do.
ReceiveOk(d, r) == /\ Receives(d, r)
                   /\ r \in Ok /\ state \in {"Calling", "Proceeding"}
                   /\ state' = "Terminated"
                   /\ Deliver(r)
                   /\ GoTo(Dispatch(d), "terminate")
                   /\ UNCHANGED <<mu, armed, acked, rejection>>

\* sendAck: the ACK leaves and the rest follows, or d waits for itself in Terminate.
SendAck(d, r) == acked' = acked \cup {r} /\ UNCHANGED mu
AckFails(d) == /\ WriteMayFail
               /\ mu' = Dispatch(d)
               /\ GoTo(Dispatch(d), "wedged")
               /\ UNCHANGED <<acked, armed>>

\* Run may not have got to timer B yet, although the callee has answered.
StartD == armed' = armed \cup {TimerD} /\ early' = (pc[Run] = "startB")

ReceiveFail(d, r) ==
  /\ Receives(d, r)
  /\ r \in Fail /\ state \in {"Calling", "Proceeding"}
  /\ state' = "Completed"
  /\ Deliver(r) /\ lost' = (responses /= <<>>)
  /\ \/ /\ SendAck(d, r)
        /\ IF reliable
           THEN GoTo(Dispatch(d), "terminate") /\ UNCHANGED <<armed, early>>
           ELSE StartD /\ UNCHANGED pc
     \/ AckFails(d) /\ UNCHANGED early

\* A retransmitted final response is acknowledged again.
ReceiveFailAgain(d, r) ==
  /\ Receives(d, r)
  /\ r \in Fail /\ state = "Completed"
  /\ \/ SendAck(d, r) /\ UNCHANGED <<armed, pc>>
     \/ AckFails(d)
  /\ UNCHANGED <<state, responses, rejection>>

ReceiveResponse(d, r) == \/ ReceiveLate(d, r) \/ ReceiveProv(d, r) \/ ReceiveOk(d, r)
                         \/ ReceiveFail(d, r) \/ ReceiveFailAgain(d, r)

-----------------------------------------------------------------------------
(* The users of the transaction *)

\* mediate reads Responses(), until a final response.
TUReads == /\ pc[TU] = "read"
           /\ responses /= <<>>
           /\ responses' = Tail(responses)
           /\ IF Head(responses) \in Final
              THEN answer' = Head(responses) /\ GoTo(TU, "ended")
              ELSE UNCHANGED <<answer, pc>>
           /\ UNCHANGED <<state, mu, lastResponse, done, armed, invites, acked, reliable,
                           rejection>>

\* mediate gives up (the caller's leg ended, or its own timeout) and terminates us; Cancel
\* terminates us.  Both look at Done() first.
Abandon(g) == /\ \/ g = TU /\ pc[g] = "read"
                 \/ g = Canceller /\ pc[g] = "idle" /\ ~done
              /\ GoTo(g, IF done THEN "ended" ELSE "terminate")
              /\ UNCHANGED <<state, mu, lastResponse, responses, done, armed, invites,
                             acked, answer, reliable, rejection>>

-----------------------------------------------------------------------------
(* Terminate, called by g without the lock *)

\* Mutant: no early return for a terminated transaction.
TerminateAgain(g) == /\ pc[g] = "terminate" /\ mu = None
                     /\ state' = "Terminated" /\ armed' = {} /\ GoTo(g, "close")
                     /\ UNCHANGED <<mu, lastResponse, responses, done, invites, acked,
                                    answer, reliable, rejection>>

Terminate(g) == /\ pc[g] = "terminate" /\ mu = None
                /\ IF state = "Terminated"
                   THEN GoTo(g, After(g)) /\ UNCHANGED <<state, armed>>
                   ELSE /\ state' = "Terminated"
                        /\ armed' = {}
                        /\ GoTo(g, "close")
                /\ UNCHANGED <<mu, lastResponse, responses, done, invites, acked,
                               answer, reliable, rejection>>

CloseDone(g) == /\ pc[g] = "close"
                /\ done' = TRUE
                /\ GoTo(g, After(g))
                /\ UNCHANGED <<state, mu, lastResponse, responses, armed, invites,
                               acked, answer, reliable, rejection>>

-----------------------------------------------------------------------------
RunStep == RunSends \/ RunStartsB \/ RunStartsA \/ RunEnds

Next == \/ RunStep \/ PushUnavailable \/ PushTimeout
        \/ \E t \in Timer : Fire(t)
        \/ ResendInvite
        \/ \E d \in Dispatchers, r \in Received : ReceiveResponse(d, r)
        \/ TUReads \/ Abandon(TU) \/ Abandon(Canceller)
        \/ \E g \in Goroutine : Terminate(g) \/ CloseDone(g)

\* Goroutines that can run do run, timers expire, the TU reads what is there, and a
\* sender blocked on the channel is served in turn.  Nobody is obliged to answer the
\* INVITE, to cancel it or to give up on it.
Fairness == /\ WF_vars(RunStep) /\ WF_vars(ResendInvite) /\ WF_vars(TUReads)
            /\ SF_vars(PushUnavailable) /\ SF_vars(PushTimeout)
            /\ \A t \in Timer : WF_vars(Fire(t))
            /\ \A g \in Goroutine : WF_vars(Terminate(g)) /\ WF_vars(CloseDone(g))

Safety == Init /\ [][Next]_vars
Spec == Safety /\ Fairness
=============================================================================
