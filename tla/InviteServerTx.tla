--------------------------- MODULE InviteServerTx ---------------------------
(***************************************************************************)
(* The INVITE server transaction of                                        *)
(* internal/sip/transaction_invite_server.go: one state machine driven by  *)
(* the run goroutine, the goroutines that dispatch received requests, the  *)
(* callbacks of timers G, H and I, and the transaction users that respond. *)
(*                                                                         *)
(* tx.mu is a mutex.  A critical section that leaves the lock free again   *)
(* is one atomic step, enabled while mu = None; what the code does outside *)
(* the lock (calling Terminate after unlocking, closing Done() after       *)
(* unlocking) is a step of its own.  A Write that fails inside a critical  *)
(* section calls Terminate, which locks tx.mu again: the goroutine then    *)
(* waits for itself and the lock is held for ever.                         *)
(*                                                                         *)
(* Timers are untimed: an armed timer may fire at any moment.  A timer is  *)
(* named after the TU whose final response started it, since each TU sends *)
(* one final response at most; the fields tx.timerG, timerH and timerI     *)
(* point at the timer that Stop and Reset act on, and a timer that a field *)
(* no longer points at keeps running.                                      *)
(***************************************************************************)
EXTENDS Naturals, Sequences, FiniteSets

CONSTANTS TUs,          \* transaction users, each ends with its final response
          Dispatchers,  \* goroutines that pass received requests to Receive
          Prov, Ok, Fail, \* 1xx, 2xx and 3xx-6xx responses
          Offers,       \* Offers[u]: the responses that u may send
          WriteMayFail, \* transport.Write may return an error
          None

Response == Prov \cup Ok \cup Fail

ASSUME InviteServerTxAssumption ==
  /\ Prov \cap (Ok \cup Fail) = {} /\ Ok \cap Fail = {}
  /\ Offers \in [TUs -> SUBSET Response]
  /\ WriteMayFail \in BOOLEAN
  /\ None \notin Response \cup TUs

Run == <<"run", None>>
Dispatch(d) == <<"dispatch", d>>
TimerG(u) == <<"G", u>>
TimerH(u) == <<"H", u>>
TimerI(u) == <<"I", u>>
Timer == {"G", "H", "I"} \X TUs
Goroutine == {Run} \cup ({"dispatch"} \X Dispatchers) \cup Timer

State == {"Proceeding", "Completed", "Confirmed", "Terminated"}

VARIABLES
  reliable,      \* isReliable(transport.GetProto())
  state,         \* tx.state
  mu,            \* the goroutine that holds tx.mu for ever, or None
  lastResponse,  \* tx.lastResponse
  responses,     \* the channel tx.responses, of capacity 1
  done,          \* tx.done is closed
  timer,         \* the fields timerG, timerH, timerI: the TU of the timer, or None
  armed,         \* the timers that run
  pc,            \* where each goroutine of the transaction is
  taken,         \* the response run has received and not handled yet
  offer,         \* the response a TU is blocked on in Respond, or None
  spent,         \* the TUs that have sent their final response
  wire           \* the responses written to the transport

vars == <<reliable, state, mu, lastResponse, responses, done, timer, armed, pc, taken,
          offer, spent, wire>>

Message == [from : TUs, res : Response]
NoMessage == [from |-> None, res |-> None]

\* NewInviteServerTx: its 100 Trying is written before run starts, without the lock,
\* so that a write error terminates the transaction before anyone holds it.
Init == /\ reliable \in BOOLEAN
        /\ \/ state = "Proceeding" /\ done = FALSE
           \/ WriteMayFail /\ state = "Terminated" /\ done = TRUE
        /\ mu = None
        /\ lastResponse = None
        /\ responses = <<>>
        /\ timer = [k \in {"G", "H", "I"} |-> None]
        /\ armed = {}
        /\ pc = [g \in Goroutine |-> IF g = Run THEN "select" ELSE "idle"]
        /\ taken = NoMessage
        /\ offer = [u \in TUs |-> None]
        /\ spent = {}
        /\ wire = {}

-----------------------------------------------------------------------------
\* The timers that the fields of the kinds ks point at.
Current(ks) == {t \in Timer : t[1] \in ks /\ timer[t[1]] = t[2]}

\* Where a goroutine goes once its call of Terminate has returned.
After(g) == IF g = Run THEN "ended" ELSE "idle"

\* tx.send under the lock: the write succeeds, or g waits for itself in Terminate.
Written(res) == mu' = None /\ wire' = wire \cup {res}
WriteFails(g) == /\ WriteMayFail
                 /\ mu' = g
                 /\ pc' = [pc EXCEPT ![g] = "wedged"]
                 /\ UNCHANGED wire

-----------------------------------------------------------------------------
(* The transaction users *)

\* A TU calls Respond with r.
Respond(u, r) == /\ u \notin spent
                 /\ offer[u] = None
                 /\ r \in Offers[u]
                 /\ offer' = [offer EXCEPT ![u] = r]
                 /\ UNCHANGED <<state, mu, lastResponse, responses, done, timer,
                                armed, pc, taken, spent, wire, reliable>>

Return(u) == /\ offer' = [offer EXCEPT ![u] = None]
             /\ spent' = IF offer[u] \in Prov THEN spent ELSE spent \cup {u}

\* Respond returns nil: the response is in the channel.
RespondAccepted(u) == /\ offer[u] /= None
                      /\ responses = <<>>
                      /\ responses' = <<[from |-> u, res |-> offer[u]]>>
                      /\ Return(u)
                      /\ UNCHANGED <<state, mu, lastResponse, done, timer, armed,
                                     pc, taken, wire, reliable>>

\* Mutant: Respond does not look at Done().
RespondBlocks(u) == FALSE

\* Respond returns an error: Done() is closed.
RespondRefused(u) == /\ offer[u] /= None
                     /\ done
                     /\ Return(u)
                     /\ UNCHANGED <<state, mu, lastResponse, responses, done, timer,
                                    armed, pc, taken, wire, reliable>>

-----------------------------------------------------------------------------
(* The run goroutine *)

RunTakes == /\ pc[Run] = "select"
            /\ responses /= <<>>
            /\ taken' = Head(responses)
            /\ responses' = <<>>
            /\ pc' = [pc EXCEPT ![Run] = "took"]
            /\ UNCHANGED <<state, mu, lastResponse, done, timer, armed, offer,
                           spent, wire, reliable>>

\* run sees Done() and returns, by its deferred Terminate.
RunSeesDone == /\ pc[Run] = "select"
               /\ done
               /\ pc' = [pc EXCEPT ![Run] = "terminate"]
               /\ UNCHANGED <<state, mu, lastResponse, responses, done, timer,
                              armed, taken, offer, spent, wire, reliable>>

\* The response came too late: run returns, the response is lost.
RunTooLate == /\ pc[Run] = "took" /\ mu = None
              /\ state = "Terminated"
              /\ pc' = [pc EXCEPT ![Run] = "terminate"]
              /\ taken' = NoMessage
              /\ UNCHANGED <<state, mu, lastResponse, responses, done, timer,
                             armed, offer, spent, wire, reliable>>

\* Mutant: timer H is started only if there is none yet.
StartGHOnce(u) == LET ks == IF timer["H"] = None THEN {"G", "H"} ELSE {"G"} IN
                  /\ timer' = [k \in {"G", "H", "I"} |-> IF k \in ks THEN u ELSE timer[k]]
                  /\ armed' = armed \cup (ks \X {u})

\* A 3xx-6xx starts a new timer H and, on an unreliable transport, a new timer G.
StartGH(u) == LET ks == IF reliable THEN {"H"} ELSE {"G", "H"} IN
              /\ timer' = [k \in {"G", "H", "I"} |-> IF k \in ks THEN u ELSE timer[k]]
              /\ armed' = armed \cup (ks \X {u})

\* Mutant: the 2xx sets the state itself, before it calls Terminate.
RunGoesOnPreset == \/ /\ taken.res \in Prov
                      /\ pc' = [pc EXCEPT ![Run] = "select"]
                      /\ UNCHANGED <<state, timer, armed>>
                   \/ /\ taken.res \in Ok
                      /\ state' = "Terminated"
                      /\ pc' = [pc EXCEPT ![Run] = "terminate"]
                      /\ UNCHANGED <<timer, armed>>

\* What follows a response that was sent: nothing after a 1xx; unlock and Terminate
\* after a 2xx; Completed, from whatever state, after a 3xx-6xx.
RunGoesOn == \/ /\ taken.res \in Prov
                /\ pc' = [pc EXCEPT ![Run] = "select"]
                /\ UNCHANGED <<state, timer, armed>>
             \/ /\ taken.res \in Ok
                /\ pc' = [pc EXCEPT ![Run] = "terminate"]
                /\ UNCHANGED <<state, timer, armed>>
             \/ /\ taken.res \in Fail
                /\ state' = "Completed"
                /\ StartGH(taken.from)
                /\ pc' = [pc EXCEPT ![Run] = "select"]

\* Mutant: no look at the state after the response was taken.
RunSendsLate == /\ pc[Run] = "took" /\ mu = None
                /\ lastResponse' = taken.res
                /\ taken' = NoMessage
                /\ Written(taken.res) /\ RunGoesOn
                /\ UNCHANGED <<responses, done, offer, spent, reliable>>

\* tx.lastResponse = res; tx.send(res).
RunSends == /\ pc[Run] = "took" /\ mu = None
            /\ state /= "Terminated"
            /\ lastResponse' = taken.res
            /\ taken' = NoMessage
            /\ \/ Written(taken.res) /\ RunGoesOn
               \/ WriteFails(Run) /\ UNCHANGED <<state, timer, armed>>
            /\ UNCHANGED <<responses, done, offer, spent, reliable>>

-----------------------------------------------------------------------------
(* Receive *)

\* An ACK in Completed: Confirmed, timers G and H stop; then timer I, or on a
\* reliable transport unlock and Terminate.
ReceiveAck(d) == LET g == Dispatch(d) IN
  /\ pc[g] = "idle" /\ mu = None
  /\ state = "Completed"
  /\ state' = "Confirmed"
  /\ IF reliable
     THEN /\ armed' = armed \ Current({"G", "H"})
          /\ pc' = [pc EXCEPT ![g] = "terminate"]
          /\ UNCHANGED timer
     ELSE /\ armed' = (armed \ Current({"G", "H"})) \cup {TimerI(timer["H"])}
          /\ timer' = [timer EXCEPT !["I"] = timer["H"]]
          /\ UNCHANGED pc
  /\ UNCHANGED <<mu, lastResponse, responses, done, taken, offer, spent, wire, reliable>>

\* A retransmitted INVITE is answered with the last response.
ReceiveInvite(d) == LET g == Dispatch(d) IN
  /\ pc[g] = "idle" /\ mu = None
  /\ state \in {"Proceeding", "Completed"}
  /\ lastResponse /= None
  /\ \/ Written(lastResponse) /\ UNCHANGED pc
     \/ WriteFails(g)
  /\ UNCHANGED <<state, lastResponse, responses, done, timer, armed, taken,
                 offer, spent, reliable>>

-----------------------------------------------------------------------------
(* The timers *)

\* A timer expires: its callback is a goroutine that Stop no longer reaches.
Fire(t) == /\ t \in armed /\ pc[t] = "idle"
           /\ armed' = armed \ {t}
           /\ pc' = [pc EXCEPT ![t] = IF t[1] = "G" THEN "resend" ELSE "terminate"]
           /\ UNCHANGED <<state, mu, lastResponse, responses, done, timer, taken,
                          offer, spent, wire, reliable>>

\* The callback of timer G; Reset acts on the timer the field points at now.
Resend(t) == /\ pc[t] = "resend" /\ mu = None
             /\ IF state = "Completed"
                THEN \/ /\ Written(lastResponse)
                        /\ armed' = armed \cup Current({"G"})
                        /\ pc' = [pc EXCEPT ![t] = "idle"]
                     \/ WriteFails(t) /\ UNCHANGED armed
                ELSE /\ pc' = [pc EXCEPT ![t] = "idle"]
                     /\ UNCHANGED <<mu, wire, armed>>
             /\ UNCHANGED <<state, lastResponse, responses, done, timer, taken,
                            offer, spent, reliable>>

-----------------------------------------------------------------------------
(* Terminate, called by g without the lock *)

\* Mutant: no early return for a terminated transaction.
TerminateAgain(g) == /\ pc[g] = "terminate" /\ mu = None
                     /\ state' = "Terminated"
                     /\ armed' = armed \ Current({"G", "H", "I"})
                     /\ pc' = [pc EXCEPT ![g] = "close"]
                     /\ UNCHANGED <<mu, lastResponse, responses, done, timer, taken,
                                    offer, spent, wire, reliable>>

\* The critical section: the first caller goes on to close Done(), others return.
Terminate(g) == /\ pc[g] = "terminate" /\ mu = None
                /\ IF state = "Terminated"
                   THEN /\ pc' = [pc EXCEPT ![g] = After(g)]
                        /\ UNCHANGED <<state, armed>>
                   ELSE /\ state' = "Terminated"
                        /\ armed' = armed \ Current({"G", "H", "I"})
                        /\ pc' = [pc EXCEPT ![g] = "close"]
                /\ UNCHANGED <<mu, lastResponse, responses, done, timer, taken,
                               offer, spent, wire, reliable>>

\* close(tx.done), after the unlock.
CloseDone(g) == /\ pc[g] = "close"
                /\ done' = TRUE
                /\ pc' = [pc EXCEPT ![g] = After(g)]
                /\ UNCHANGED <<state, mu, lastResponse, responses, timer, armed,
                               taken, offer, spent, wire, reliable>>

-----------------------------------------------------------------------------
RunStep == RunTakes \/ RunSeesDone \/ RunTooLate \/ RunSends

Next == \/ \E u \in TUs : \/ \E r \in Response : Respond(u, r)
                          \/ RespondAccepted(u)
                          \/ RespondRefused(u)
        \/ RunStep
        \/ \E d \in Dispatchers : ReceiveAck(d) \/ ReceiveInvite(d)
        \/ \E t \in Timer : Fire(t) \/ Resend(t)
        \/ \E g \in Goroutine : Terminate(g) \/ CloseDone(g)

\* Goroutines that can run do run, timers expire, and a sender blocked on a channel
\* is served in turn (the channel queues its senders).  Nobody is obliged to respond
\* or to send a request.
Fairness == /\ WF_vars(RunStep)
            /\ \A u \in TUs : SF_vars(RespondAccepted(u)) /\ WF_vars(RespondRefused(u))
            /\ \A t \in Timer : WF_vars(Fire(t)) /\ WF_vars(Resend(t))
            /\ \A g \in Goroutine : WF_vars(Terminate(g)) /\ WF_vars(CloseDone(g))

Safety == Init /\ [][Next]_vars
Spec == Safety /\ Fairness
=============================================================================
