------------------------------ MODULE Guidance ------------------------------
(***************************************************************************)
(* The guidance application of internal/sip/app_guidance.go together with  *)
(* the settings it depends on: handleInvite looks the called user up in    *)
(* them, App.Run answers, and the file is played as soon as the media      *)
(* connection is up.                                                       *)
(*                                                                         *)
(* The connection is one of pion/webrtc, whose source is not part of the   *)
(* repository: it runs the handler of OnConnectionStateChange, once that   *)
(* is set, in a goroutine of its own for every change.                     *)
(***************************************************************************)
EXTENDS GuidanceSettings

CONSTANTS Apps,          \* calls to a guidance user
          MaxConnects    \* bound: how often a connection comes up

ASSUME GuidanceAssumption == MaxConnects \in Nat \ {0}

VARIABLE app

guidanceVars == <<settingsVars, app>>

\* run: where Run is.  conn: the connection.  handler: OnConnectionStateChange was called.
\* connects: how often it came up.  connected: callbacks for that which have not begun.
\* callback: those for Failed and Closed.  streams, closing: streamWavFile before and after
\* sendBye.  byes: BYEs that left for the caller; unsent: one did not.  done: a.done is
\* closed.  missed, failed: a change came before the handler; the connection has failed.
\* wedged: the 200 could not be written, and its transaction never closes Done().
NoApp == [run |-> "none", udp |-> FALSE, conn |-> "new", handler |-> FALSE, connects |-> 0,
          connected |-> 0, callback |-> [e \in {"failed", "closed"} |-> "none"],
          streams |-> 0, closing |-> 0, byes |-> 0, done |-> FALSE, missed |-> FALSE,
          failed |-> FALSE, unsent |-> FALSE, wedged |-> FALSE]

GuidanceInit == SettingsInit /\ app = [a \in Apps |-> NoApp]

Becomes(a, new) == app' = [app EXCEPT ![a] = new] /\ UNCHANGED settingsVars

\* The connection of x changes to c: the handler runs in a new goroutine, if it is set.
Changed(x, c) ==
  LET y == [x EXCEPT !.conn = c, !.failed = @ \/ c = "failed"]
  IN IF c \notin {"connected", "failed", "closed"} THEN y
     ELSE IF ~x.handler THEN [y EXCEPT !.missed = TRUE]
     ELSE IF c = "connected" THEN [y EXCEPT !.connected = @ + 1]
     ELSE [y EXCEPT !.callback[c] = "check"]

\* PeerConnection.Close: again is nothing.
PeerClosed(x) == IF x.conn = "closed" THEN x ELSE Changed(x, "closed")

-----------------------------------------------------------------------------
(* handleInvite and Run *)

\* An INVITE for a user that the settings name.
Invited(a) == /\ up /\ app[a].run = "none"
              /\ \E u \in Uris, overUdp \in BOOLEAN :
                   /\ u \in DOMAIN memory
                   /\ Becomes(a, [NoApp EXCEPT !.run = "answer", !.udp = overUdp])

\* A 4xx or 5xx for a bad Contact or offer; or the transaction is over when the 200 comes.
RunRefuses(a) == /\ app[a].run = "answer"
                 /\ Becomes(a, [PeerClosed(app[a]) EXCEPT !.run = "refused"])

\* Respond only hands the 200 over; a failed write of it blocks the transaction for good.
RunAnswers(a) == /\ app[a].run = "answer"
                 /\ \E writeFails \in BOOLEAN :
                      Becomes(a, [app[a] EXCEPT !.run = "register", !.wedged = writeFails])

RunRegisters(a) == /\ app[a].run = "register"
                   /\ Becomes(a, [app[a] EXCEPT !.run = "ack", !.handler = TRUE])

\* The INVITE transaction ends, with its 200.
RunSeesAck(a) == /\ app[a].run = "ack" /\ ~app[a].wedged
                 /\ Becomes(a, [app[a] EXCEPT !.run = "wait"])

\* a.done, and the deferred Close.
RunReturns(a) == /\ app[a].run = "wait" /\ app[a].done
                 /\ Becomes(a, [PeerClosed(app[a]) EXCEPT !.run = "ended"])

RunStep(a) == up /\ (RunRefuses(a) \/ RunAnswers(a) \/ RunRegisters(a) \/ RunSeesAck(a)
                     \/ RunReturns(a))

-----------------------------------------------------------------------------
(* The connection, from the time the 200 is on its way *)

Answered(a) == app[a].run \notin {"none", "answer", "refused"}

\* Never without the answer in the 200.
Connects(a) == /\ up /\ Answered(a) /\ ~app[a].wedged
               /\ app[a].conn \in {"new", "disconnected"} /\ app[a].connects < MaxConnects
               /\ Becomes(a, [Changed(app[a], "connected") EXCEPT !.connects = @ + 1])

Disconnects(a) == /\ up /\ app[a].conn = "connected"
                  /\ Becomes(a, Changed(app[a], "disconnected"))

Fails(a) == /\ up /\ Answered(a) /\ app[a].conn \in {"new", "disconnected"}
            /\ Becomes(a, Changed(app[a], "failed"))

-----------------------------------------------------------------------------
(* The callbacks and streamWavFile *)

CallbackPlays(a) == /\ app[a].connected > 0
                    /\ Becomes(a, [app[a] EXCEPT !.connected = @ - 1, !.streams = @ + 1])

CallbackChecks(a, e) ==
  /\ app[a].callback[e] = "check"
  /\ Becomes(a, [app[a] EXCEPT !.callback[e] = IF app[a].done THEN "over" ELSE "close"])

CallbackCloses(a, e) ==
  /\ app[a].callback[e] = "close" /\ ~app[a].done
  /\ Becomes(a, [app[a] EXCEPT !.callback[e] = "over", !.done = TRUE])

\* close of a closed channel: Failed and Closed both found a.done open.
CallbackPanics(a, e) == up /\ app[a].callback[e] = "close" /\ app[a].done

\* The file ends, or is missing or of another format, or cannot be sent: the deferred
\* sendBye.  No BYE leaves for a caller that is not on UDP (TransportFor), for one whose
\* Contact is no URI, has no host that resolves or no port, or when its write fails.
Plays(a) == /\ app[a].streams > 0
            /\ \E sent \in {FALSE, app[a].udp} :
                 Becomes(a, [app[a] EXCEPT !.streams = @ - 1, !.closing = @ + 1,
                                           !.byes = IF sent THEN @ + 1 ELSE @,
                                           !.unsent = @ \/ ~sent])

\* Mutant: the connection stays open.
PlaysAndLeaves(a) == /\ app[a].closing > 0
                     /\ Becomes(a, [app[a] EXCEPT !.closing = @ - 1])

\* The deferred Close.
PlaysAndCloses(a) == /\ app[a].closing > 0
                     /\ Becomes(a, [PeerClosed(app[a]) EXCEPT !.closing = @ - 1])

CallbackStep(a) == up /\ (CallbackPlays(a)
                          \/ \E e \in {"failed", "closed"} : CallbackChecks(a, e)
                                                             \/ CallbackCloses(a, e))
StreamStep(a) == up /\ (Plays(a) \/ PlaysAndCloses(a))

\* The process ends and takes its calls along.
Crash == /\ Down
         /\ app' = [a \in Apps |-> NoApp]

-----------------------------------------------------------------------------
GuidanceNext ==
  \/ SettingsStep /\ UNCHANGED app
  \/ Crash
  \/ \E a \in Apps : \/ Invited(a) \/ RunStep(a) \/ Connects(a) \/ Disconnects(a)
                     \/ Fails(a) \/ CallbackStep(a) \/ StreamStep(a)

\* Goroutines that can run do, files end, and a connection that is not up comes up or
\* fails: pion gives up after a while.  A callback that is about to panic is not fair.
Fairness == \A a \in Apps : /\ WF_guidanceVars(RunStep(a))
                            /\ WF_guidanceVars(CallbackStep(a))
                            /\ WF_guidanceVars(StreamStep(a))
                            /\ SF_guidanceVars(Connects(a) \/ Fails(a))

GuidanceSafety == GuidanceInit /\ [][GuidanceNext]_guidanceVars
GuidanceSpec == GuidanceSafety /\ Fairness
=============================================================================
