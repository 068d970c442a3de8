-------------------------------- MODULE Calls --------------------------------
(***************************************************************************)
(* The calls of the server as a whole: server.dialogs, which every B2BUA   *)
(* enters under two dialog IDs, the session timers, and the two searches   *)
(* of the web interface through the dialogs, GetActiveSessions and         *)
(* DisconnectSession.                                                      *)
(*                                                                         *)
(* Two calls have the same ID of the caller's dialog if the second comes   *)
(* from an INVITE that was repeated after its transaction had ended: the   *)
(* tag that BuildResponse puts into To is always the same.                 *)
(*                                                                         *)
(* The critical sections of b.mu (establishDialogs, cleanup) and of        *)
(* sessionMutex are single steps.  Range on the sync.Map is not: it takes  *)
(* one key after the other, and a key's value is used, under the B2BUA's   *)
(* mu, some time after it was read.                                        *)
(***************************************************************************)
EXTENDS Naturals, FiniteSets

CONSTANTS Calls,
          Invites,      \* the INVITEs of callers, each with a Call-ID of its own
          Searches,     \* requests to the web interface
          None

ASSUME CallsAssumption == None \notin Calls \cup Invites

\* The IDs of the callers' dialogs and of the callees': a B2BUA has Call-IDs of its own.
Ids == ({"uas"} \X Invites) \cup ({"uac"} \X Calls)

VARIABLES invite,      \* the INVITE a call comes from
          dialogs,     \* the sync.Map: the call of an ID, or None
          run,         \* where Run of a call is, from its 200 on
          ending,      \* somebody is about to clean up the call
          done,        \* b.done is closed
          early,       \* history: calls that were cleaned up before they were in dialogs
          crashed,     \* a second close of b.done has ended the process
          sessions,    \* dialog ID to the call whose session it is, or None
          timer,       \* the session timer of a call
          search,      \* what a search still has to visit, what it has in its hands and found
          seen         \* history: calls in dialogs all the time, and at some time, of a search

callVars == <<invite, dialogs, run, ending, done, early, crashed>>
sessionVars == <<sessions, timer>>
vars == <<callVars, sessionVars, search, seen>>

NoSearch == [pc |-> "idle", callID |-> None, todo |-> {}, entry |-> None,
             found |-> [c \in Calls |-> 0]]

Init == /\ invite \in [Calls -> Invites]
        /\ dialogs = [i \in Ids |-> None]
        /\ run = [c \in Calls |-> "answered"]
        /\ ending = {} /\ done = {} /\ early = {} /\ crashed = FALSE
        /\ sessions = [i \in Ids |-> None]
        /\ timer = [c \in Calls |-> "none"]
        /\ search = [s \in Searches |-> NoSearch]
        /\ seen = [s \in Searches |-> [always |-> {}, once |-> {}]]

-----------------------------------------------------------------------------
(* A call: the end of mediate, and cleanup *)

virtualUASDialogID(c) == <<"uas", invite[c]>>
virtualUACDialogID(c) == <<"uac", c>>
Mine(c) == {virtualUASDialogID(c), virtualUACDialogID(c)}

\* establishDialogs
Establishes(c) == /\ run[c] = "answered"
                  /\ dialogs' = [i \in Ids |-> IF i \in Mine(c) THEN c ELSE dialogs[i]]
                  /\ run' = [run EXCEPT ![c] = "established"]
                  /\ UNCHANGED <<invite, ending, done, early, crashed, sessionVars, search>>

\* Mutant: the session that is there keeps its timer and its time.
StartsOnce(c) ==
  /\ run[c] = "established"
  /\ sessions' = [sessions EXCEPT ![virtualUASDialogID(c)] = c]
  /\ timer' = [timer EXCEPT ![c] = IF sessions[virtualUASDialogID(c)] = None THEN "running"
                                                                            ELSE "none"]
  /\ run' = [run EXCEPT ![c] = "waiting"]
  /\ UNCHANGED <<invite, dialogs, ending, done, early, crashed, search>>

\* createOrUpdateSession, if the 200 has a Session-Expires with a refresher.  Stop does not
\* stop a timer whose function is already on its way.
Starts(c) ==
  /\ run[c] = "established"
  /\ LET old == sessions[virtualUASDialogID(c)] IN
     timer' = [d \in Calls |-> IF d = c THEN "running"
                               ELSE IF d = old /\ timer[d] = "running" THEN "stopped"
                               ELSE timer[d]]
  /\ sessions' = [sessions EXCEPT ![virtualUASDialogID(c)] = c]
  /\ run' = [run EXCEPT ![c] = "waiting"]
  /\ UNCHANGED <<invite, dialogs, ending, done, early, crashed, search>>

StartsNoSession(c) == /\ run[c] = "established"
                      /\ run' = [run EXCEPT ![c] = "waiting"]
                      /\ UNCHANGED <<invite, dialogs, ending, done, early, crashed, sessionVars, search>>

\* The goroutine of the timer, then expireSession: whatever session is there is removed.
Fires(c) == /\ timer[c] = "running"
            /\ timer' = [timer EXCEPT ![c] = "fired"]
            /\ UNCHANGED <<callVars, sessions, search>>

Expires(c) == /\ timer[c] = "fired"
              /\ timer' = [timer EXCEPT ![c] = "over"]
              /\ sessions' = [sessions EXCEPT ![virtualUASDialogID(c)] = None]
              /\ UNCHANGED <<callVars, search>>

\* A BYE in either dialog, which is looked up, or a CANCEL that crosses the 200.
HangsUp(c) == /\ \/ run[c] = "answered" /\ c \notin done
                 \/ \E i \in Mine(c) : dialogs[i] = c
              /\ ending' = ending \cup {c}
              /\ UNCHANGED <<invite, dialogs, run, done, early, crashed, sessionVars, search>>

\* Mutant: the ID of the caller's dialog only is deleted.
CleansHalf(c) ==
  /\ c \in ending
  /\ dialogs' = [dialogs EXCEPT ![virtualUASDialogID(c)] = IF run[c] = "answered" THEN @ ELSE None]
  /\ ending' = ending \ {c}
  /\ done' = done \cup {c}
  /\ early' = IF run[c] = "answered" THEN early \cup {c} ELSE early
  /\ UNCHANGED <<invite, run, crashed, sessionVars, search>>

\* cleanup: the IDs are deleted, whoever's they are by now, if the call has got them.
CleansUp(c) ==
  /\ c \in ending
  /\ dialogs' = [i \in Ids |-> IF run[c] /= "answered" /\ i \in Mine(c) THEN None ELSE dialogs[i]]
  /\ ending' = ending \ {c}
  /\ done' = done \cup {c}
  /\ early' = IF run[c] = "answered" THEN early \cup {c} ELSE early
  /\ UNCHANGED <<invite, run, crashed, sessionVars, search>>

\* Run returns from waitForDialogMessages and closes b.done, which is closed.
Panics(c) == /\ run[c] = "waiting" /\ c \in done
             /\ crashed' = TRUE
             /\ UNCHANGED <<invite, dialogs, run, ending, done, early, sessionVars, search>>

-----------------------------------------------------------------------------
(* The searches: dialogs.Range with its callback *)

\* A list, or the search for a Call-ID.
IsList(s) == search[s].callID = None

\* handleSessions, or handleSessionDisconnect with the Call-ID of its form.
Begins(s) == /\ search[s].pc = "idle"
             /\ \E id \in Invites \cup {None} :
                  search' = [search EXCEPT ![s].pc = "range", ![s].callID = id, ![s].todo = Ids]
             /\ UNCHANGED <<callVars, sessionVars>>

\* The next key, in whatever order, and its value, if there is one at this time.
Visits(s) ==
  /\ search[s].pc = "range"
  /\ \E i \in search[s].todo :
       search' = [search EXCEPT ![s].todo = @ \ {i},
                                ![s].entry = IF dialogs[i] = None THEN None ELSE <<i, dialogs[i]>>,
                                ![s].pc = IF dialogs[i] = None THEN "range" ELSE "callback"]
  /\ UNCHANGED <<callVars, sessionVars>>

Key(s) == search[s].entry[1]
Value(s) == search[s].entry[2]

\* Mutant: a call is listed under either of its IDs.
IsListedTwice(s) == TRUE

\* A call is listed under the ID of the caller's dialog only.
IsListed(s) == Key(s) = virtualUASDialogID(Value(s))

Returns(s) == [search EXCEPT ![s].pc = "range", ![s].entry = None]

GetActiveSession(s) == /\ IsList(s) /\ search[s].pc = "callback"
                       /\ search' = IF IsListed(s) THEN [Returns(s) EXCEPT ![s].found[Value(s)] = @ + 1]
                                                   ELSE Returns(s)
                       /\ UNCHANGED <<callVars, sessionVars>>

\* DisconnectSession stops at a call with the Call-ID, and Disconnect ends it.
DisconnectSession(s) ==
  /\ ~IsList(s) /\ search[s].pc = "callback"
  /\ LET c == Value(s) IN
     IF invite[c] = search[s].callID
     THEN /\ search' = [Returns(s) EXCEPT ![s].pc = "done", ![s].todo = {},
                                           ![s].found = [@ EXCEPT ![c] = 1]]
          /\ ending' = ending \cup {c}
     ELSE search' = Returns(s) /\ UNCHANGED ending
  /\ UNCHANGED <<invite, dialogs, run, done, early, crashed, sessionVars>>

Ends(s) == /\ search[s].pc = "range" /\ search[s].todo = {}
           /\ search' = [search EXCEPT ![s].pc = "done"]
           /\ UNCHANGED <<callVars, sessionVars>>

-----------------------------------------------------------------------------
CallStep(c) == \/ Establishes(c) \/ Starts(c) \/ StartsNoSession(c) \/ HangsUp(c) \/ CleansUp(c)
               \/ Panics(c)
TimerStep(c) == Fires(c) \/ Expires(c)
SearchStep(s) == Begins(s) \/ Visits(s) \/ GetActiveSession(s) \/ DisconnectSession(s) \/ Ends(s)

\* The calls that may be found with both IDs.
Entered == {c \in Calls : \A i \in Mine(c) : dialogs[i] = c}
InUse == {c \in Calls : \E i \in Mine(c) : dialogs[i] = c}

Observe == seen' = [s \in Searches |->
  IF search'[s].pc = "idle" THEN seen[s]
  ELSE IF search[s].pc = "idle" THEN [always |-> Entered, once |-> InUse]
  ELSE IF search[s].pc = "done" THEN seen[s]
  ELSE [always |-> seen[s].always \cap Entered', once |-> seen[s].once \cup InUse']]

Next == /\ ~crashed
        /\ \/ \E c \in Calls : CallStep(c) \/ TimerStep(c)
           \/ \E s \in Searches : SearchStep(s)
        /\ Observe

Spec == Init /\ [][Next]_vars
=============================================================================
