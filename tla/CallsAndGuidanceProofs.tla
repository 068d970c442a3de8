----------------------- MODULE CallsAndGuidanceProofs -----------------------
(***************************************************************************)
(* What TLC checks of Calls for two calls, two INVITEs and one search,     *)
(* proved for any number of each; and what it checks of Guidance on a      *)
(* small instance, proved for any number of submissions at a time, any     *)
(* forms and any number of guidance calls: the settings in force are those *)
(* of the database, also after a restart, and a call ends with a BYE.      *)
(* The two share no variable, and neither part uses the other.             *)
(***************************************************************************)
EXTENDS CallsProps, GuidanceProps, WellFoundedInduction, TLAPS

-----------------------------------------------------------------------------
(***************************************************************************)
(* PART 1.  Calls: the dialogs and the sessions                            *)
(***************************************************************************)

\* The dialog IDs of a call are IDs.
LEMMA MineAreIds ==
  ASSUME invite \in [Calls -> Invites], NEW c \in Calls
  PROVE  Mine(c) \subseteq Ids /\ virtualUASDialogID(c) \in Mine(c)
BY DEF Mine, Ids, virtualUASDialogID, virtualUACDialogID

-----------------------------------------------------------------------------
(***************************************************************************)
(* What the steps of a search do to its record.                            *)
(***************************************************************************)

LEMMA BeginsIs ==
  ASSUME TypeOK, NEW s \in Searches, Begins(s)
  PROVE  /\ search' \in [Searches -> SearchType] /\ \A t \in Searches \ {s} : search'[t] = search[t]
         /\ search[s].pc = "idle" /\ search'[s].pc = "range"
         /\ search'[s].todo = Ids /\ search'[s].found = search[s].found
<1>1. PICK id \in Invites \cup {None} :
        search' = [search EXCEPT ![s].pc = "range", ![s].callID = id, ![s].todo = Ids]
  BY DEF Begins
<1> DEFINE new == [search[s] EXCEPT !.pc = "range", !.callID = id, !.todo = Ids]
<1>2. search[s] \in SearchType
  BY DEF TypeOK
<1>3. /\ new \in SearchType /\ new.pc = "range" /\ new.todo = Ids /\ new.found = search[s].found
  BY <1>2 DEF SearchType
<1>4. search' = [search EXCEPT ![s] = new]
  BY <1>1
<1>. QED
  BY <1>3, <1>4 DEF TypeOK, Begins

LEMMA VisitsIs ==
  ASSUME TypeOK, NEW s \in Searches, Visits(s)
  PROVE  /\ search' \in [Searches -> SearchType] /\ \A t \in Searches \ {s} : search'[t] = search[t]
         /\ search[s].pc = "range"
         /\ search'[s].callID = search[s].callID /\ search'[s].found = search[s].found
         /\ search'[s].pc = "callback" => search'[s].entry \in Ids \X Calls
         /\ \E i \in search[s].todo :
              /\ search'[s].todo = search[s].todo \ {i}
              /\ \/ dialogs[i] = None /\ search'[s].pc = "range"
                 \/ /\ dialogs[i] \in Calls /\ search'[s].pc = "callback"
                    /\ search'[s].entry = <<i, dialogs[i]>>
<1>1. PICK i \in search[s].todo :
       search' = [search EXCEPT ![s].todo = @ \ {i},
                                ![s].entry = IF dialogs[i] = None THEN None ELSE <<i, dialogs[i]>>,
                                ![s].pc = IF dialogs[i] = None THEN "range" ELSE "callback"]
  BY DEF Visits
<1>2. search[s] \in SearchType /\ i \in Ids /\ dialogs[i] \in Calls \cup {None}
  BY DEF TypeOK, SearchType
<1> DEFINE entry == IF dialogs[i] = None THEN None ELSE <<i, dialogs[i]>>
           place == IF dialogs[i] = None THEN "range" ELSE "callback"
           new == [search[s] EXCEPT !.todo = @ \ {i}, !.entry = entry, !.pc = place]
<1>3. entry \in (Ids \X Calls) \cup {None} /\ place \in {"range", "callback"}
  BY <1>2
<1>4. /\ new \in SearchType /\ new.pc = place /\ new.entry = entry
      /\ new.callID = search[s].callID /\ new.found = search[s].found
      /\ new.todo = search[s].todo \ {i}
  BY <1>2, <1>3 DEF SearchType
<1>5. search' = [search EXCEPT ![s] = new]
  BY <1>1
<1>6. /\ search' \in [Searches -> SearchType] /\ \A t \in Searches \ {s} : search'[t] = search[t]
      /\ search'[s] = new
  BY <1>4, <1>5 DEF TypeOK
<1>7. CASE dialogs[i] = None
  BY <1>4, <1>6, <1>7 DEF Visits
<1>8. CASE dialogs[i] /= None
  <2>1. dialogs[i] \in Calls /\ entry = <<i, dialogs[i]>> /\ place = "callback"
    BY <1>2, <1>8
  <2>2. /\ search'[s].todo = search[s].todo \ {i} /\ search'[s].pc = "callback"
        /\ search'[s].entry = <<i, dialogs[i]>> /\ <<i, dialogs[i]>> \in Ids \X Calls
        /\ search'[s].callID = search[s].callID /\ search'[s].found = search[s].found
    BY <1>2, <1>4, <1>6, <2>1
  <2>. QED
    BY <1>6, <2>1, <2>2 DEF Visits
<1>. QED
  BY <1>7, <1>8

\* The callback of either search: it may count the call it was given.
LEMMA CallbackIs ==
  ASSUME TypeOK, NEW s \in Searches, GetActiveSession(s) \/ DisconnectSession(s)
  PROVE  /\ search' \in [Searches -> SearchType] /\ \A t \in Searches \ {s} : search'[t] = search[t]
         /\ search[s].pc = "callback" /\ search'[s].callID = search[s].callID
         /\ search'[s].pc \in {"range", "done"}
         /\ search[s].entry \in Ids \X Calls
         /\ Value(s) \in Calls
         /\ IsList(s) =>
              /\ search'[s].pc = "range" /\ search'[s].todo = search[s].todo
              /\ \A c \in Calls : search'[s].found[c] =
                   IF IsListed(s) /\ c = Value(s) THEN search[s].found[c] + 1
                                                  ELSE search[s].found[c]
         /\ ~IsList(s) =>
              /\ \A c \in Calls : search'[s].found[c] =
                   IF invite[Value(s)] = search[s].callID /\ c = Value(s) THEN 1
                                                               ELSE search[s].found[c]
              /\ IF invite[Value(s)] = search[s].callID
                 THEN search'[s].pc = "done" /\ search'[s].todo = {}
                 ELSE search'[s].pc = "range" /\ search'[s].todo = search[s].todo
<1>1. /\ search[s] \in SearchType /\ search[s].pc = "callback"
      /\ search[s].entry \in Ids \X Calls /\ Value(s) \in Calls
  BY DEF TypeOK, GetActiveSession, DisconnectSession, Value
<1> DEFINE v == Value(s)
           back == [search[s] EXCEPT !.pc = "range", !.entry = None]
           one == [back EXCEPT !.found[v] = @ + 1]
           stop == [back EXCEPT !.pc = "done", !.todo = {}, !.found = [@ EXCEPT ![v] = 1]]
<1>2. /\ back \in SearchType /\ back.pc = "range" /\ back.todo = search[s].todo
      /\ back.found = search[s].found /\ back.callID = search[s].callID
  BY <1>1 DEF SearchType
<1>3. /\ [search[s].found EXCEPT ![v] = @ + 1] \in [Calls -> Nat]
      /\ [search[s].found EXCEPT ![v] = 1] \in [Calls -> Nat]
  BY <1>1 DEF SearchType
<1>4. /\ one \in SearchType /\ one.pc = "range" /\ one.todo = search[s].todo
      /\ one.found = [search[s].found EXCEPT ![v] = @ + 1] /\ one.callID = search[s].callID
  BY <1>1, <1>3 DEF SearchType
<1>5. /\ stop \in SearchType /\ stop.pc = "done" /\ stop.todo = {}
      /\ stop.found = [search[s].found EXCEPT ![v] = 1] /\ stop.callID = search[s].callID
  BY <1>1, <1>3 DEF SearchType
<1>6. Returns(s) = [search EXCEPT ![s] = back]
  BY DEF Returns
<1>7. CASE GetActiveSession(s)
  <2>1. CASE IsListed(s)
    <3>1. search' = [search EXCEPT ![s] = one]
      BY <1>6, <1>7, <2>1 DEF GetActiveSession, TypeOK
    <3>2. /\ search' \in [Searches -> SearchType]
          /\ \A t \in Searches \ {s} : search'[t] = search[t]
          /\ search'[s] = one
      BY <1>4, <3>1 DEF TypeOK
    <3>3. search[s].found \in [Calls -> Nat]
      BY <1>1 DEF SearchType
    <3>4. \A c \in Calls : search'[s].found[c] = IF c = Value(s) THEN search[s].found[c] + 1
                                                               ELSE search[s].found[c]
      BY <1>4, <3>2, <3>3
    <3>5. /\ search'[s].pc = "range" /\ search'[s].todo = search[s].todo
          /\ search'[s].callID = search[s].callID
      BY <1>4, <3>2
    <3>. QED
      BY <1>1, <1>7, <2>1, <3>2, <3>4, <3>5 DEF GetActiveSession
  <2>2. CASE ~IsListed(s)
    <3>1. search' = [search EXCEPT ![s] = back]
      BY <1>6, <1>7, <2>2 DEF GetActiveSession
    <3>. QED
      BY <1>1, <1>2, <1>7, <2>2, <3>1 DEF GetActiveSession, TypeOK
  <2>. QED
    BY <2>1, <2>2
<1>8. CASE DisconnectSession(s)
  <2>1. CASE invite[Value(s)] = search[s].callID
    <3>1. search' = [search EXCEPT ![s] = stop]
      <4>1. search' = [Returns(s) EXCEPT ![s].pc = "done", ![s].todo = {},
                                         ![s].found = [@ EXCEPT ![v] = 1]]
        BY <1>8, <2>1 DEF DisconnectSession
      <4>2. search \in [Searches -> SearchType]
        BY DEF TypeOK
      <4>. QED
        BY <1>6, <4>1, <4>2
    <3>2. /\ search' \in [Searches -> SearchType]
          /\ \A t \in Searches \ {s} : search'[t] = search[t]
          /\ search'[s] = stop
      BY <1>5, <3>1 DEF TypeOK
    <3>3. search[s].found \in [Calls -> Nat]
      BY <1>1 DEF SearchType
    <3>4. \A c \in Calls : search'[s].found[c] = IF c = Value(s) THEN 1 ELSE search[s].found[c]
      BY <1>5, <3>2, <3>3
    <3>5. /\ search'[s].pc = "done" /\ search'[s].todo = {}
          /\ search'[s].callID = search[s].callID
      BY <1>5, <3>2
    <3>. QED
      BY <1>1, <1>8, <2>1, <3>2, <3>4, <3>5 DEF DisconnectSession
  <2>2. CASE invite[Value(s)] /= search[s].callID
    <3>1. search' = [search EXCEPT ![s] = back]
      BY <1>6, <1>8, <2>2 DEF DisconnectSession
    <3>. QED
      BY <1>1, <1>2, <1>8, <2>2, <3>1 DEF DisconnectSession, TypeOK
  <2>. QED
    BY <2>1, <2>2
<1>. QED
  BY <1>7, <1>8

LEMMA EndsIs ==
  ASSUME TypeOK, NEW s \in Searches, Ends(s)
  PROVE  /\ search' \in [Searches -> SearchType] /\ \A t \in Searches \ {s} : search'[t] = search[t]
         /\ search[s].pc = "range" /\ search'[s].pc = "done"
         /\ search[s].todo = {} /\ search'[s].todo = {}
         /\ search'[s].callID = search[s].callID /\ search'[s].found = search[s].found
<1> DEFINE new == [search[s] EXCEPT !.pc = "done"]
<1>1. search[s] \in SearchType
  BY DEF TypeOK
<1>2. /\ new \in SearchType /\ new.pc = "done" /\ new.todo = search[s].todo
      /\ new.found = search[s].found /\ new.callID = search[s].callID
  BY <1>1 DEF SearchType
<1>3. search' = [search EXCEPT ![s] = new]
  BY DEF Ends
<1>. QED
  BY <1>2, <1>3 DEF TypeOK, Ends

-----------------------------------------------------------------------------
(***************************************************************************)
(* The types, and the entries of the two maps.  A dead entry would be one  *)
(* of a call that was cleaned up while it had its IDs; a session without a *)
(* timer would be one that lost its ID to another call.                    *)
(***************************************************************************)

\* A call that was cleaned up before it had its IDs is known as such.
EarlyKnown == \A c \in Calls : run[c] = "answered" /\ c \in done => c \in early

\* A session is under the ID of its call, and has a timer.
OwnSession == \A i \in Ids : sessions[i] /= None =>
                /\ i = virtualUASDialogID(sessions[i])
                /\ timer[sessions[i]] \in {"running", "fired"}

MapInv == TypeOK /\ NoDeadEntry /\ EarlyKnown /\ OwnSession

LEMMA MapInit == Init => MapInv
<1> SUFFICES ASSUME Init PROVE MapInv
  OBVIOUS
<1>1. NoSearch \in SearchType
  BY DEF NoSearch, SearchType
<1>2. TypeOK
  BY <1>1 DEF Init, TypeOK, NoSearch
<1>3. NoDeadEntry /\ EarlyKnown /\ OwnSession
  BY DEF Init, NoDeadEntry, EarlyKnown, OwnSession
<1>. QED
  BY <1>2, <1>3 DEF MapInv

\* What Observe notes of the searches has its type.
LEMMA SeenTyped ==
  ASSUME TypeOK, Observe PROVE seen' \in [Searches -> [always : SUBSET Calls, once : SUBSET Calls]]
BY DEF TypeOK, Observe, Entered, InUse

LEMMA TypesKept ==
  ASSUME TypeOK, Observe,
         \/ \E c \in Calls : CallStep(c) \/ TimerStep(c)
         \/ \E s \in Searches : SearchStep(s)
  PROVE  TypeOK'
<1>t. seen' \in [Searches -> [always : SUBSET Calls, once : SUBSET Calls]]
  BY SeenTyped
<1>1. ASSUME NEW c \in Calls, CallStep(c) PROVE TypeOK'
  <2>1. CASE Establishes(c) \/ HangsUp(c) \/ CleansUp(c) \/ Panics(c) \/ StartsNoSession(c)
    <3>1. UNCHANGED <<invite, sessions, timer, search>>
      BY <2>1 DEF Establishes, HangsUp, CleansUp, Panics, StartsNoSession, sessionVars
    <3>2. /\ dialogs' \in [Ids -> Calls \cup {None}]
          /\ run' \in [Calls -> {"answered", "established", "waiting"}]
      BY <2>1 DEF TypeOK, Establishes, HangsUp, CleansUp, Panics, StartsNoSession
    <3>3. /\ ending' \subseteq Calls /\ early' \subseteq done' /\ done' \subseteq Calls
          /\ crashed' \in BOOLEAN
      BY <2>1 DEF TypeOK, Establishes, HangsUp, CleansUp, Panics, StartsNoSession
    <3>. QED
      BY <1>t, <3>1, <3>2, <3>3 DEF TypeOK
  <2>2. CASE Starts(c)
    <3>1. virtualUASDialogID(c) \in Ids
      BY MineAreIds DEF TypeOK
    <3>. QED
      BY <1>t, <2>2, <3>1 DEF TypeOK, Starts
  <2>. QED
    BY <1>1, <2>1, <2>2 DEF CallStep
<1>2. ASSUME NEW c \in Calls, TimerStep(c) PROVE TypeOK'
  BY <1>t, <1>2 DEF TypeOK, TimerStep, Fires, Expires, callVars
<1>3. ASSUME NEW s \in Searches, SearchStep(s) PROVE TypeOK'
  <2>1. /\ search' \in [Searches -> SearchType]
        /\ \A t \in Searches \ {s} : search'[t] = search[t]
        /\ search'[s].pc = "callback" => search'[s].entry \in Ids \X Calls
    BY <1>3, BeginsIs, VisitsIs, CallbackIs, EndsIs DEF SearchStep, TypeOK, SearchType
  <2>2. UNCHANGED <<invite, dialogs, run, done, early, crashed, sessions, timer>>
        /\ ending' \subseteq Calls
    <3>1. CASE DisconnectSession(s)
      <4>1. Value(s) \in Calls
        BY <3>1, CallbackIs
      <4>2. ending' \in {ending, ending \cup {Value(s)}}
        BY <3>1 DEF DisconnectSession
      <4>3. ending \subseteq Calls
        BY DEF TypeOK
      <4>. QED
        BY <3>1, <4>1, <4>2, <4>3 DEF DisconnectSession, sessionVars
    <3>2. CASE Begins(s) \/ Visits(s) \/ GetActiveSession(s) \/ Ends(s)
      BY <3>2 DEF Begins, Visits, GetActiveSession, Ends, callVars, sessionVars, TypeOK
    <3>. QED
      BY <1>3, <3>1, <3>2 DEF SearchStep
  <2>. QED
    BY <1>t, <2>1, <2>2 DEF TypeOK
<1>. QED
  BY <1>1, <1>2, <1>3

LEMMA MapNext == MapInv /\ [Next]_vars => MapInv'
<1> SUFFICES ASSUME MapInv, [Next]_vars PROVE MapInv'
  OBVIOUS
<1>t. TypeOK
  BY DEF MapInv
<1>1. CASE UNCHANGED vars
  BY <1>1 DEF vars, callVars, sessionVars, MapInv, TypeOK, NoDeadEntry, EarlyKnown, OwnSession,
              Mine, virtualUASDialogID, virtualUACDialogID
<1>2. CASE Next
  <2>1. TypeOK'
    BY <1>2, <1>t, TypesKept DEF Next
  <2>2. invite' = invite
    BY <1>2 DEF Next, CallStep, TimerStep, SearchStep, Establishes, Starts, StartsNoSession,
       HangsUp, CleansUp, Panics, Fires, Expires, Begins, Visits, GetActiveSession,
       DisconnectSession, Ends, callVars
  <2>3. \A d \in Calls : /\ Mine(d)' = Mine(d)
                         /\ virtualUASDialogID(d)' = virtualUASDialogID(d)
    BY <2>2 DEF Mine, virtualUASDialogID, virtualUACDialogID
  <2>4. CASE UNCHANGED <<dialogs, run, done, early, sessions, timer>>
    BY <1>t, <2>1, <2>3, <2>4 DEF MapInv, NoDeadEntry, EarlyKnown, OwnSession, TypeOK
  <2>5. ASSUME NEW c \in Calls, Establishes(c) PROVE MapInv'
    <3>1. EarlyKnown' /\ OwnSession'
      BY <1>t, <2>3, <2>5 DEF Establishes, sessionVars, MapInv, TypeOK, EarlyKnown, OwnSession
    <3>2. NoDeadEntry'
      BY <1>t, <2>3, <2>5 DEF Establishes, MapInv, TypeOK, NoDeadEntry, EarlyKnown
    <3>. QED
      BY <2>1, <3>1, <3>2 DEF MapInv
  <2>6. ASSUME NEW c \in Calls, CleansUp(c) PROVE MapInv'
    <3>1. EarlyKnown' /\ OwnSession'
      BY <1>t, <2>3, <2>6 DEF CleansUp, sessionVars, MapInv, TypeOK, EarlyKnown, OwnSession
    <3>2. NoDeadEntry'
      BY <1>t, <2>3, <2>6 DEF CleansUp, MapInv, TypeOK, NoDeadEntry
    <3>. QED
      BY <2>1, <3>1, <3>2 DEF MapInv
  <2>7. ASSUME NEW c \in Calls, Starts(c) \/ StartsNoSession(c) PROVE MapInv'
    <3>1. NoDeadEntry' /\ EarlyKnown'
      BY <1>t, <2>3, <2>7 DEF Starts, StartsNoSession, MapInv, TypeOK, NoDeadEntry, EarlyKnown
    <3>2. OwnSession'
      <4>1. CASE Starts(c)
        <5> SUFFICES ASSUME NEW i \in Ids, sessions'[i] /= None
                     PROVE  /\ i = virtualUASDialogID(sessions'[i])
                            /\ timer'[sessions'[i]] \in {"running", "fired"}
          BY <2>1, <2>3 DEF OwnSession, TypeOK
        <5>1. CASE i = virtualUASDialogID(c)
          BY <1>t, <4>1, <5>1 DEF Starts, TypeOK
        <5>2. CASE i /= virtualUASDialogID(c)
          <6>1. /\ sessions'[i] = sessions[i] /\ sessions[i] \in Calls
                /\ i = virtualUASDialogID(sessions[i])
                /\ timer[sessions[i]] \in {"running", "fired"}
            BY <1>t, <4>1, <5>2 DEF Starts, MapInv, OwnSession, TypeOK
          <6>2. sessions[i] /= sessions[virtualUASDialogID(c)] \/ sessions[i] = None
            <7>1. virtualUASDialogID(c) \in Ids
              BY <1>t, MineAreIds DEF TypeOK
            <7>. QED
              BY <5>2, <6>1, <7>1 DEF MapInv, OwnSession
          <6>. QED
            BY <4>1, <6>1, <6>2 DEF Starts
        <5>. QED
          BY <5>1, <5>2
      <4>2. CASE StartsNoSession(c)
        BY <2>3, <4>2, <1>t DEF StartsNoSession, sessionVars, MapInv, TypeOK, OwnSession
      <4>. QED
        BY <2>7, <4>1, <4>2
    <3>. QED
      BY <2>1, <3>1, <3>2 DEF MapInv
  <2>8. ASSUME NEW c \in Calls, Fires(c) \/ Expires(c) PROVE MapInv'
    <3>1. NoDeadEntry' /\ EarlyKnown'
      BY <1>t, <2>3, <2>8 DEF Fires, Expires, callVars, MapInv, TypeOK, NoDeadEntry, EarlyKnown
    <3>2. OwnSession'
      BY <1>t, <2>3, <2>8 DEF Fires, Expires, MapInv, TypeOK, OwnSession
    <3>. QED
      BY <2>1, <3>1, <3>2 DEF MapInv
  <2>. QED
    BY <1>2, <2>4, <2>5, <2>6, <2>7, <2>8 DEF Next, CallStep, TimerStep, SearchStep, HangsUp,
       Panics, Begins, Visits, GetActiveSession, DisconnectSession, Ends, callVars, sessionVars
<1>. QED
  BY <1>1, <1>2

LEMMA MapHolds == Spec => []MapInv
BY MapInit, MapNext, PTL DEF Spec

\* No entry of server.dialogs leads to a call that was cleaned up, although calls take each
\* other's ID and cleanup deletes IDs whoever's they are: what is left to a call is under
\* one of the two IDs that its cleanup deletes.
THEOREM Invariant == Spec => []Inv
<1>1. MapInv => Inv
  BY DEF MapInv, Inv
<1>. QED
  BY <1>1, MapHolds, PTL

\* No session stays for want of a timer: a timer is stopped only when its session loses
\* its place.
THEOREM Timed == Spec => []SessionIsTimed
<1>1. MapInv => SessionIsTimed
  BY DEF MapInv, OwnSession, SessionIsTimed
<1>. QED
  BY <1>1, MapHolds, PTL

-----------------------------------------------------------------------------
(***************************************************************************)
(* The searches.  A call that has had its IDs since the search began is    *)
(* counted, or Range still comes to the ID under which it will be.         *)
(***************************************************************************)

\* Range will still come to the call's ID, or is just there.
Coming(s, c) == \/ virtualUASDialogID(c) \in search[s].todo
                \/ search[s].pc = "callback" /\ search[s].entry = <<virtualUASDialogID(c), c>>

Wanted(s, c) == IsList(s) \/ invite[c] = search[s].callID
Found(s, c) == search[s].found[c] > 0

Searching(s) ==
  /\ search[s].pc = "idle" =>
       seen[s].always = {} /\ \A c \in Calls : search[s].found[c] = 0
  /\ search[s].pc \in {"range", "callback"} =>
       seen[s].always \subseteq Entered /\ (~IsList(s) => \A c \in Calls : ~Found(s, c))
  /\ search[s].pc = "callback" =>
       /\ Value(s) \in seen[s].once
       /\ Key(s) \notin search[s].todo
  /\ search[s].pc = "done" => search[s].todo = {}
  /\ \A c \in Calls :
       /\ Found(s, c) => c \in seen[s].once /\ Wanted(s, c)
       /\ IsList(s) => search[s].found[c] <= 1 /\ (Found(s, c) => ~Coming(s, c))
       /\ c \in seen[s].always /\ Wanted(s, c) =>
            Coming(s, c) \/ Found(s, c) \/ (~IsList(s) /\ \E d \in Calls : Found(s, d))

SearchInv == MapInv /\ \A s \in Searches : Searching(s)

LEMMA SearchInit == Init => SearchInv
<1> SUFFICES ASSUME Init, NEW s \in Searches PROVE Searching(s)
  BY MapInit DEF SearchInv
<1>1. /\ search[s].pc = "idle" /\ \A c \in Calls : search[s].found[c] = 0
      /\ seen[s].always = {}
  BY DEF Init, NoSearch
<1>. QED
  BY <1>1 DEF Searching, Found

\* Observe, for a search by where it is.
LEMMA Observes ==
  ASSUME TypeOK, Observe, NEW s \in Searches
  PROVE  /\ search'[s].pc = "idle" \/ search[s].pc = "done" => seen'[s] = seen[s]
         /\ search[s].pc \in {"range", "callback"} /\ search'[s].pc /= "idle" =>
              /\ seen'[s].always = seen[s].always \cap Entered'
              /\ seen'[s].once = seen[s].once \cup InUse'
         /\ search[s].pc = "idle" /\ search'[s].pc /= "idle" =>
              seen'[s].always = Entered /\ seen'[s].once = InUse
BY DEF Observe

\* What others do, to the dialogs too, leaves a search right.
LEMMA OthersStep ==
  ASSUME SearchInv, TypeOK', NEW s \in Searches, Observe, invite' = invite, search'[s] = search[s]
  PROVE  Searching(s)'
<1>1. \A c \in Calls : /\ Coming(s, c)' <=> Coming(s, c)
                       /\ Wanted(s, c)' <=> Wanted(s, c)
                       /\ Found(s, c)' <=> Found(s, c)
  BY DEF Coming, Wanted, Found, IsList, virtualUASDialogID
<1>2. (IsList(s)' <=> IsList(s)) /\ Value(s)' = Value(s) /\ Key(s)' = Key(s)
  BY DEF IsList, Value, Key
<1>3. /\ seen'[s].always \subseteq seen[s].always /\ seen[s].once \subseteq seen'[s].once
      /\ search[s].pc \in {"range", "callback"} => seen'[s].always \subseteq Entered'
  <2>1. search[s].pc \in {"idle", "range", "callback", "done"}
    BY DEF SearchInv, MapInv, TypeOK, SearchType
  <2>. QED
    BY <2>1, Observes DEF SearchInv, MapInv
<1>. QED
  BY <1>1, <1>2, <1>3 DEF SearchInv, Searching

\* The search's own steps, which leave the dialogs alone.
LEMMA OwnStep ==
  ASSUME SearchInv, TypeOK', NEW s \in Searches, Observe, SearchStep(s)
  PROVE  Searching(s)'
<1>t. TypeOK /\ Searching(s) /\ search[s] \in SearchType /\ search'[s] \in SearchType
  BY DEF SearchInv, MapInv, TypeOK
<1>d. UNCHANGED <<invite, dialogs>>
  BY DEF SearchStep, Begins, Visits, GetActiveSession, DisconnectSession, Ends, callVars
<1>e. Entered' = Entered /\ InUse' = InUse
  BY <1>d DEF Entered, InUse, Mine, virtualUASDialogID, virtualUACDialogID
<1>i. \A c \in Calls : /\ virtualUASDialogID(c)' = virtualUASDialogID(c)
                       /\ virtualUASDialogID(c) \in Ids
  BY <1>t, <1>d, MineAreIds DEF virtualUASDialogID, TypeOK
<1>1. CASE Begins(s)
  <2>1. /\ search[s].pc = "idle" /\ search'[s].pc = "range"
        /\ search'[s].todo = Ids /\ \A c \in Calls : search'[s].found[c] = 0
        /\ seen'[s].always = Entered'
    BY <1>t, <1>1, <1>e, BeginsIs, Observes DEF Searching
  <2>2. \A c \in Calls : Coming(s, c)' /\ ~Found(s, c)'
    BY <1>i, <2>1 DEF Coming, Found
  <2>. QED
    BY <2>1, <2>2 DEF Searching, IsList
<1>u. CASE ~Begins(s)
  <2>1. search[s].pc \in {"range", "callback"} /\ search'[s].pc /= "idle"
        /\ search'[s].callID = search[s].callID
    BY <1>t, <1>u, VisitsIs, CallbackIs, EndsIs DEF SearchStep
  <2>2. /\ seen'[s].always = seen[s].always /\ seen'[s].always \subseteq Entered'
        /\ seen'[s].once = seen[s].once \cup InUse
    <3>1. seen[s].always \subseteq Entered
      BY <1>t, <2>1 DEF Searching
    <3>. QED
      BY <1>t, <1>e, <2>1, <3>1, Observes
  <2>3. /\ IsList(s)' <=> IsList(s)
        /\ \A c \in Calls : Wanted(s, c)' <=> Wanted(s, c)
    BY <1>d, <2>1 DEF IsList, Wanted
  <2>4. CASE Visits(s)
    <3>1. PICK i \in search[s].todo :
            /\ search'[s].todo = search[s].todo \ {i}
            /\ \/ dialogs[i] = None /\ search'[s].pc = "range"
               \/ /\ dialogs[i] \in Calls /\ search'[s].pc = "callback"
                  /\ search'[s].entry = <<i, dialogs[i]>>
      BY <1>t, <2>4, VisitsIs
    <3>2. search[s].pc = "range" /\ search'[s].found = search[s].found /\ i \in Ids
      BY <1>t, <2>4, VisitsIs DEF SearchType
    <3>3. search'[s].pc = "callback" =>
            Value(s)' \in seen'[s].once /\ Key(s)' \notin search'[s].todo
      <4>1. ASSUME dialogs[i] \in Calls PROVE i \in Mine(dialogs[i]) /\ dialogs[i] \in InUse
        BY <4>1, <3>2, CallsAssumption DEF SearchInv, MapInv, NoDeadEntry, InUse, TypeOK
      <4>. QED
        BY <2>2, <3>1, <3>2, <4>1 DEF Value, Key
    <3>4. ASSUME NEW c \in Calls
          PROVE  /\ Coming(s, c)' => Coming(s, c)
                 /\ Coming(s, c) /\ c \in Entered => Coming(s, c)'
      <4>1. search'[s].pc = "callback" => search'[s].entry = <<i, dialogs[i]>>
        BY <3>1
      <4>2. c \in Entered => dialogs[virtualUASDialogID(c)] = c
        BY DEF Entered, Mine
      <4>. QED
        BY <1>i, <3>1, <3>2, <4>1, <4>2, CallsAssumption DEF Coming
    <3>5. \A c \in Calls : Found(s, c)' <=> Found(s, c)
      BY <3>2 DEF Found
    <3>. QED
      BY <1>t, <1>e, <2>1, <2>2, <2>3, <3>1, <3>2, <3>3, <3>4, <3>5 DEF Searching
  <2>5. CASE GetActiveSession(s) \/ DisconnectSession(s)
    <3>1. PICK i \in Ids, v \in Calls : search[s].entry = <<i, v>>
      BY <1>t, <2>5, CallbackIs
    <3>2. Value(s) = v /\ Key(s) = i /\ search[s].pc = "callback"
      BY <1>t, <2>5, <3>1, CallbackIs DEF Value, Key
    <3>3. v \in seen[s].once /\ i \notin search[s].todo
      BY <1>t, <3>2 DEF Searching
    <3>4. CASE IsList(s)
      <4>1. /\ search'[s].pc = "range" /\ search'[s].todo = search[s].todo
            /\ \A c \in Calls : search'[s].found[c] =
                 IF i = virtualUASDialogID(v) /\ c = v THEN search[s].found[c] + 1
                                                      ELSE search[s].found[c]
        BY <1>t, <2>5, <3>2, <3>4, CallbackIs DEF IsListed
      <4>2. \A c \in Calls : search[s].found[c] \in Nat
        BY <1>t DEF SearchType
      <4>3. ASSUME NEW c \in Calls
            PROVE  /\ search'[s].found[c] <= 1
                   /\ Found(s, c)' => ~Coming(s, c)' /\ c \in seen'[s].once /\ Wanted(s, c)'
                   /\ Coming(s, c) \/ Found(s, c) => Coming(s, c)' \/ Found(s, c)'
        <5>1. /\ Found(s, c) => c \in seen[s].once /\ ~Coming(s, c)
              /\ search[s].found[c] <= 1 /\ Wanted(s, c)
          BY <1>t, <3>4 DEF Searching, Wanted
        <5>2. /\ Coming(s, c)' <=> virtualUASDialogID(c) \in search[s].todo
              /\ Coming(s, c) <=> \/ virtualUASDialogID(c) \in search[s].todo
                                  \/ i = virtualUASDialogID(c) /\ c = v
          BY <1>i, <3>1, <3>2, <4>1 DEF Coming
        <5>3. CASE i = virtualUASDialogID(v) /\ c = v
          BY <2>2, <2>3, <3>3, <4>1, <4>2, <5>1, <5>2, <5>3 DEF Found
        <5>4. CASE ~(i = virtualUASDialogID(v) /\ c = v)
          BY <2>2, <2>3, <4>1, <4>2, <5>1, <5>2, <5>4 DEF Found
        <5>. QED
          BY <5>3, <5>4
      <4>4. \A c \in Calls : c \in seen[s].always => Coming(s, c) \/ Found(s, c)
        BY <1>t, <3>4 DEF Searching, Wanted
      <4>. QED
        BY <2>2, <2>3, <3>4, <4>1, <4>3, <4>4 DEF Searching
    <3>5. CASE ~IsList(s)
      <4>1. /\ \A c \in Calls : search'[s].found[c] =
                 IF invite[v] = search[s].callID /\ c = v THEN 1 ELSE search[s].found[c]
            /\ IF invite[v] = search[s].callID
               THEN search'[s].pc = "done" /\ search'[s].todo = {}
               ELSE search'[s].pc = "range" /\ search'[s].todo = search[s].todo
        BY <1>t, <2>5, <3>2, <3>5, CallbackIs
      <4>2. \A c \in Calls : ~Found(s, c) /\ search[s].found[c] \in Nat
        BY <1>t, <3>2, <3>5 DEF Searching, SearchType
      <4>3. CASE invite[v] = search[s].callID
        <5>1. Found(s, v)' /\ Wanted(s, v) /\ \A c \in Calls : Found(s, c)' => c = v
          BY <4>1, <4>2, <4>3 DEF Found, Wanted
        <5>. QED
          BY <2>2, <2>3, <3>3, <3>5, <4>1, <4>3, <5>1 DEF Searching
      <4>4. CASE invite[v] /= search[s].callID
        <5>1. \A c \in Calls : ~Found(s, c)'
          BY <4>1, <4>2, <4>4 DEF Found
        <5>2. ASSUME NEW c \in Calls, Wanted(s, c), Coming(s, c) PROVE Coming(s, c)'
          BY <1>i, <3>1, <3>5, <4>1, <4>4, <5>2 DEF Coming, Wanted
        <5>3. \A c \in Calls : c \in seen[s].always /\ Wanted(s, c) => Coming(s, c)
          BY <1>t, <4>2 DEF Searching
        <5>. QED
          BY <2>2, <2>3, <3>5, <4>1, <4>4, <5>1, <5>2, <5>3 DEF Searching
      <4>. QED
        BY <4>3, <4>4
    <3>. QED
      BY <3>4, <3>5
  <2>6. CASE Ends(s)
    <3>1. /\ search[s].pc = "range" /\ search'[s].pc = "done"
          /\ search[s].todo = {} /\ search'[s].todo = {} /\ search'[s].found = search[s].found
      BY <1>t, <2>6, EndsIs
    <3>2. \A c \in Calls : ~Coming(s, c) /\ ~Coming(s, c)' /\ (Found(s, c)' <=> Found(s, c))
      BY <3>1 DEF Coming, Found
    <3>. QED
      BY <1>t, <2>1, <2>2, <2>3, <3>1, <3>2 DEF Searching
  <2>. QED
    BY <1>u, <2>4, <2>5, <2>6 DEF SearchStep
<1>. QED
  BY <1>1, <1>u

LEMMA SearchNext == SearchInv /\ [Next]_vars => SearchInv'
<1> SUFFICES ASSUME SearchInv, [Next]_vars, NEW s \in Searches PROVE Searching(s)'
  BY MapNext DEF SearchInv
<1>t. TypeOK'
  BY MapNext DEF SearchInv, MapInv
<1>1. CASE UNCHANGED vars
  BY <1>1 DEF vars, callVars, SearchInv, Searching, Entered, Mine, Coming, Wanted, Found, IsList,
     Value, Key, virtualUASDialogID, virtualUACDialogID
<1>2. CASE Next
  <2>1. invite' = invite
    BY <1>2 DEF Next, CallStep, TimerStep, SearchStep, Establishes, Starts, StartsNoSession,
       HangsUp, CleansUp, Panics, Fires, Expires, Begins, Visits, GetActiveSession,
       DisconnectSession, Ends, callVars
  <2>2. SearchStep(s) \/ search'[s] = search[s]
    <3>1. ASSUME NEW t \in Searches, SearchStep(t) PROVE t = s \/ search'[s] = search[s]
      BY <3>1, BeginsIs, VisitsIs, CallbackIs, EndsIs DEF SearchStep, SearchInv, MapInv
    <3>. QED
      BY <1>2, <3>1 DEF Next, CallStep, TimerStep, Establishes, Starts, StartsNoSession, HangsUp,
         CleansUp, Panics, Fires, Expires
  <2>. QED
    BY <1>2, <1>t, <2>1, <2>2, OwnStep, OthersStep DEF Next
<1>. QED
  BY <1>1, <1>2

LEMMA SearchHolds == Spec => []SearchInv
BY SearchInit, SearchNext, PTL DEF Spec

\* Whatever happens to server.dialogs while Range goes through it one key after the other,
\* a list names every call that was there all the time, each once, and none that never was;
\* and a disconnection that finds nothing had nothing to find.
THEOREM Faithful == Spec => []SearchIsFaithful
<1>1. ASSUME SearchInv, NEW s \in Searches, search[s].pc = "done"
      PROVE  LET found == {c \in Calls : search[s].found[c] > 0}
                 wanted == {c \in Calls : IsList(s) \/ invite[c] = search[s].callID}
             IN /\ found \subseteq wanted \cap seen[s].once
                /\ IsList(s) => /\ seen[s].always \subseteq found
                                /\ \A c \in Calls : search[s].found[c] <= 1
                /\ ~IsList(s) /\ found = {} => seen[s].always \cap wanted = {}
  <2>1. Searching(s) /\ seen[s].always \subseteq Calls
    BY <1>1 DEF SearchInv, MapInv, TypeOK
  <2>2. \A c \in Calls : ~Coming(s, c)
    BY <1>1, <2>1 DEF Searching, Coming
  <2>. QED
    BY <1>1, <2>1, <2>2 DEF Searching, Found, Wanted
<1>2. SearchInv => SearchIsFaithful
  BY <1>1 DEF SearchIsFaithful
<1>. QED
  BY <1>2, SearchHolds, PTL

-----------------------------------------------------------------------------
(***************************************************************************)
(* PART 2.  Guidance: the settings and the calls                           *)
(***************************************************************************)

-----------------------------------------------------------------------------
(***************************************************************************)
(* The inductive invariant                                                 *)
(***************************************************************************)

\* Between the two writes of a submission the database has what is written to the memory
\* next, and nobody else is there; unless two submissions overlapped.  A process that
\* ended has left nothing behind but the database.
SettingsInv ==
  /\ up /\ ~overlapped => /\ \A p \in Submitters : pc[p] = "update" => form[p] = db
                          /\ \A p, q \in Submitters :
                               pc[p] = "update" /\ pc[q] = "update" => p = q
                          /\ (\A p \in Submitters : pc[p] /= "update") => memory = AsMap(db)
  /\ ~up => /\ \A p \in Submitters : pc[p] = "idle"
            /\ before = Empty \/ before = AsMap(db)

\* What the end of a call must be preceded by.
Told(x) == x.byes > 0 \/ x.unsent \/ x.failed \/ x.missed

\* The connection is closed, and Run is told, only by the end of a file, after the BYE
\* that was or could not be sent, or by a failure; a connection that is closed before Run
\* has set its handler is one whose change is missed.
AppInv(x) ==
  /\ x.handler <=> x.run \in {"ack", "wait", "ended"}
  /\ x.closing > 0 => Told(x)
  /\ x.conn = "closed" => Told(x)
  /\ \A e \in {"failed", "closed"} : x.callback[e] /= "none" => Told(x)
  /\ x.done => Told(x)
  /\ x.run = "ended" => x.done

GuidanceIInv == GuidanceTypeOK /\ SettingsInv /\ \A a \in Apps : AppInv(app[a])

-----------------------------------------------------------------------------
(***************************************************************************)
(* Lists of rows                                                           *)
(***************************************************************************)

\* A set of natural numbers has a least one, which is how what holds of the rows up to
\* some index is carried to all of them.
LEMMA LeastOf ==
  ASSUME NEW T \in SUBSET Nat, T /= {}
  PROVE  \E m \in T : \A k \in T : m <= k
<1> DEFINE R == OpToRel(<, Nat)
<1>1. PICK m \in T : \A k \in T : <<k, m>> \notin R
  <2> HIDE DEF R
  <2> QED BY NatLessThanWellFounded, WFMin DEF R
<1>2. \A k \in T : ~ (k < m)
  BY <1>1 DEF OpToRel
<1>3. m \in Nat /\ \A k \in T : k \in Nat
  BY <1>1
<1> HIDE DEF R
<1> QED BY <1>2, <1>3

\* A table of the filled rows up to each index.
IsTable(f, rows) ==
  f = [n \in 0 .. Len(rows) |->
         IF n = 0 THEN <<>>
         ELSE IF rows[n] \in Setting THEN Append(f[n - 1], rows[n]) ELSE f[n - 1]]

\* There is such a table, and Filled reads its last entry.
LEMMA TableExists ==
  ASSUME NEW rows \in Seq([uri : Uris \cup {Blank}, file : Files \cup {Blank}])
  PROVE  \E f : IsTable(f, rows) /\ Filled(rows) = f[Len(rows)]
<1> DEFINE N == Len(rows)
           Step(f, n) == IF n = 0 THEN <<>>
                         ELSE IF rows[n] \in Setting THEN Append(f[n - 1], rows[n])
                                                     ELSE f[n - 1]
           Upto(m) == \E f : f = [n \in 0 .. m |-> Step(f, n)]
<1>1. N \in Nat
  OBVIOUS
<1>2. Upto(0)
  <2>1. [n \in 0 .. 0 |-> <<>>] = [n \in 0 .. 0 |-> Step([k \in 0 .. 0 |-> <<>>], n)]
    OBVIOUS
  <2> QED BY <2>1
<1>3. ASSUME NEW m \in 0 .. N - 1, Upto(m) PROVE Upto(m + 1)
  <2>1. PICK f : f = [n \in 0 .. m |-> Step(f, n)]
    BY <1>3
  <2> DEFINE g == [n \in 0 .. m + 1 |-> IF n <= m THEN f[n] ELSE Step(f, n)]
  <2>2. \A n \in 0 .. m : g[n] = f[n]
    BY <1>1
  <2>3. \A n \in 0 .. m + 1 : Step(g, n) = Step(f, n)
    <3> HIDE DEF g
    <3> QED BY <1>1, <2>2
  <2>4. \A n \in 0 .. m : f[n] = Step(f, n)
    BY <2>1
  <2>5. \A n \in 0 .. m + 1 : g[n] = Step(f, n)
    <3> HIDE DEF Step
    <3> QED BY <1>1, <2>4
  <2>6. g = [n \in 0 .. m + 1 |-> Step(g, n)]
    <3>1. g = [n \in 0 .. m + 1 |-> g[n]]
      OBVIOUS
    <3> HIDE DEF g, Step
    <3> QED BY <2>3, <2>5, <3>1
  <2> HIDE DEF g
  <2> QED BY <2>6
<1>4. Upto(N)
  <2> DEFINE T == {m \in 0 .. N : ~Upto(m)}
  <2> HIDE DEF Upto
  <2>1. ASSUME T /= {} PROVE FALSE
    <3>1. PICK m \in T : \A k \in T : m <= k
      <4>1. T \in SUBSET Nat
        BY <1>1
      <4> HIDE DEF T
      <4> QED BY <2>1, <4>1, LeastOf
    <3>2. m /= 0 /\ m - 1 \in 0 .. N - 1
      BY <1>1, <1>2
    <3>3. m - 1 \notin T
      BY <3>1, <3>2, <1>1
    <3>4. Upto(m - 1)
      BY <3>2, <3>3, <1>1
    <3>5. Upto((m - 1) + 1)
      BY <1>3, <3>2, <3>4
    <3>6. (m - 1) + 1 = m
      BY <1>1
    <3> QED BY <3>5, <3>6
  <2> QED BY <1>1, <2>1
<1>5. \E f : IsTable(f, rows)
  BY <1>4 DEF IsTable
<1> DEFINE upTo == CHOOSE f : IsTable(f, rows)
<1>6. IsTable(upTo, rows)
  <2> HIDE DEF Upto
  <2> QED BY <1>5
<1>7. Filled(rows) = upTo[Len(rows)]
  BY DEF Filled, IsTable
<1> QED BY <1>6, <1>7

\* What a submission saves is a list of settings.
LEMMA FilledRows == \A rows \in Forms : Filled(rows) \in Seq(Setting)
<1> SUFFICES ASSUME NEW rows \in Forms PROVE Filled(rows) \in Seq(Setting)
  OBVIOUS
<1> DEFINE N == Len(rows)
<1>1. rows \in Seq([uri : Uris \cup {Blank}, file : Files \cup {Blank}])
  BY GuidanceSettingsAssumption
<1>2. N \in Nat
  BY <1>1
<1>3. PICK f : IsTable(f, rows) /\ Filled(rows) = f[N]
  BY <1>1, TableExists
<1>4. f[0] = <<>>
  BY <1>2, <1>3 DEF IsTable
<1>5. \A n \in 1 .. N : f[n] = IF rows[n] \in Setting THEN Append(f[n - 1], rows[n])
                                                      ELSE f[n - 1]
  <2> DEFINE Step(n) == IF n = 0 THEN <<>>
                        ELSE IF rows[n] \in Setting THEN Append(f[n - 1], rows[n])
                                                    ELSE f[n - 1]
  <2>1. f = [n \in 0 .. N |-> Step(n)]
    BY <1>3 DEF IsTable
  <2>2. \A n \in 1 .. N : n \in 0 .. N /\ n /= 0
    BY <1>2
  <2>3. \A n \in 0 .. N : f[n] = Step(n)
    <3> HIDE DEF Step
    <3> QED BY <2>1
  <2> QED BY <2>2, <2>3
<1> DEFINE T == {n \in 0 .. N : f[n] \notin Seq(Setting)}
<1>6. ASSUME T /= {} PROVE FALSE
  <2>1. PICK m \in T : \A k \in T : m <= k
    <3>1. T \in SUBSET Nat
      BY <1>2
    <3> HIDE DEF T
    <3> QED BY <1>6, <3>1, LeastOf
  <2>2. m \in 1 .. N
    <3>1. f[0] \in Seq(Setting)
      BY <1>4
    <3> QED BY <1>2, <3>1
  <2>3. f[m - 1] \in Seq(Setting)
    <3>1. m - 1 \notin T /\ m - 1 \in 0 .. N
      BY <1>2, <2>1, <2>2
    <3> QED BY <3>1
  <2>4. f[m] \in Seq(Setting)
    <3>1. CASE rows[m] \in Setting
      <4>1. f[m] = Append(f[m - 1], rows[m])
        BY <1>5, <2>2, <3>1
      <4> HIDE DEF T
      <4> QED BY <2>3, <3>1, <4>1
    <3>2. CASE rows[m] \notin Setting
      BY <1>5, <2>2, <2>3, <3>2
    <3> QED BY <3>1, <3>2
  <2> QED BY <2>4
<1> QED BY <1>2, <1>3, <1>6

\* A list is a map from users to files.
LEMMA MapOfList ==
  \A list \in Seq(Setting) : /\ DOMAIN AsMap(list) \subseteq Uris
                             /\ \A u \in DOMAIN AsMap(list) : AsMap(list)[u] \in Files
<1> SUFFICES ASSUME NEW list \in Seq(Setting)
             PROVE  /\ DOMAIN AsMap(list) \subseteq Uris
                    /\ \A u \in DOMAIN AsMap(list) : AsMap(list)[u] \in Files
  OBVIOUS
<1>1. \A i \in DOMAIN list : list[i].uri \in Uris /\ list[i].file \in Files
  <2>1. \A i \in DOMAIN list : list[i] \in Setting
    OBVIOUS
  <2> QED BY <2>1 DEF Setting
<1>2. ASSUME NEW u \in {list[i].uri : i \in DOMAIN list} PROVE Last(list, u) \in DOMAIN list
  <2> DEFINE N == Len(list)
             T == {k \in 0 .. N : \E i \in DOMAIN list : list[i].uri = u /\ k = N - i}
  <2>1. N \in Nat /\ DOMAIN list = 1 .. N
    OBVIOUS
  <2>2. T \in SUBSET Nat /\ T /= {}
    BY <1>2, <2>1
  <2>3. PICK m \in T : \A k \in T : m <= k
    <3> HIDE DEF T
    <3> QED BY <2>2, LeastOf
  <2>4. PICK i \in DOMAIN list : list[i].uri = u /\ m = N - i
    BY <2>3
  <2>5. \A j \in DOMAIN list : list[j].uri = u => j <= i
    <3>1. \A j \in DOMAIN list : list[j].uri = u => N - j \in T
      BY <2>1
    <3> HIDE DEF T
    <3> QED BY <2>1, <2>3, <2>4, <3>1
  <2> QED BY <2>4, <2>5 DEF Last
<1> QED BY <1>1, <1>2 DEF AsMap

-----------------------------------------------------------------------------
(***************************************************************************)
(* The settings                                                            *)
(***************************************************************************)

LEMMA EmptyMap == Empty = AsMap(<<>>) /\ <<>> \in Seq(Setting) /\ DOMAIN Empty \subseteq Uris
<1>1. <<>> \in Seq(Setting)
  OBVIOUS
<1>2. DOMAIN AsMap(<<>>) \subseteq Uris
  BY <1>1, MapOfList
<1> QED BY <1>1, <1>2 DEF Empty

LEMMA DefaultList == Default \in Seq(Setting)
BY GuidanceSettingsAssumption DEF Default, Setting

LEMMA SettingsStart == SettingsInit => SettingsTypeOK /\ SettingsInv
BY EmptyMap, MapOfList DEF SettingsInit, SettingsTypeOK, SettingsInv

\* The process starts with what the database has, which is the default if it has nothing.
LEMMA StartsUp == SettingsTypeOK /\ SettingsInv /\ Start => SettingsTypeOK' /\ SettingsInv'
<1> SUFFICES ASSUME SettingsTypeOK, SettingsInv, Start
             PROVE  SettingsTypeOK' /\ SettingsInv'
  OBVIOUS
<1>1. db' \in Seq(Setting)
  BY DefaultList DEF Start, SettingsTypeOK
<1>2. SettingsTypeOK'
  BY <1>1, MapOfList DEF Start, SettingsTypeOK
<1>3. SettingsInv'
  BY DEF Start, SettingsInv, SettingsTypeOK
<1> QED BY <1>2, <1>3

\* What was in force when the process ended is what the database has, if it was settled.
LEMMA GoesDown == SettingsTypeOK /\ SettingsInv /\ Down => SettingsTypeOK' /\ SettingsInv'
<1> SUFFICES ASSUME SettingsTypeOK, SettingsInv, Down
             PROVE  SettingsTypeOK' /\ SettingsInv'
  OBVIOUS
<1>1. SettingsTypeOK'
  BY EmptyMap, MapOfList DEF Down, SettingsTypeOK
<1>2. Settled => memory = AsMap(db)
  BY DEF Down, Settled, SettingsInv
<1>3. SettingsInv'
  BY <1>2 DEF Down, SettingsInv, SettingsTypeOK
<1> QED BY <1>1, <1>3

LEMMA Submits ==
  ASSUME SettingsTypeOK, SettingsInv, NEW p \in Submitters, Submit(p)
  PROVE  SettingsTypeOK' /\ SettingsInv'
<1>1. SettingsTypeOK'
  BY FilledRows DEF Submit, SettingsTypeOK
<1>2. \A q \in Submitters : pc'[q] = "update" <=> pc[q] = "update"
  BY DEF Submit, SettingsTypeOK
<1>3. \A q \in Submitters : pc[q] = "update" => form'[q] = form[q]
  BY DEF Submit, SettingsTypeOK
<1>4. SettingsInv'
  BY <1>2, <1>3 DEF Submit, SettingsInv
<1> QED BY <1>1, <1>4

\* A submission that saves while no other is between its writes is the only one there.
LEMMA SavesForm ==
  ASSUME SettingsTypeOK, SettingsInv, NEW p \in Submitters, Saves(p)
  PROVE  SettingsTypeOK' /\ SettingsInv'
<1>1. CASE Saved(p)
  <2>1. SettingsTypeOK'
    BY <1>1 DEF Saves, Saved, SettingsTypeOK
  <2>2. \A q \in Submitters : pc'[q] = "update" <=> q = p \/ pc[q] = "update"
    BY <1>1 DEF Saved, SettingsTypeOK
  <2>3. SettingsInv'
    BY <1>1, <2>2 DEF Saves, Saved, SettingsInv
  <2> QED BY <2>1, <2>3
<1>2. CASE NotSaved(p)
  <2>1. SettingsTypeOK'
    BY <1>2, EmptyMap DEF Saves, NotSaved, SettingsTypeOK
  <2>2. \A q \in Submitters : pc'[q] = "update" <=> pc[q] = "update"
    BY <1>2 DEF Saves, NotSaved, SettingsTypeOK
  <2>3. \A q \in Submitters : pc[q] = "update" => form'[q] = form[q]
    BY <1>2 DEF Saves, NotSaved, SettingsTypeOK
  <2>4. SettingsInv'
    BY <1>2, <2>2, <2>3 DEF Saves, NotSaved, SettingsInv
  <2> QED BY <2>1, <2>4
<1> QED BY <1>1, <1>2 DEF Saves

LEMMA UpdatesMemory ==
  ASSUME SettingsTypeOK, SettingsInv, NEW p \in Submitters, Updates(p)
  PROVE  SettingsTypeOK' /\ SettingsInv'
<1>1. form[p] \in Seq(Setting)
  BY DEF SettingsTypeOK
<1>2. SettingsTypeOK'
  BY <1>1, MapOfList, EmptyMap DEF Updates, SettingsTypeOK
<1>3. \A q \in Submitters : /\ pc'[q] = "update" => pc[q] = "update" /\ q /= p
                            /\ q /= p => pc'[q] = pc[q] /\ form'[q] = form[q]
  BY DEF Updates, SettingsTypeOK
<1>4. SettingsInv'
  BY <1>3 DEF Updates, SettingsInv
<1> QED BY <1>2, <1>4

LEMMA SettingsKept ==
  SettingsTypeOK /\ SettingsInv /\ (SettingsStep \/ Down \/ UNCHANGED settingsVars)
    => SettingsTypeOK' /\ SettingsInv'
<1>1. SettingsTypeOK /\ SettingsInv /\ UNCHANGED settingsVars => SettingsTypeOK' /\ SettingsInv'
  BY DEF settingsVars, SettingsTypeOK, SettingsInv
<1> QED BY <1>1, StartsUp, GoesDown, Submits, SavesForm, UpdatesMemory DEF SettingsStep

-----------------------------------------------------------------------------
(***************************************************************************)
(* The calls                                                               *)
(***************************************************************************)

LEMMA NewApp == NoApp \in AppType /\ AppInv(NoApp)
<1>1. NoApp \in AppType
  BY GuidanceAssumption DEF NoApp, AppType
<1>2. AppInv(NoApp)
  BY DEF NoApp, AppInv, Told
<1> QED BY <1>1, <1>2

\* What a change of the connection does to a call: the callback, if there is one for it,
\* is under way, or the change is missed.
LEMMA ChangeFields ==
  ASSUME NEW x \in AppType, NEW c \in {"connected", "disconnected", "failed", "closed"},
         NEW z, z = Changed(x, c)
  PROVE  /\ z \in AppType
         /\ z.run = x.run /\ z.unsent = x.unsent /\ z.handler = x.handler
         /\ z.connects = x.connects /\ z.streams = x.streams /\ z.closing = x.closing
         /\ z.byes = x.byes /\ z.done = x.done
         /\ z.conn = c
         /\ x.failed \/ c = "failed" => z.failed
         /\ x.missed \/ (c = "closed" /\ ~x.handler) => z.missed
         /\ \A e \in {"failed", "closed"} :
              z.callback[e] /= "none" => x.callback[e] /= "none" \/ e = c
<1> DEFINE y == [x EXCEPT !.conn = c, !.failed = @ \/ c = "failed"]
<1>1. y \in AppType
  BY DEF AppType
<1>2. /\ y.run = x.run /\ y.unsent = x.unsent /\ y.handler = x.handler
      /\ y.connects = x.connects /\ y.streams = x.streams /\ y.closing = x.closing
      /\ y.byes = x.byes /\ y.done = x.done /\ y.connected = x.connected
      /\ y.conn = c /\ y.failed = (x.failed \/ c = "failed") /\ y.missed = x.missed
      /\ y.callback = x.callback
  BY DEF AppType
<1>3. CASE z = y /\ ~(c = "closed" /\ ~x.handler)
  <2> HIDE DEF y
  <2> QED BY <1>1, <1>2, <1>3
<1> HIDE DEF y
<1>4. CASE z = [y EXCEPT !.missed = TRUE]
  <2>1. z \in AppType
    BY <1>1, <1>4 DEF AppType
  <2>2. /\ z.run = y.run /\ z.unsent = y.unsent /\ z.handler = y.handler
        /\ z.connects = y.connects /\ z.streams = y.streams /\ z.closing = y.closing
        /\ z.byes = y.byes /\ z.done = y.done /\ z.conn = y.conn /\ z.failed = y.failed
        /\ z.missed /\ z.callback = y.callback
    <3>1. /\ z.run = y.run /\ z.unsent = y.unsent /\ z.handler = y.handler
          /\ z.connects = y.connects
      BY <1>1, <1>4 DEF AppType
    <3>2. /\ z.streams = y.streams /\ z.closing = y.closing /\ z.byes = y.byes
          /\ z.done = y.done
      BY <1>1, <1>4 DEF AppType
    <3>3. /\ z.conn = y.conn /\ z.failed = y.failed
          /\ z.missed /\ z.callback = y.callback
      BY <1>1, <1>4 DEF AppType
    <3> QED BY <3>1, <3>2, <3>3
  <2> QED BY <1>2, <2>1, <2>2
<1>5. CASE z = [y EXCEPT !.connected = @ + 1] /\ c = "connected"
  <2>1. z \in AppType
    BY <1>1, <1>5 DEF AppType
  <2>2. /\ z.run = y.run /\ z.unsent = y.unsent /\ z.handler = y.handler
        /\ z.connects = y.connects /\ z.streams = y.streams /\ z.closing = y.closing
        /\ z.byes = y.byes /\ z.done = y.done /\ z.conn = y.conn /\ z.failed = y.failed
        /\ z.missed = y.missed /\ z.callback = y.callback
    <3>1. /\ z.run = y.run /\ z.unsent = y.unsent /\ z.handler = y.handler
          /\ z.connects = y.connects
      BY <1>1, <1>5 DEF AppType
    <3>2. /\ z.streams = y.streams /\ z.closing = y.closing /\ z.byes = y.byes
          /\ z.done = y.done
      BY <1>1, <1>5 DEF AppType
    <3>3. /\ z.conn = y.conn /\ z.failed = y.failed
          /\ z.missed = y.missed /\ z.callback = y.callback
      BY <1>1, <1>5 DEF AppType
    <3> QED BY <3>1, <3>2, <3>3
  <2> QED BY <1>2, <1>5, <2>1, <2>2
<1>6. CASE z = [y EXCEPT !.callback[c] = "check"] /\ c \in {"failed", "closed"} /\ x.handler
  <2>1. z \in AppType
    BY <1>1, <1>6 DEF AppType
  <2>2. /\ z.run = y.run /\ z.unsent = y.unsent /\ z.handler = y.handler
        /\ z.connects = y.connects /\ z.streams = y.streams /\ z.closing = y.closing
        /\ z.byes = y.byes /\ z.done = y.done /\ z.conn = y.conn /\ z.failed = y.failed
        /\ z.missed = y.missed
    <3>1. /\ z.run = y.run /\ z.unsent = y.unsent /\ z.handler = y.handler
          /\ z.connects = y.connects
      BY <1>1, <1>6 DEF AppType
    <3>2. /\ z.streams = y.streams /\ z.closing = y.closing /\ z.byes = y.byes
          /\ z.done = y.done
      BY <1>1, <1>6 DEF AppType
    <3>3. /\ z.conn = y.conn /\ z.failed = y.failed
          /\ z.missed = y.missed
      BY <1>1, <1>6 DEF AppType
    <3> QED BY <3>1, <3>2, <3>3
  <2>3. \A e \in {"failed", "closed"} : e /= c => z.callback[e] = y.callback[e]
    BY <1>1, <1>6 DEF AppType
  <2> QED BY <1>2, <1>6, <2>1, <2>2, <2>3
<1> QED BY <1>3, <1>4, <1>5, <1>6 DEF Changed, y

\* A change keeps the invariant, if the connection is closed only by one who may.
LEMMA ChangeKeeps ==
  ASSUME NEW x \in AppType, AppInv(x),
         NEW c \in {"connected", "disconnected", "failed", "closed"},
         c = "closed" => Told(x) \/ ~x.handler
  PROVE  AppInv(Changed(x, c)) /\ (Told(x) => Told(Changed(x, c)))
<1> DEFINE z == Changed(x, c)
<1>1. /\ z \in AppType
      /\ z.run = x.run /\ z.unsent = x.unsent /\ z.handler = x.handler
      /\ z.closing = x.closing /\ z.byes = x.byes /\ z.done = x.done /\ z.conn = c
      /\ x.failed \/ c = "failed" => z.failed
      /\ x.missed \/ (c = "closed" /\ ~x.handler) => z.missed
      /\ \A e \in {"failed", "closed"} :
           z.callback[e] /= "none" => x.callback[e] /= "none" \/ e = c
  <2> HIDE DEF z
  <2>1. \A w : w = Changed(x, c) =>
          /\ w \in AppType
          /\ w.run = x.run /\ w.unsent = x.unsent /\ w.handler = x.handler
          /\ w.closing = x.closing /\ w.byes = x.byes /\ w.done = x.done /\ w.conn = c
          /\ x.failed \/ c = "failed" => w.failed
          /\ x.missed \/ (c = "closed" /\ ~x.handler) => w.missed
          /\ \A e \in {"failed", "closed"} :
               w.callback[e] /= "none" => x.callback[e] /= "none" \/ e = c
    BY ChangeFields
  <2> QED BY <2>1 DEF z
<1> HIDE DEF z
<1>2. Told(x) => Told(z)
  BY <1>1 DEF Told
<1>3. c \in {"failed", "closed"} => Told(z)
  BY <1>1, <1>2 DEF Told
<1>4. AppInv(z)
  BY <1>1, <1>2, <1>3 DEF AppInv
<1> QED BY <1>2, <1>4 DEF z

\* So does the close of the connection, by whoever has a BYE behind him, and by Run before
\* it has set the handler.
LEMMA CloseKeeps ==
  ASSUME NEW x \in AppType, AppInv(x), Told(x) \/ ~x.handler
  PROVE  /\ PeerClosed(x) \in AppType /\ AppInv(PeerClosed(x))
         /\ PeerClosed(x).run = x.run /\ PeerClosed(x).handler = x.handler
         /\ PeerClosed(x).closing = x.closing /\ PeerClosed(x).done = x.done
<1>1. CASE x.conn = "closed"
  BY <1>1 DEF PeerClosed
<1>2. CASE x.conn /= "closed"
  <2> DEFINE z == Changed(x, "closed")
  <2>1. PeerClosed(x) = z
    BY <1>2 DEF PeerClosed
  <2>2. AppInv(z)
    BY ChangeKeeps
  <2>3. /\ z \in AppType /\ z.run = x.run /\ z.handler = x.handler
        /\ z.closing = x.closing /\ z.done = x.done
    BY ChangeFields
  <2> HIDE DEF z
  <2> QED BY <2>1, <2>2, <2>3
<1> QED BY <1>1, <1>2

AppsOK == app \in [Apps -> AppType] /\ \A a \in Apps : AppInv(app[a])

LEMMA OneApp ==
  ASSUME AppsOK, NEW a \in Apps, NEW new \in AppType, AppInv(new), Becomes(a, new)
  PROVE  AppsOK'
<1>1. app' \in [Apps -> AppType] /\ app'[a] = new /\ \A b \in Apps : b /= a => app'[b] = app[b]
  BY DEF AppsOK, Becomes
<1> QED BY <1>1 DEF AppsOK

LEMMA AppInvited == ASSUME AppsOK, NEW a \in Apps, Invited(a) PROVE AppsOK'
<1>1. PICK overUdp \in BOOLEAN : Becomes(a, [NoApp EXCEPT !.run = "answer", !.udp = overUdp])
  BY DEF Invited
<1> DEFINE new == [NoApp EXCEPT !.run = "answer", !.udp = overUdp]
<1>2. new \in AppType
  BY NewApp DEF AppType
<1>3. new.run = "answer" /\ ~new.handler /\ new.closing = 0 /\ new.conn = "new" /\ ~new.done
  BY DEF NoApp
<1>4. \A e \in {"failed", "closed"} : new.callback[e] = "none"
  BY DEF NoApp
<1> HIDE DEF new
<1>5. AppInv(new)
  BY <1>3, <1>4 DEF AppInv
<1> QED BY <1>1, <1>2, <1>5, OneApp DEF new

LEMMA AppRun == ASSUME AppsOK, NEW a \in Apps, RunStep(a) PROVE AppsOK'
<1> DEFINE x == app[a]
<1>1. x \in AppType /\ AppInv(x)
  BY DEF AppsOK
<1> HIDE DEF x
<1>2. ASSUME NEW y \in AppType, AppInv(y),
             NEW r \in {"refused", "register", "ack", "wait", "ended"},
             y.handler <=> r \in {"ack", "wait", "ended"}, r = "ended" => y.done
      PROVE  [y EXCEPT !.run = r] \in AppType /\ AppInv([y EXCEPT !.run = r])
  BY <1>2 DEF AppType, AppInv, Told
<1>3. CASE RunRefuses(a)
  <2>1. x.run = "answer" /\ Becomes(a, [PeerClosed(x) EXCEPT !.run = "refused"])
    BY <1>3 DEF RunRefuses, x
  <2>2. ~x.handler
    BY <1>1, <2>1 DEF AppInv
  <2> QED BY <1>1, <1>2, <2>1, <2>2, CloseKeeps, OneApp
<1>4. CASE RunAnswers(a)
  <2>1. PICK w \in BOOLEAN : Becomes(a, [x EXCEPT !.run = "register", !.wedged = w])
    BY <1>4 DEF RunAnswers, x
  <2> DEFINE new == [x EXCEPT !.run = "register", !.wedged = w]
  <2>2. x.run = "answer"
    BY <1>4 DEF RunAnswers, x
  <2>3. new \in AppType /\ AppInv(new)
    BY <1>1, <2>2 DEF AppType, AppInv, Told
  <2> HIDE DEF new
  <2> QED BY <2>1, <2>3, OneApp DEF new
<1>5. CASE RunRegisters(a)
  <2> DEFINE new == [x EXCEPT !.run = "ack", !.handler = TRUE]
  <2>1. x.run = "register" /\ Becomes(a, new)
    BY <1>5 DEF RunRegisters, x
  <2>2. new \in AppType /\ AppInv(new)
    BY <1>1, <2>1 DEF AppType, AppInv, Told
  <2> HIDE DEF new
  <2> QED BY <2>1, <2>2, OneApp
<1>6. CASE RunSeesAck(a)
  <2>1. x.run = "ack" /\ Becomes(a, [x EXCEPT !.run = "wait"])
    BY <1>6 DEF RunSeesAck, x
  <2>2. x.handler
    BY <1>1, <2>1 DEF AppInv
  <2> QED BY <1>1, <1>2, <2>1, <2>2, OneApp
<1>7. CASE RunReturns(a)
  <2>1. x.run = "wait" /\ x.done /\ Becomes(a, [PeerClosed(x) EXCEPT !.run = "ended"])
    BY <1>7 DEF RunReturns, x
  <2>2. x.handler /\ Told(x)
    BY <1>1, <2>1 DEF AppInv
  <2> QED BY <1>1, <1>2, <2>1, <2>2, CloseKeeps, OneApp
<1> QED BY <1>3, <1>4, <1>5, <1>6, <1>7 DEF RunStep

LEMMA AppConnection ==
  ASSUME AppsOK, NEW a \in Apps, Connects(a) \/ Disconnects(a) \/ Fails(a) PROVE AppsOK'
<1> DEFINE x == app[a]
<1>1. x \in AppType /\ AppInv(x)
  BY DEF AppsOK
<1> HIDE DEF x
<1>2. CASE Connects(a)
  <2> DEFINE y == Changed(x, "connected")
             new == [y EXCEPT !.connects = @ + 1]
  <2>1. x.connects < MaxConnects /\ Becomes(a, new)
    BY <1>2 DEF Connects, x
  <2>2. y \in AppType /\ AppInv(y) /\ y.connects = x.connects
    BY <1>1, ChangeFields, ChangeKeeps
  <2> HIDE DEF y
  <2>3. new \in AppType
    BY <1>1, <2>1, <2>2, GuidanceAssumption DEF AppType
  <2>4. AppInv(new)
    BY <2>2 DEF AppType, AppInv, Told
  <2> HIDE DEF new
  <2> QED BY <2>1, <2>3, <2>4, OneApp
<1>3. CASE Disconnects(a)
  <2>1. Becomes(a, Changed(x, "disconnected"))
    BY <1>3 DEF Disconnects, x
  <2> QED BY <1>1, <2>1, ChangeFields, ChangeKeeps, OneApp
<1>4. CASE Fails(a)
  <2>1. Becomes(a, Changed(x, "failed"))
    BY <1>4 DEF Fails, x
  <2> QED BY <1>1, <2>1, ChangeFields, ChangeKeeps, OneApp
<1> QED BY <1>2, <1>3, <1>4

LEMMA AppCallback == ASSUME AppsOK, NEW a \in Apps, CallbackStep(a) PROVE AppsOK'
<1> DEFINE x == app[a]
<1>1. x \in AppType /\ AppInv(x)
  BY DEF AppsOK
<1> HIDE DEF x
<1>2. CASE CallbackPlays(a)
  <2> DEFINE new == [x EXCEPT !.connected = @ - 1, !.streams = @ + 1]
  <2>1. x.connected > 0 /\ Becomes(a, new)
    BY <1>2 DEF CallbackPlays, x
  <2>2. new \in AppType
    <3>1. x.connected - 1 \in Nat /\ x.streams + 1 \in Nat
      BY <1>1, <2>1 DEF AppType
    <3>2. [x EXCEPT !.connected = x.connected - 1, !.streams = x.streams + 1] \in AppType
      BY <1>1, <3>1 DEF AppType
    <3> QED BY <3>2
  <2>3. AppInv(new)
    BY <1>1, <2>1 DEF AppType, AppInv, Told
  <2> HIDE DEF new
  <2> QED BY <2>1, <2>2, <2>3, OneApp
<1>3. ASSUME NEW e \in {"failed", "closed"}, CallbackChecks(a, e) PROVE AppsOK'
  <2> DEFINE l == IF x.done THEN "over" ELSE "close"
             new == [x EXCEPT !.callback[e] = l]
  <2>1. x.callback[e] = "check" /\ Becomes(a, new)
    BY <1>3 DEF CallbackChecks, x
  <2>2. l \in {"over", "close"}
    OBVIOUS
  <2> HIDE DEF l
  <2>3. new \in AppType
    BY <1>1, <2>2 DEF AppType
  <2>4. AppInv(new)
    BY <1>1, <2>1 DEF AppType, AppInv, Told
  <2> HIDE DEF new
  <2> QED BY <2>1, <2>3, <2>4, OneApp
<1>4. ASSUME NEW e \in {"failed", "closed"}, CallbackCloses(a, e) PROVE AppsOK'
  <2> DEFINE new == [x EXCEPT !.callback[e] = "over", !.done = TRUE]
  <2>1. x.callback[e] = "close" /\ Becomes(a, new)
    BY <1>4 DEF CallbackCloses, x
  <2>2. new \in AppType
    BY <1>1 DEF AppType
  <2>3. Told(x)
    BY <1>1, <2>1 DEF AppInv
  <2>4. AppInv(new)
    BY <1>1, <2>1, <2>3 DEF AppType, AppInv, Told
  <2> HIDE DEF new
  <2> QED BY <2>1, <2>2, <2>4, OneApp
<1> QED BY <1>2, <1>3, <1>4 DEF CallbackStep

LEMMA AppStream == ASSUME AppsOK, NEW a \in Apps, StreamStep(a) PROVE AppsOK'
<1> DEFINE x == app[a]
<1>1. x \in AppType /\ AppInv(x)
  BY DEF AppsOK
<1> HIDE DEF x
<1>2. CASE Plays(a)
  <2>1. PICK sent \in {FALSE, x.udp} :
          Becomes(a, [x EXCEPT !.streams = @ - 1, !.closing = @ + 1,
                               !.byes = IF sent THEN @ + 1 ELSE @, !.unsent = @ \/ ~sent])
    BY <1>2 DEF Plays, x
  <2> DEFINE byes == IF sent THEN x.byes + 1 ELSE x.byes
             unsent == x.unsent \/ ~sent
             new == [x EXCEPT !.streams = @ - 1, !.closing = @ + 1, !.byes = byes,
                              !.unsent = unsent]
  <2>2. x.streams > 0 /\ x.streams \in Nat /\ x.closing \in Nat /\ x.byes \in Nat
    BY <1>1, <1>2 DEF AppType, Plays, x
  <2>3. byes \in Nat /\ unsent \in BOOLEAN /\ (byes > 0 \/ unsent)
    BY <2>2
  <2>4. Becomes(a, new)
    BY <2>1
  <2> HIDE DEF byes, unsent
  <2>5. new \in AppType
    <3>1. x.streams - 1 \in Nat /\ x.closing + 1 \in Nat
      BY <2>2
    <3>2. [x EXCEPT !.streams = x.streams - 1, !.closing = x.closing + 1, !.byes = byes,
                    !.unsent = unsent] \in AppType
      BY <1>1, <2>3, <3>1 DEF AppType
    <3> QED BY <3>2
  <2>6. new.byes = byes /\ new.unsent = unsent
    BY <1>1 DEF AppType
  <2>7. /\ new.run = x.run /\ new.handler = x.handler /\ new.conn = x.conn
        /\ new.callback = x.callback /\ new.done = x.done
    BY <1>1 DEF AppType
  <2> HIDE DEF new
  <2>8. AppInv(new)
    BY <1>1, <2>3, <2>6, <2>7 DEF AppInv, Told
  <2> QED BY <2>4, <2>5, <2>8, OneApp
<1>3. CASE PlaysAndCloses(a)
  <2> DEFINE y == PeerClosed(x)
             new == [y EXCEPT !.closing = @ - 1]
  <2>1. x.closing > 0 /\ Becomes(a, new)
    BY <1>3 DEF PlaysAndCloses, x
  <2>2. Told(x)
    BY <1>1, <2>1 DEF AppInv
  <2>3. y \in AppType /\ AppInv(y) /\ y.closing = x.closing
    BY <1>1, <2>2, CloseKeeps
  <2> HIDE DEF y
  <2>4. new \in AppType
    BY <2>1, <2>3 DEF AppType
  <2>5. AppInv(new)
    BY <2>1, <2>3 DEF AppType, AppInv, Told
  <2> HIDE DEF new
  <2> QED BY <2>1, <2>4, <2>5, OneApp
<1> QED BY <1>2, <1>3 DEF StreamStep

-----------------------------------------------------------------------------
(***************************************************************************)
(* The specification                                                       *)
(***************************************************************************)

LEMMA GuidanceParts == GuidanceIInv <=> SettingsTypeOK /\ SettingsInv /\ AppsOK
BY DEF GuidanceIInv, GuidanceTypeOK, AppsOK

LEMMA GuidanceStarts == GuidanceInit => GuidanceIInv
<1> SUFFICES ASSUME GuidanceInit PROVE GuidanceIInv
  OBVIOUS
<1>1. AppsOK
  BY NewApp DEF GuidanceInit, AppsOK
<1> QED BY <1>1, SettingsStart, GuidanceParts DEF GuidanceInit

LEMMA GuidanceSteps == GuidanceIInv /\ [GuidanceNext]_guidanceVars => GuidanceIInv'
<1> SUFFICES ASSUME GuidanceIInv, [GuidanceNext]_guidanceVars PROVE GuidanceIInv'
  OBVIOUS
<1>1. SettingsTypeOK /\ SettingsInv /\ AppsOK
  BY GuidanceParts
<1>2. (SettingsTypeOK' /\ SettingsInv' /\ AppsOK') => GuidanceIInv'
  BY DEF GuidanceIInv, GuidanceTypeOK, AppsOK
<1>3. app' = app => AppsOK'
  BY <1>1 DEF AppsOK
<1>4. CASE UNCHANGED guidanceVars
  BY <1>1, <1>2, <1>3, <1>4, SettingsKept DEF guidanceVars
<1>5. CASE SettingsStep /\ UNCHANGED app
  BY <1>1, <1>2, <1>3, <1>5, SettingsKept
<1>6. CASE Crash
  <2>1. AppsOK'
    BY <1>6, NewApp DEF Crash, AppsOK
  <2> QED BY <1>1, <1>2, <1>6, <2>1, SettingsKept DEF Crash
<1>7. ASSUME NEW a \in Apps,
             \/ Invited(a) \/ RunStep(a) \/ Connects(a) \/ Disconnects(a)
             \/ Fails(a) \/ CallbackStep(a) \/ StreamStep(a)
      PROVE  GuidanceIInv'
  <2>1. AppsOK'
    BY <1>1, <1>7, AppInvited, AppRun, AppConnection, AppCallback, AppStream
  <2>2. UNCHANGED settingsVars
    BY <1>7 DEF Invited, RunStep, RunRefuses, RunAnswers, RunRegisters, RunSeesAck,
                RunReturns, Connects, Disconnects, Fails, CallbackStep, CallbackPlays,
                CallbackChecks, CallbackCloses, StreamStep, Plays, PlaysAndCloses, Becomes
  <2> QED BY <1>1, <1>2, <2>1, <2>2, SettingsKept
<1> QED BY <1>4, <1>5, <1>6, <1>7 DEF GuidanceNext

LEMMA GuidanceHolds == GuidanceSafety => []GuidanceIInv
BY GuidanceStarts, GuidanceSteps, PTL DEF GuidanceSafety

\* The variables have their types; the memory of the SIP server has what the database has
\* whenever no submission is between its two writes, unless two overlapped, whatever saves
\* failed and wherever the process ended before; and a guidance call ends with a BYE,
\* unless none could be sent, or its connection failed or changed before Run was ready.
THEOREM GuidanceInvariant == GuidanceSpec => []GuidanceInv
<1>1. GuidanceIInv => GuidanceInv
  <2> SUFFICES ASSUME GuidanceIInv PROVE GuidanceInv
    OBVIOUS
  <2>1. SettingsAgree
    BY DEF GuidanceIInv, SettingsInv, SettingsAgree, Settled
  <2>2. EndsWithBye
    BY DEF GuidanceIInv, AppInv, Told, EndsWithBye
  <2> QED BY <2>1, <2>2 DEF GuidanceIInv, GuidanceInv
<1> QED BY <1>1, GuidanceHolds, PTL DEF GuidanceSpec

\* A restart brings back the settings that were in force, and settled, when the process
\* ended; it brings the default if there were none.
THEOREM SettingsSurvive == GuidanceSpec => RestartKeepsSettings
<1>1. GuidanceIInv /\ [GuidanceNext]_guidanceVars =>
        [~up /\ up' => before = Empty \/ memory' = before]_guidanceVars
  <2> SUFFICES ASSUME GuidanceIInv, GuidanceNext, ~up, up' PROVE before = Empty \/ memory' = before
    OBVIOUS
  <2>1. Start
    BY DEF GuidanceNext, SettingsStep, Submit, Saves, Updates, Crash, Down, Invited, RunStep,
           Connects, Disconnects, Fails, CallbackStep, StreamStep
  <2>2. db = <<>> => AsMap(db) = Empty
    BY DEF Empty
  <2>3. db /= <<>> => memory' = AsMap(db)
    BY <2>1 DEF Start
  <2> QED BY <2>2, <2>3 DEF GuidanceIInv, SettingsInv
<1> QED BY <1>1, GuidanceHolds, PTL DEF GuidanceSpec, GuidanceSafety, RestartKeepsSettings
=============================================================================
