----------------------------- MODULE Registrar -----------------------------
(***************************************************************************)
(* The registrar of internal/sip/server.go: REGISTER requests with their   *)
(* digest challenges (handleRegister, updateRegistration), and the look-up *)
(* of a callee's contacts that handleInvite makes in two critical          *)
(* sections, the second of which writes back what the first has read.      *)
(*                                                                         *)
(* A list of registrations is a slice.  A look-up holds the same array as  *)
(* the map until the map gets another one: a binding that is refreshed in  *)
(* place is refreshed for the look-up too.  aliased says of a look-up      *)
(* whether its slice still is the array of the map.                        *)
(***************************************************************************)
EXTENDS Naturals, Sequences

CONSTANTS Users, Contacts, Star,  \* Star is the contact "*"
          ContactLists,           \* the values of a Contact header
          Ttls,                   \* the lifetimes that are asked for, 0 to unregister
          Registrants, Lookups,   \* goroutines of REGISTERs and of INVITEs
          Nonces, NonceTtl,       \* bound: challenges that are sent
          MaxTime,                \* bound: the clock
          None

ASSUME RegistrarAssumption ==
  /\ Ttls \subseteq Nat /\ NonceTtl \in Nat /\ MaxTime \in Nat
  /\ ContactLists \subseteq Seq(Contacts \cup {Star}) \ {<<>>}
  /\ Star \notin Contacts
  /\ None \notin Registrants \cup Contacts \cup {Star} \cup Nat

VARIABLES registrations,  \* lists of [contact, expires], empty for no entry
          regMutex,       \* a REGISTER's goroutine that holds it for writing
          nonces,         \* when a nonce expires, None if the map does not have it
          now,            \* the clock
          pc, nonce,      \* a REGISTER's goroutine and the nonce of its Authorization
          msg,            \* the rest of the REGISTER: user, contacts still to do, expires
          lpc, user,      \* a look-up's goroutine and whom it looks for
          seen, aliased,  \* its slice, and whether that is the array of the map
          target,         \* the contact it calls, None for a 480
          issued, uses,   \* history: nonces sent, and the updates each has authorised
          granted,        \* history: what REGISTERs alone make of the bindings
          overtaken,      \* history: users with a REGISTER in the middle of a look-up
          witness         \* history: the answers a look-up might have given so far

registerVars == <<pc, nonce, msg>>
nonceVars == <<nonces, issued, uses>>
lookupVars == <<lpc, user, seen, aliased, target>>
vars == <<registrations, regMutex, nonceVars, now, registerVars, lookupVars, granted,
          overtaken, witness>>

Address == Contacts \cup {Star}
Binding == [contact : Address, expires : Nat]
NoMessage == [user |-> None, contacts |-> <<>>, expires |-> 0]

\* The elements of a list that are in a set, in their order.
Kept(list, wanted) ==
  LET upTo[n \in 0 .. Len(list)] ==
        IF n = 0 THEN <<>>
        ELSE IF list[n] \in wanted THEN Append(upTo[n - 1], list[n]) ELSE upTo[n - 1]
  IN upTo[Len(list)]

Active(list) == Kept(list, {b \in Binding : now < b.expires})
Without(list, c) == Kept(list, {b \in Binding : b.contact /= c})

Init == /\ registrations = [u \in Users |-> <<>>]
        /\ regMutex = None
        /\ nonces = [n \in Nonces |-> None]
        /\ now = 0
        /\ pc = [p \in Registrants |-> "idle"]
        /\ nonce = [p \in Registrants |-> None]
        /\ msg = [p \in Registrants |-> NoMessage]
        /\ lpc = [l \in Lookups |-> "idle"]
        /\ user = [l \in Lookups |-> None]
        /\ seen = [l \in Lookups |-> <<>>]
        /\ aliased = [l \in Lookups |-> FALSE]
        /\ target = [l \in Lookups |-> None]
        /\ issued = {}
        /\ uses = [n \in Nonces |-> 0]
        /\ granted = [u \in Users |-> [c \in Address |-> 0]]
        /\ overtaken = {}
        /\ witness = [l \in Lookups |-> {}]

GoTo(p, place) == pc' = [pc EXCEPT ![p] = place]

Tick == /\ now < MaxTime
        /\ now' = now + 1
        /\ UNCHANGED <<registrations, regMutex, nonceVars, registerVars, lookupVars, granted,
                       overtaken>>

-----------------------------------------------------------------------------
(* handleRegister *)

\* createUnauthorizedResponse: a 401 with a new nonce, to a REGISTER without
\* Authorization or with one that was refused.
Challenges(p) == /\ pc[p] \in {"idle", "refused"}
                 /\ \E n \in Nonces \ issued :
                      /\ nonces' = [nonces EXCEPT ![n] = now + NonceTtl]
                      /\ issued' = issued \cup {n}
                 /\ GoTo(p, "idle")
                 /\ nonce' = [nonce EXCEPT ![p] = None]
                 /\ UNCHANGED <<registrations, regMutex, uses, now, msg, lookupVars, granted,
                                overtaken>>

Receives(p, n) == /\ pc[p] = "idle"
                  /\ n \in issued
                  /\ nonce' = [nonce EXCEPT ![p] = n]
                  /\ GoTo(p, "validate")
                  /\ UNCHANGED <<registrations, regMutex, nonceVars, now, msg, lookupVars,
                                 granted, overtaken>>

\* Mutant: a nonce that is still good is kept.
ValidatesOnly(p) == /\ pc[p] = "validate"
                    /\ GoTo(p, IF nonces[nonce[p]] /= None /\ now <= nonces[nonce[p]]
                               THEN "authenticate" ELSE "refused")
                    /\ UNCHANGED <<registrations, regMutex, nonceVars, now, nonce, msg,
                                   lookupVars, granted, overtaken>>

\* validateNonce: the nonce is gone, good or expired.
Validates(p) == /\ pc[p] = "validate"
                /\ GoTo(p, IF nonces[nonce[p]] /= None /\ now <= nonces[nonce[p]]
                           THEN "authenticate" ELSE "refused")
                /\ nonces' = [nonces EXCEPT ![nonce[p]] = None]
                /\ UNCHANGED <<registrations, regMutex, issued, uses, now, nonce, msg,
                               lookupVars, granted, overtaken>>

\* An unknown user or a wrong password.
Refuses(p) == /\ pc[p] = "authenticate"
              /\ GoTo(p, "refused")
              /\ UNCHANGED <<registrations, regMutex, nonceVars, now, nonce, msg, lookupVars,
                             granted, overtaken>>

\* The right password.  What the REGISTER asks for matters from here on only.
Authenticates(p) == /\ pc[p] = "authenticate"
                    /\ \E u \in Users, cs \in ContactLists, e \in Ttls :
                         msg' = [msg EXCEPT ![p] = [user |-> u, contacts |-> cs, expires |-> e]]
                    /\ uses' = [uses EXCEPT ![nonce[p]] = @ + 1]
                    /\ GoTo(p, "update")
                    /\ UNCHANGED <<registrations, regMutex, nonces, issued, now, nonce,
                                   lookupVars, granted, overtaken>>

-----------------------------------------------------------------------------
(* updateRegistration: one contact of the list after the other, under regMutex *)

Locks(p) == /\ pc[p] = "update" /\ regMutex = None
            /\ regMutex' = p
            /\ GoTo(p, "contacts")
            /\ UNCHANGED <<registrations, nonceVars, now, nonce, msg, lookupVars, granted,
                           overtaken>>

InFlight(u) == {l \in Lookups : lpc[l] = "filter" /\ user[l] = u}

\* The map gets another array for u: no look-up has the same any more.
Replaces(u, list) ==
  /\ registrations' = [registrations EXCEPT ![u] = list]
  /\ aliased' = [l \in Lookups |-> aliased[l] /\ user[l] /= u]

\* An append needs a new array when the old one, grown from nothing, is full.
IsFull(n) == n = 0 \/ \E k \in 0 .. n : n = 2 ^ k

Has(list, c) == \E i \in DOMAIN list : list[i].contact = c
Refreshed(list, c, e) ==
  [i \in DOMAIN list |-> IF list[i].contact = c THEN [contact |-> c, expires |-> e] ELSE list[i]]

\* Mutant: a contact that is there gets a new array.
RefreshesCopy(u, c, e) ==
  /\ Has(registrations[u], c)
  /\ Replaces(u, Refreshed(registrations[u], c, e))
  /\ overtaken' = IF \E l \in InFlight(u) : ~aliased[l] THEN overtaken \cup {u}
                                                       ELSE overtaken
  /\ UNCHANGED seen

\* addOrUpdateContact, a contact that is there: in place, which those see that have the
\* same array.
Refreshes(u, c, e) ==
  /\ Has(registrations[u], c)
  /\ registrations' = [registrations EXCEPT ![u] = Refreshed(@, c, e)]
  /\ seen' = [l \in Lookups |-> IF aliased[l] /\ user[l] = u THEN Refreshed(seen[l], c, e)
                                                            ELSE seen[l]]
  /\ overtaken' = IF \E l \in InFlight(u) : ~aliased[l] THEN overtaken \cup {u}
                                                       ELSE overtaken
  /\ UNCHANGED aliased

\* addOrUpdateContact, a new contact.
AddsContact(u, c, e) ==
  /\ ~Has(registrations[u], c)
  /\ LET list == Append(registrations[u], [contact |-> c, expires |-> e]) IN
     IF IsFull(Len(registrations[u]))
     THEN Replaces(u, list)
     ELSE registrations' = [registrations EXCEPT ![u] = list] /\ UNCHANGED aliased
  /\ overtaken' = IF InFlight(u) /= {} THEN overtaken \cup {u} ELSE overtaken
  /\ UNCHANGED seen

\* removeContact, and the wildcard: another array or none, if there was one.
RemovesContact(u, c) ==
  /\ Replaces(u, IF c = Star THEN <<>> ELSE Without(registrations[u], c))
  /\ overtaken' = IF InFlight(u) /= {} THEN overtaken \cup {u} ELSE overtaken
  /\ UNCHANGED seen

\* The effect of a REGISTER on what it is about, the bindings.
Grants(u, c, e) ==
  granted' = [granted EXCEPT ![u] =
                IF c = Star /\ e = 0 THEN [d \in Address |-> 0] ELSE [@ EXCEPT ![c] = e]]

Updates(p) ==
  /\ pc[p] = "contacts"
  /\ LET u == msg[p].user
         c == Head(msg[p].contacts)
         e == IF msg[p].expires = 0 THEN 0 ELSE now + msg[p].expires
     IN /\ \/ e > 0 /\ (Refreshes(u, c, e) \/ AddsContact(u, c, e))
           \/ e = 0 /\ RemovesContact(u, c)
        /\ Grants(u, c, e)
  /\ IF Len(msg[p].contacts) = 1
     THEN /\ GoTo(p, "idle")
          /\ regMutex' = None
          /\ msg' = [msg EXCEPT ![p] = NoMessage]
          /\ nonce' = [nonce EXCEPT ![p] = None]
     ELSE /\ msg' = [msg EXCEPT ![p].contacts = Tail(@)]
          /\ UNCHANGED <<pc, nonce, regMutex>>
  /\ UNCHANGED <<nonceVars, now, lpc, user, target>>

-----------------------------------------------------------------------------
(* handleInvite *)

\* The slice is read under RLock.  No entry: 480.
Reads(l, u) == /\ lpc[l] = "idle" /\ regMutex = None
               /\ lpc' = [lpc EXCEPT ![l] = IF registrations[u] = <<>> THEN "done" ELSE "filter"]
               /\ user' = [user EXCEPT ![l] = u]
               /\ seen' = [seen EXCEPT ![l] = registrations[u]]
               /\ aliased' = [aliased EXCEPT ![l] = TRUE]
               /\ UNCHANGED <<registrations, regMutex, nonceVars, now, registerVars, target,
                              granted, overtaken>>

\* Mutant: the first contact of the list is called, active or not.
FiltersNothing(l) ==
  /\ lpc[l] = "filter" /\ regMutex = None
  /\ Replaces(user[l], Active(seen[l]))
  /\ target' = [target EXCEPT ![l] = seen[l][1].contact]
  /\ lpc' = [lpc EXCEPT ![l] = "done"]
  /\ seen' = [seen EXCEPT ![l] = <<>>]
  /\ UNCHANGED <<regMutex, nonceVars, now, registerVars, user, granted, overtaken>>

\* What is active of it is written back under Lock, and the first of that is called.
Filters(l) ==
  /\ lpc[l] = "filter" /\ regMutex = None
  /\ LET active == Active(seen[l]) IN
     /\ Replaces(user[l], active)
     /\ target' = [target EXCEPT ![l] = IF active = <<>> THEN None ELSE active[1].contact]
  /\ lpc' = [lpc EXCEPT ![l] = "done"]
  /\ seen' = [seen EXCEPT ![l] = <<>>]
  /\ UNCHANGED <<regMutex, nonceVars, now, registerVars, user, granted, overtaken>>

-----------------------------------------------------------------------------
RegisterStep(p) == \/ Challenges(p) \/ (\E n \in Nonces : Receives(p, n)) \/ Validates(p)
                   \/ Refuses(p) \/ Authenticates(p) \/ Locks(p) \/ Updates(p)
LookupStep(l) == Filters(l) \/ \E u \in Users : Reads(l, u)

\* The contacts that may be called, or None.
Answers(u) == LET active == {b \in {registrations[u][i] : i \in DOMAIN registrations[u]} :
                               now < b.expires}
              IN IF active = {} THEN {None} ELSE {b.contact : b \in active}

\* What a look-up that is under way might have answered by now.
Observe == witness' = [l \in Lookups |->
                         IF lpc'[l] = "filter" THEN witness[l] \cup Answers(user[l])' ELSE {}]

Next == /\ \/ Tick
           \/ \E p \in Registrants : RegisterStep(p)
           \/ \E l \in Lookups : LookupStep(l)
        /\ Observe

Spec == Init /\ [][Next]_vars
=============================================================================
