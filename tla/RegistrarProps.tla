--------------------------- MODULE RegistrarProps ---------------------------
(***************************************************************************)
(* What the registrar promises to those that register and to those that    *)
(* are called.                                                             *)
(***************************************************************************)
EXTENDS Registrar

IsPrefix(s, t) == Len(s) <= Len(t) /\ \A i \in DOMAIN s : s[i] = t[i]

\* A contact is bound once.
Distinct(list) == \A i, j \in DOMAIN list : list[i].contact = list[j].contact => i = j

BindingsType ==
  /\ registrations \in [Users -> Seq(Binding)] /\ \A u \in Users : Distinct(registrations[u])
  /\ now \in 0 .. MaxTime
  /\ granted \in [Users -> [Address -> Nat]] /\ overtaken \subseteq Users

RegisterType ==
  /\ regMutex \in Registrants \cup {None}
  /\ nonces \in [Nonces -> Nat \cup {None}] /\ issued \subseteq Nonces
  /\ uses \in [Nonces -> Nat]
  /\ pc \in [Registrants -> {"idle", "validate", "refused", "authenticate", "update",
                             "contacts"}]
  /\ nonce \in [Registrants -> Nonces \cup {None}]
  /\ msg \in [Registrants ->
               [user : Users \cup {None}, contacts : Seq(Address), expires : Nat]]
  /\ \A p \in Registrants : pc[p] \in {"update", "contacts"} =>
       msg[p].user \in Users /\ msg[p].contacts /= <<>>

\* A slice that is the array of the map shows what the map shows, as far as it goes.
LookupType ==
  /\ lpc \in [Lookups -> {"idle", "filter", "done"}]
  /\ user \in [Lookups -> Users \cup {None}] /\ aliased \in [Lookups -> BOOLEAN]
  /\ seen \in [Lookups -> Seq(Binding)] /\ \A l \in Lookups : Distinct(seen[l])
  /\ \A l \in Lookups : lpc[l] = "filter" =>
       user[l] \in Users /\ (aliased[l] => IsPrefix(seen[l], registrations[user[l]]))
  /\ target \in [Lookups -> Address \cup {None}]
  /\ witness \in [Lookups -> SUBSET (Address \cup {None})]

\* Every variable has its type.
TypeOK == BindingsType /\ RegisterType /\ LookupType

\* However many REGISTERs come with the same nonce at the same time, one of them at
\* most is let in with it (validateNonce).
NonceOnce == \A n \in Nonces : uses[n] <= 1

\* The types and the array the look-ups share, and every nonce good for one request.
Inv == TypeOK /\ NonceOnce

\* As long as no REGISTER has come between the two critical sections of a look-up for
\* the same user (handleInvite), a binding is there exactly from the REGISTER that
\* asked for it until it expires or is removed: look-ups that write the list back, and
\* other look-ups, lose none and bring none back.  A refresh may come in between even
\* so if the look-up has the array of the map.
ConfirmedStays ==
  \A u \in Users \ overtaken :
    LET list == Active(registrations[u])
    IN {<<list[i].contact, list[i].expires>> : i \in DOMAIN list}
         = {<<c, granted[u][c]>> : c \in {d \in Address : now < granted[u][d]}}

\* An INVITE is sent to a contact that was bound at some time while it was looked for,
\* also when REGISTERs come in between; and when none did, it is answered 480 only if
\* at some time nobody could be called.
LookupSound ==
  [][\A l \in Lookups : lpc[l] = "filter" /\ lpc'[l] = "done" =>
       \/ target'[l] \in witness[l]
       \/ target'[l] = None /\ user[l] \in overtaken]_vars
=============================================================================
