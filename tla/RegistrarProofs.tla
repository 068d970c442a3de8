-------------------------- MODULE RegistrarProofs --------------------------
(***************************************************************************)
(* Proofs about the registrar: the types, that a nonce is good for one     *)
(* request, that look-ups neither lose nor bring back a binding, and that  *)
(* what they call was bound while they looked.                             *)
(***************************************************************************)
EXTENDS RegistrarProps, SequenceTheorems, WellFoundedInduction, TLAPS

-----------------------------------------------------------------------------
(* What the invariants of the run rest on *)

\* A nonce is in the map until the first goroutine takes it out, which is then the only
\* one that may go on to authenticate with it, and does so once (validateNonce).
NonceInv ==
  /\ \A p \in Registrants : pc[p] \in {"validate", "authenticate"} => nonce[p] \in issued
  /\ \A n \in Nonces : n \notin issued \/ nonces[n] /= None => uses[n] = 0
  /\ \A n \in Nonces \ issued : nonces[n] = None
  /\ \A p \in Registrants : pc[p] = "authenticate" =>
       nonces[nonce[p]] = None /\ uses[nonce[p]] = 0
  /\ \A p, q \in Registrants :
       pc[p] = "authenticate" /\ pc[q] = "authenticate" /\ nonce[p] = nonce[q] => p = q

\* The entries of a list that are active at some time are the bindings that were granted.
Shows(list, bound, time) ==
  /\ \A c \in Address : time < bound[c] =>
       \E i \in DOMAIN list : list[i] = [contact |-> c, expires |-> bound[c]]
  /\ \A i \in DOMAIN list : time < list[i].expires => bound[list[i].contact] = list[i].expires

\* As long as no REGISTER has come in between, the map and the slices of the look-ups for
\* a user show the same bindings.
ShownInv ==
  \A u \in Users \ overtaken :
    /\ Shows(registrations[u], granted[u], now)
    /\ \A l \in InFlight(u) : /\ Shows(seen[l], granted[u], now)
                              /\ aliased[l] => seen[l] = registrations[u]

\* What a look-up might call now, or still has in its slice, it has witnessed.
WitnessInv ==
  \A l \in Lookups : lpc[l] = "filter" =>
    /\ Answers(user[l]) \subseteq witness[l]
    /\ \A i \in DOMAIN seen[l] : now < seen[l][i].expires => seen[l][i].contact \in witness[l]

-----------------------------------------------------------------------------
(* Lists *)

\* A set of natural numbers has a least one, which is how what holds of the elements up
\* to some index is carried to all of them.
LEMMA LeastOf ==
  ASSUME NEW T \in SUBSET Nat, T /= {}
  PROVE  \E m \in T : \A k \in T : m <= k
<1> DEFINE R == OpToRel(<, Nat)
<1>1. PICK m \in T : \A k \in T : <<k, m>> \notin R
  <2> HIDE DEF R
  <2> QED BY NatLessThanWellFounded, WFMin DEF R
<1>2. \A k \in T : ~ (k < m)
  BY <1>1 DEF OpToRel
<1>3. m \in Nat /\ \A k \in T : k \in Nat
  BY <1>1
<1> HIDE DEF R
<1> QED BY <1>2, <1>3

\* A table of what is kept of the elements up to each index.
IsTable(f, list, wanted) ==
  f = [n \in 0 .. Len(list) |->
         IF n = 0 THEN <<>>
         ELSE IF list[n] \in wanted THEN Append(f[n - 1], list[n]) ELSE f[n - 1]]

\* There is such a table, and Kept reads its last entry.
LEMMA TableExists ==
  ASSUME NEW list \in Seq(Binding), NEW wanted
  PROVE  \E f : IsTable(f, list, wanted) /\ Kept(list, wanted) = f[Len(list)]
<1> DEFINE N == Len(list)
           Step(f, n) == IF n = 0 THEN <<>>
                         ELSE IF list[n] \in wanted THEN Append(f[n - 1], list[n])
                                                    ELSE f[n - 1]
           Upto(m) == \E f : f = [n \in 0 .. m |-> Step(f, n)]
<1>1. N \in Nat
  OBVIOUS
<1>2. Upto(0)
  <2>1. [n \in 0 .. 0 |-> <<>>] = [n \in 0 .. 0 |-> Step([k \in 0 .. 0 |-> <<>>], n)]
    OBVIOUS
  <2> QED BY <2>1
<1>3. ASSUME NEW m \in 0 .. N - 1, Upto(m) PROVE Upto(m + 1)
  <2>1. PICK f : f = [n \in 0 .. m |-> Step(f, n)]
    BY <1>3
  <2> DEFINE g == [n \in 0 .. m + 1 |-> IF n <= m THEN f[n] ELSE Step(f, n)]
  <2>2. \A n \in 0 .. m : g[n] = f[n]
    BY <1>1
  <2>3. \A n \in 0 .. m + 1 : Step(g, n) = Step(f, n)
    <3> HIDE DEF g
    <3> QED BY <1>1, <2>2
  <2>4. \A n \in 0 .. m : f[n] = Step(f, n)
    BY <2>1
  <2>5. \A n \in 0 .. m + 1 : g[n] = Step(f, n)
    <3> HIDE DEF Step
    <3> QED BY <1>1, <2>4
  <2>6. g = [n \in 0 .. m + 1 |-> Step(g, n)]
    <3>1. g = [n \in 0 .. m + 1 |-> g[n]]
      OBVIOUS
    <3> HIDE DEF g, Step
    <3> QED BY <2>3, <2>5, <3>1
  <2> HIDE DEF g
  <2> QED BY <2>6
<1>4. Upto(N)
  <2> DEFINE T == {m \in 0 .. N : ~Upto(m)}
  <2> HIDE DEF Upto
  <2>1. ASSUME T /= {} PROVE FALSE
    <3>1. PICK m \in T : \A k \in T : m <= k
      <4>1. T \in SUBSET Nat
        BY <1>1
      <4> HIDE DEF T
      <4> QED BY <2>1, <4>1, LeastOf
    <3>2. m /= 0 /\ m - 1 \in 0 .. N - 1
      BY <1>1, <1>2
    <3>3. m - 1 \notin T
      BY <3>1, <3>2, <1>1
    <3>4. Upto(m - 1)
      BY <3>2, <3>3, <1>1
    <3>5. Upto((m - 1) + 1) 
      BY <1>3, <3>2, <3>4
    <3>6. (m - 1) + 1 = m
      BY <1>1
    <3> QED BY <3>5, <3>6
  <2> QED BY <1>1, <2>1
<1>5. \E f : IsTable(f, list, wanted)
  BY <1>4 DEF IsTable
<1> DEFINE upTo == CHOOSE f : IsTable(f, list, wanted)
<1>6. IsTable(upTo, list, wanted)
  <2> HIDE DEF Upto
  <2> QED BY <1>5
<1>7. Kept(list, wanted) = upTo[Len(list)]
  BY DEF Kept, IsTable
<1> QED BY <1>6, <1>7

\* What is kept is a list again, of those elements of the list that are wanted, and a
\* contact that was bound once is bound once in it.
LEMMA KeptList ==
  ASSUME NEW list \in Seq(Binding), NEW wanted
  PROVE  /\ Kept(list, wanted) \in Seq(Binding)
         /\ \A i \in DOMAIN Kept(list, wanted) :
              /\ Kept(list, wanted)[i] \in wanted
              /\ \E j \in DOMAIN list : list[j] = Kept(list, wanted)[i]
         /\ \A j \in DOMAIN list : list[j] \in wanted =>
              \E i \in DOMAIN Kept(list, wanted) : Kept(list, wanted)[i] = list[j]
         /\ Distinct(list) => Distinct(Kept(list, wanted))
<1> DEFINE N == Len(list)
<1>1. N \in Nat /\ DOMAIN list = 1 .. N /\ \A n \in 1 .. N : list[n] \in Binding
  OBVIOUS
<1>2. PICK f : IsTable(f, list, wanted) /\ Kept(list, wanted) = f[N]
  BY TableExists
<1>3. f[0] = <<>>
  BY <1>1, <1>2 DEF IsTable
<1>4. \A n \in 1 .. N : f[n] = IF list[n] \in wanted THEN Append(f[n - 1], list[n])
                                                     ELSE f[n - 1]
  <2> DEFINE Step(n) == IF n = 0 THEN <<>>
                        ELSE IF list[n] \in wanted THEN Append(f[n - 1], list[n]) ELSE f[n - 1]
  <2>1. f = [n \in 0 .. N |-> Step(n)]
    BY <1>2 DEF IsTable
  <2>2. \A n \in 1 .. N : n \in 0 .. N /\ n /= 0
    BY <1>1
  <2>3. \A n \in 1 .. N : f[n] = Step(n)
    <3> HIDE DEF Step
    <3> QED BY <2>1, <2>2
  <2> QED BY <2>2, <2>3
<1> DEFINE Good(s, n) ==
             /\ s \in Seq(Binding)
             /\ \A i \in 1 .. Len(s) : s[i] \in wanted /\ \E j \in 1 .. n : list[j] = s[i]
             /\ \A j \in 1 .. n : list[j] \in wanted => \E i \in 1 .. Len(s) : s[i] = list[j]
             /\ Distinct(list) =>
                  \A i, j \in 1 .. Len(s) : s[i].contact = s[j].contact => i = j
<1>5. Good(f[0], 0)
  BY <1>3
<1>6. ASSUME NEW m \in 1 .. N, Good(f[m - 1], m - 1) PROVE Good(f[m], m)
  <2>1. CASE list[m] \notin wanted
    <3>1. f[m] = f[m - 1]
      BY <1>4, <2>1
    <3>2. \A j \in 1 .. m : j = m \/ j \in 1 .. m - 1
      BY <1>1
    <3> DEFINE s == f[m - 1]
    <3>3. /\ s \in Seq(Binding)
          /\ \A i \in 1 .. Len(s) : s[i] \in wanted /\ \E j \in 1 .. m - 1 : list[j] = s[i]
          /\ \A j \in 1 .. m - 1 : list[j] \in wanted =>
               \E i \in 1 .. Len(s) : s[i] = list[j]
          /\ Distinct(list) =>
               \A i, j \in 1 .. Len(s) : s[i].contact = s[j].contact => i = j
      BY <1>6
    <3> HIDE DEF s
    <3>4. \A j \in 1 .. m - 1 : j \in 1 .. m
      BY <1>1
    <3>5. \A i \in 1 .. Len(s) : s[i] \in wanted /\ \E j \in 1 .. m : list[j] = s[i]
      BY <3>3, <3>4
    <3>6. \A j \in 1 .. m : list[j] \in wanted => \E i \in 1 .. Len(s) : s[i] = list[j]
      BY <2>1, <3>2, <3>3
    <3>7. Good(s, m)
      BY <3>3, <3>5, <3>6
    <3> QED BY <3>1, <3>7 DEF s
  <2>2. CASE list[m] \in wanted
    <3> DEFINE s == f[m - 1]
    <3>1. f[m] = Append(s, list[m]) /\ s \in Seq(Binding) /\ list[m] \in Binding
      BY <1>1, <1>4, <1>6, <2>2
    <3>2. \A j \in 1 .. m : j = m \/ j \in 1 .. m - 1
      BY <1>1
    <3>3. /\ f[m] \in Seq(Binding) /\ Len(f[m]) = Len(s) + 1 /\ Len(s) \in Nat
          /\ f[m][Len(s) + 1] = list[m]
          /\ \A i \in 1 .. Len(s) : f[m][i] = s[i]
          /\ \A i \in 1 .. Len(f[m]) : i \in 1 .. Len(s) \/ i = Len(s) + 1
      BY <3>1
    <3> HIDE DEF s
    <3>4. \A i \in 1 .. Len(s) : s[i] \in wanted /\ \E j \in 1 .. m - 1 : list[j] = s[i]
      BY <1>6 DEF s
    <3>5. \A j \in 1 .. m - 1 : list[j] \in wanted => \E i \in 1 .. Len(s) : s[i] = list[j]
      BY <1>6 DEF s
    <3>6. ASSUME NEW i \in 1 .. Len(f[m])
          PROVE  f[m][i] \in wanted /\ \E j \in 1 .. m : list[j] = f[m][i]
      <4>1. CASE i \in 1 .. Len(s)
        BY <1>1, <3>3, <3>4, <4>1
      <4>2. CASE i = Len(s) + 1
        BY <1>1, <2>2, <3>3, <4>2
      <4> QED BY <3>3, <4>1, <4>2
    <3>7. ASSUME NEW j \in 1 .. m, list[j] \in wanted
          PROVE  \E i \in 1 .. Len(f[m]) : f[m][i] = list[j]
      <4>1. CASE j = m
        BY <3>3, <4>1
      <4>2. CASE j \in 1 .. m - 1
        BY <3>3, <3>5, <3>7, <4>2
      <4> QED BY <3>2, <4>1, <4>2
    <3>8. ASSUME Distinct(list), NEW i \in 1 .. Len(f[m]), NEW j \in 1 .. Len(f[m]),
                 f[m][i].contact = f[m][j].contact
          PROVE  i = j
      <4>1. \A k \in 1 .. Len(s) : f[m][k].contact /= list[m].contact
        <5>1. ASSUME NEW k \in 1 .. Len(s), f[m][k].contact = list[m].contact PROVE FALSE
          <6>1. PICK n \in 1 .. m - 1 : list[n] = f[m][k]
            BY <3>3, <3>4
          <6>2. list[n].contact = list[m].contact /\ n \in 1 .. N /\ n /= m
            BY <1>1, <5>1, <6>1
          <6> QED BY <1>1, <3>8, <6>2 DEF Distinct
        <5> QED BY <5>1
      <4>2. \A k, n \in 1 .. Len(s) : s[k].contact = s[n].contact => k = n
        BY <1>6, <3>8 DEF s
      <4> QED BY <3>3, <3>8, <4>1, <4>2
    <3>9. Distinct(list) =>
            \A i, j \in 1 .. Len(f[m]) : f[m][i].contact = f[m][j].contact => i = j
      BY <3>8
    <3> QED BY <3>3, <3>6, <3>7, <3>9
  <2> QED BY <2>1, <2>2
<1>7. Good(f[N], N)
  <2> DEFINE T == {m \in 0 .. N : ~Good(f[m], m)}
  <2> HIDE DEF Good
  <2>1. ASSUME T /= {} PROVE FALSE
    <3>1. PICK m \in T : \A k \in T : m <= k
      <4>1. T \in SUBSET Nat
        BY <1>1
      <4> HIDE DEF T
      <4> QED BY <2>1, <4>1, LeastOf
    <3>2. m \in 1 .. N /\ m - 1 \in 0 .. N
      BY <1>1, <1>5
    <3>3. Good(f[m - 1], m - 1)
      BY <3>1, <3>2
    <3> QED BY <1>6, <3>2, <3>3
  <2> QED BY <1>1, <2>1
<1> DEFINE s == Kept(list, wanted)
<1>8. Good(s, N)
  BY <1>2, <1>7
<1>9. s \in Seq(Binding) /\ DOMAIN s = 1 .. Len(s)
  BY <1>8
<1> HIDE DEF s
<1>10. /\ \A i \in DOMAIN s : s[i] \in wanted /\ \E j \in DOMAIN list : list[j] = s[i]
       /\ \A j \in DOMAIN list : list[j] \in wanted => \E i \in DOMAIN s : s[i] = list[j]
       /\ Distinct(list) => Distinct(s)
  BY <1>1, <1>8, <1>9 DEF Distinct
<1> QED BY <1>9, <1>10 DEF s

\* The same of what is active.
LEMMA ActiveList ==
  ASSUME NEW list \in Seq(Binding)
  PROVE  /\ Active(list) \in Seq(Binding)
         /\ Distinct(list) => Distinct(Active(list))
         /\ \A i \in DOMAIN Active(list) :
              now < Active(list)[i].expires /\ \E j \in DOMAIN list : list[j] = Active(list)[i]
         /\ \A j \in DOMAIN list : now < list[j].expires =>
              \E i \in DOMAIN Active(list) : Active(list)[i] = list[j]
<1> DEFINE W == {b \in Binding : now < b.expires}
<1>1. \A i \in DOMAIN list : list[i] \in Binding
  OBVIOUS
<1>2. \A b \in Binding : b \in W <=> now < b.expires
  OBVIOUS
<1>3. \A b \in W : now < b.expires
  OBVIOUS
<1>4. Active(list) = Kept(list, W)
  BY DEF Active
<1> HIDE DEF W
<1> QED BY <1>1, <1>2, <1>3, <1>4, KeptList

\* And of what is left without a contact.
LEMMA WithoutList ==
  ASSUME NEW list \in Seq(Binding), NEW c
  PROVE  /\ Without(list, c) \in Seq(Binding)
         /\ Distinct(list) => Distinct(Without(list, c))
         /\ \A i \in DOMAIN Without(list, c) :
              /\ Without(list, c)[i].contact /= c
              /\ \E j \in DOMAIN list : list[j] = Without(list, c)[i]
         /\ \A j \in DOMAIN list : list[j].contact /= c =>
              \E i \in DOMAIN Without(list, c) : Without(list, c)[i] = list[j]
<1> DEFINE W == {b \in Binding : b.contact /= c}
<1>1. \A i \in DOMAIN list : list[i] \in Binding
  OBVIOUS
<1>2. \A b \in Binding : b \in W <=> b.contact /= c
  OBVIOUS
<1>3. \A b \in W : b.contact /= c
  OBVIOUS
<1>4. Without(list, c) = Kept(list, W)
  BY DEF Without
<1> HIDE DEF W
<1> QED BY <1>1, <1>2, <1>3, <1>4, KeptList

\* A refresh changes when a contact expires and nothing else.
LEMMA RefreshedList ==
  ASSUME NEW list \in Seq(Binding), NEW c \in Address, NEW e \in Nat
  PROVE  /\ Refreshed(list, c, e) \in Seq(Binding)
         /\ Len(Refreshed(list, c, e)) = Len(list)
         /\ \A i \in DOMAIN list :
              /\ Refreshed(list, c, e)[i].contact = list[i].contact
              /\ list[i].contact = c =>
                   Refreshed(list, c, e)[i] = [contact |-> c, expires |-> e]
              /\ list[i].contact /= c => Refreshed(list, c, e)[i] = list[i]
         /\ Distinct(list) => Distinct(Refreshed(list, c, e))
<1> DEFINE new == Refreshed(list, c, e)
<1>1. \A i \in DOMAIN list : list[i] \in Binding
  OBVIOUS
<1>2. [contact |-> c, expires |-> e] \in Binding
  BY DEF Binding
<1>3. DOMAIN new = DOMAIN list /\ DOMAIN list = 1 .. Len(list) /\ Len(list) \in Nat
  BY DEF Refreshed
<1>4. \A i \in DOMAIN list :
        new[i] = IF list[i].contact = c THEN [contact |-> c, expires |-> e] ELSE list[i]
  BY DEF Refreshed
<1>5. \A i \in DOMAIN list : new[i] \in Binding /\ new[i].contact = list[i].contact
  BY <1>1, <1>2, <1>4
<1>6. new = [i \in 1 .. Len(list) |-> new[i]]
  BY <1>3 DEF Refreshed
<1>7. new \in Seq(Binding) /\ Len(new) = Len(list)
  <2>1. \A i \in 1 .. Len(list) : new[i] \in Binding
    BY <1>3, <1>5
  <2> QED BY <1>3, <1>6, <2>1
<1> HIDE DEF new
<1>8. Distinct(list) => Distinct(new)
  BY <1>3, <1>5 DEF Distinct
<1> QED BY <1>3, <1>4, <1>5, <1>7, <1>8 DEF new

\* A new contact comes last.
LEMMA AppendedList ==
  ASSUME NEW list \in Seq(Binding), NEW b \in Binding, ~Has(list, b.contact)
  PROVE  /\ Append(list, b) \in Seq(Binding) /\ Len(Append(list, b)) = Len(list) + 1
         /\ Append(list, b)[Len(list) + 1] = b
         /\ \A i \in DOMAIN list : Append(list, b)[i] = list[i]
         /\ Distinct(list) => Distinct(Append(list, b))
<1> DEFINE new == Append(list, b)
<1>1. /\ new \in Seq(Binding) /\ Len(new) = Len(list) + 1 /\ Len(list) \in Nat
      /\ DOMAIN list = 1 .. Len(list) /\ DOMAIN new = 1 .. Len(list) + 1
      /\ new[Len(list) + 1] = b
      /\ \A i \in DOMAIN list : new[i] = list[i]
  OBVIOUS
<1> HIDE DEF new
<1>2. \A i \in DOMAIN new : i \in DOMAIN list \/ i = Len(list) + 1
  BY <1>1
<1>3. \A i \in DOMAIN list : list[i].contact /= b.contact
  BY DEF Has
<1>4. Distinct(list) => Distinct(new)
  BY <1>1, <1>2, <1>3 DEF Distinct
<1> QED BY <1>1, <1>4 DEF new

-----------------------------------------------------------------------------
(* The types *)

LEMMA InitTyped == Init => TypeOK
<1> SUFFICES ASSUME Init PROVE TypeOK
  OBVIOUS
<1> USE RegistrarAssumption DEF Init
<1>1. BindingsType
  BY DEF BindingsType, Distinct, Binding
<1>2. RegisterType
  <2>1. NoMessage \in [user : Users \cup {None}, contacts : Seq(Address), expires : Nat]
    BY DEF NoMessage
  <2> QED BY <2>1 DEF RegisterType
<1>3. LookupType
  BY DEF LookupType, Distinct
<1> QED BY <1>1, <1>2, <1>3 DEF TypeOK

\* What a REGISTER does with one contact of its list.
Touches(u, c, e) ==
  /\ \/ e > now /\ (Refreshes(u, c, e) \/ AddsContact(u, c, e))
     \/ e = 0 /\ RemovesContact(u, c)
  /\ Grants(u, c, e)

LEMMA UpdatesTouches ==
  ASSUME TypeOK, NEW p \in Registrants, Updates(p)
  PROVE  /\ \E u \in Users, c \in Address, e \in Nat : Touches(u, c, e)
         /\ UNCHANGED <<now, lpc, user, target>>
<1> DEFINE u == msg[p].user
           c == Head(msg[p].contacts)
           e == IF msg[p].expires = 0 THEN 0 ELSE now + msg[p].expires
<1>1. /\ msg[p].user \in Users /\ msg[p].contacts \in Seq(Address) /\ msg[p].contacts /= <<>>
      /\ msg[p].expires \in Nat /\ now \in Nat
  BY RegistrarAssumption DEF TypeOK, RegisterType, BindingsType, Updates
<1>2. u \in Users /\ c \in Address /\ e \in Nat /\ (e > 0 => e > now)
  BY <1>1
<1>3. /\ \/ e > 0 /\ (Refreshes(u, c, e) \/ AddsContact(u, c, e))
         \/ e = 0 /\ RemovesContact(u, c)
      /\ Grants(u, c, e)
      /\ UNCHANGED <<now, lpc, user, target>>
  BY DEF Updates
<1> HIDE DEF u, c, e
<1>4. Touches(u, c, e)
  BY <1>2, <1>3 DEF Touches
<1> QED BY <1>2, <1>3, <1>4

LEMMA GrantsTyped ==
  ASSUME BindingsType, NEW u \in Users, NEW c \in Address, NEW e \in Nat, Grants(u, c, e)
  PROVE  /\ granted' \in [Users -> [Address -> Nat]]
         /\ \A v \in Users \ {u} : granted'[v] = granted[v]
         /\ \A d \in Address :
              granted'[u][d] = IF c = Star /\ e = 0 THEN 0
                               ELSE IF d = c THEN e ELSE granted[u][d]
<1> DEFINE g == IF c = Star /\ e = 0 THEN [d \in Address |-> 0] ELSE [granted[u] EXCEPT ![c] = e]
<1>1. granted \in [Users -> [Address -> Nat]] /\ granted[u] \in [Address -> Nat]
  BY DEF BindingsType
<1>2. g \in [Address -> Nat]
  BY <1>1
<1>3. \A d \in Address : g[d] = IF c = Star /\ e = 0 THEN 0
                                ELSE IF d = c THEN e ELSE granted[u][d]
  BY <1>1
<1>4. granted' = [granted EXCEPT ![u] = g]
  BY DEF Grants
<1> HIDE DEF g
<1> QED BY <1>1, <1>2, <1>3, <1>4

LEMMA TouchTyped ==
  ASSUME TypeOK, NEW u \in Users, NEW c \in Address, NEW e \in Nat, Touches(u, c, e),
         UNCHANGED <<now, lpc, user, target>>
  PROVE  /\ BindingsType'
         /\ seen' \in [Lookups -> Seq(Binding)] /\ \A l \in Lookups : Distinct(seen'[l])
         /\ aliased' \in [Lookups -> BOOLEAN]
         /\ \A l \in Lookups : lpc'[l] = "filter" /\ aliased'[l] =>
              IsPrefix(seen'[l], registrations'[user'[l]])
<1>1. /\ registrations \in [Users -> Seq(Binding)] /\ registrations[u] \in Seq(Binding)
      /\ \A v \in Users : Distinct(registrations[v])
      /\ now \in 0 .. MaxTime /\ overtaken \subseteq Users
      /\ seen \in [Lookups -> Seq(Binding)] /\ \A l \in Lookups : Distinct(seen[l])
      /\ aliased \in [Lookups -> BOOLEAN]
      /\ \A l \in Lookups : lpc[l] = "filter" =>
           user[l] \in Users /\ (aliased[l] => IsPrefix(seen[l], registrations[user[l]]))
  BY DEF TypeOK, BindingsType, LookupType
<1>2. granted' \in [Users -> [Address -> Nat]]
  BY GrantsTyped DEF Touches, TypeOK
<1>7. \A list \in Seq(Binding) : Len(Refreshed(list, c, e)) = Len(list)
  BY RefreshedList
<1>8. \A list \in Seq(Binding) : Refreshed(list, c, e) \in Seq(Binding)
  BY RefreshedList
<1>9. \A list \in Seq(Binding) : Distinct(list) => Distinct(Refreshed(list, c, e))
  BY RefreshedList
<1>3. ASSUME Refreshes(u, c, e)
      PROVE  /\ registrations' \in [Users -> Seq(Binding)]
             /\ \A v \in Users : Distinct(registrations'[v])
             /\ overtaken' \subseteq Users
             /\ seen' \in [Lookups -> Seq(Binding)] /\ \A l \in Lookups : Distinct(seen'[l])
             /\ aliased' \in [Lookups -> BOOLEAN]
             /\ \A l \in Lookups : lpc'[l] = "filter" /\ aliased'[l] =>
                  IsPrefix(seen'[l], registrations'[user'[l]])
  <2> DEFINE new == Refreshed(registrations[u], c, e)
  <2>1. new \in Seq(Binding) /\ Distinct(new) /\ Len(new) = Len(registrations[u])
    <3>1. registrations[u] \in Seq(Binding) /\ Distinct(registrations[u])
      BY <1>1
    <3>2. new \in Seq(Binding)
      BY <3>1, <1>7, <1>8, <1>9
    <3>3. Distinct(new)
      BY <3>1, <1>7, <1>8, <1>9
    <3>4. Len(new) = Len(registrations[u])
      BY <3>1, <1>7, <1>8, <1>9
    <3> QED BY <3>2, <3>3, <3>4
  <2>2. registrations' = [registrations EXCEPT ![u] = new]
    BY <1>3 DEF Refreshes
  <2>3. \A i \in DOMAIN registrations[u] :
          new[i] = IF registrations[u][i].contact = c THEN [contact |-> c, expires |-> e]
                                                      ELSE registrations[u][i]
    BY <1>1, RefreshedList
  <2> HIDE DEF new
  <2>4. /\ registrations' \in [Users -> Seq(Binding)]
        /\ \A v \in Users : Distinct(registrations'[v])
    BY <1>1, <2>1, <2>2
  <2>5. overtaken' \subseteq Users /\ aliased' = aliased
    BY <1>1, <1>3 DEF Refreshes
  <2>6. \A l \in Lookups : Refreshed(seen[l], c, e) \in Seq(Binding)
                           /\ Distinct(Refreshed(seen[l], c, e))
    BY <1>1, RefreshedList
  <2>7. seen' = [l \in Lookups |-> IF aliased[l] /\ user[l] = u THEN Refreshed(seen[l], c, e)
                                                               ELSE seen[l]]
    BY <1>3 DEF Refreshes
  <2>8. seen' \in [Lookups -> Seq(Binding)] /\ \A l \in Lookups : Distinct(seen'[l])
    BY <1>1, <2>6, <2>7
  <2>9. ASSUME NEW l \in Lookups, lpc'[l] = "filter", aliased'[l]
        PROVE  IsPrefix(seen'[l], registrations'[user'[l]])
    <3>1. user[l] \in Users /\ IsPrefix(seen[l], registrations[user[l]]) /\ aliased[l]
      BY <1>1, <2>5, <2>9
    <3>2. CASE user[l] /= u
      BY <1>1, <2>2, <2>7, <3>1, <3>2
    <3>3. CASE user[l] = u
      <4> DEFINE s == Refreshed(seen[l], c, e)
      <4>1. seen'[l] = s /\ registrations'[user'[l]] = new
        BY <1>1, <2>2, <2>7, <3>1, <3>3
      <4>2. s \in Seq(Binding) /\ Len(s) = Len(seen[l]) /\ DOMAIN s = DOMAIN seen[l]
        <5>1. seen[l] \in Seq(Binding)
          BY <1>1
        <5>2. s \in Seq(Binding)
          BY <5>1, <1>7, <1>8
        <5>3. Len(s) = Len(seen[l])
          BY <5>1, <1>7, <1>8
        <5> HIDE DEF s
        <5>4. DOMAIN s = DOMAIN seen[l]
          BY <5>1, <5>2, <5>3
        <5> QED BY <5>2, <5>3, <5>4
      <4>3. \A i \in DOMAIN seen[l] :
              s[i] = IF seen[l][i].contact = c THEN [contact |-> c, expires |-> e] ELSE seen[l][i]
        BY <1>1, RefreshedList
      <4>4. seen[l] \in Seq(Binding)
        BY <1>1
      <4> HIDE DEF s
      <4>5. \A i \in DOMAIN seen[l] : i \in DOMAIN registrations[u]
                                      /\ seen[l][i] = registrations[u][i]
        BY <1>1, <3>1, <3>3, <4>4 DEF IsPrefix
      <4>6. IsPrefix(s, new)
        BY <2>1, <2>3, <3>1, <3>3, <4>2, <4>3, <4>5 DEF IsPrefix
      <4> QED BY <4>1, <4>6
    <3> QED BY <3>2, <3>3
  <2> QED BY <1>1, <2>4, <2>5, <2>8, <2>9
<1>4. ASSUME AddsContact(u, c, e)
      PROVE  /\ registrations' \in [Users -> Seq(Binding)]
             /\ \A v \in Users : Distinct(registrations'[v])
             /\ overtaken' \subseteq Users
             /\ seen' = seen
             /\ aliased' \in [Lookups -> BOOLEAN]
             /\ \A l \in Lookups : lpc'[l] = "filter" /\ aliased'[l] =>
                  IsPrefix(seen'[l], registrations'[user'[l]])
  <2> DEFINE b == [contact |-> c, expires |-> e]
             new == Append(registrations[u], b)
  <2>1. /\ new \in Seq(Binding) /\ Distinct(new) /\ Len(new) = Len(registrations[u]) + 1
        /\ \A i \in DOMAIN registrations[u] : i \in DOMAIN new /\ new[i] = registrations[u][i]
    <3>1. b \in Binding /\ ~Has(registrations[u], b.contact)
      BY <1>4 DEF AddsContact, Binding
    <3>2. registrations[u] \in Seq(Binding) /\ Distinct(registrations[u])
      BY <1>1
    <3> HIDE DEF b
    <3>3. /\ new \in Seq(Binding) /\ Distinct(new) /\ Len(new) = Len(registrations[u]) + 1
          /\ \A i \in DOMAIN registrations[u] : new[i] = registrations[u][i]
      BY <3>1, <3>2, AppendedList
    <3> HIDE DEF new
    <3> QED BY <3>2, <3>3
  <2>2. registrations' = [registrations EXCEPT ![u] = new]
    BY <1>4 DEF AddsContact, Replaces
  <2>3. overtaken' \subseteq Users /\ seen' = seen
    BY <1>1, <1>4 DEF AddsContact
  <2>4. \/ aliased' = aliased
        \/ aliased' = [l \in Lookups |-> aliased[l] /\ user[l] /= u]
    BY <1>4 DEF AddsContact, Replaces
  <2> HIDE DEF new
  <2>5. /\ registrations' \in [Users -> Seq(Binding)]
        /\ \A v \in Users : Distinct(registrations'[v])
    BY <1>1, <2>1, <2>2
  <2>6. aliased' \in [Lookups -> BOOLEAN] /\ \A l \in Lookups : aliased'[l] => aliased[l]
    BY <1>1, <2>4
  <2>7. ASSUME NEW l \in Lookups, lpc'[l] = "filter", aliased'[l]
        PROVE  IsPrefix(seen'[l], registrations'[user'[l]])
    <3>1. user[l] \in Users /\ IsPrefix(seen[l], registrations[user[l]])
      BY <1>1, <2>6, <2>7
    <3>2. CASE user[l] /= u
      BY <1>1, <2>2, <2>3, <3>1, <3>2
    <3>3. CASE user[l] = u
      <4>1. registrations'[user'[l]] = new /\ seen'[l] = seen[l] /\ seen[l] \in Seq(Binding)
        BY <1>1, <2>2, <2>3, <3>3
      <4>2. \A i \in DOMAIN seen[l] : i \in DOMAIN registrations[u]
                                      /\ seen[l][i] = registrations[u][i]
        BY <1>1, <3>1, <3>3, <4>1 DEF IsPrefix
      <4>3. Len(seen[l]) <= Len(new)
        BY <1>1, <2>1, <3>1, <3>3, <4>1 DEF IsPrefix
      <4> QED BY <2>1, <4>1, <4>2, <4>3 DEF IsPrefix
    <3> QED BY <3>2, <3>3
  <2> QED BY <2>3, <2>5, <2>6, <2>7
<1>5. ASSUME RemovesContact(u, c)
      PROVE  /\ registrations' \in [Users -> Seq(Binding)]
             /\ \A v \in Users : Distinct(registrations'[v])
             /\ overtaken' \subseteq Users
             /\ seen' = seen
             /\ aliased' \in [Lookups -> BOOLEAN]
             /\ \A l \in Lookups : lpc'[l] = "filter" /\ aliased'[l] =>
                  IsPrefix(seen'[l], registrations'[user'[l]])
  <2> DEFINE new == IF c = Star THEN <<>> ELSE Without(registrations[u], c)
  <2>1. new \in Seq(Binding) /\ Distinct(new)
    <3>1. <<>> \in Seq(Binding) /\ Distinct(<<>>)
      BY DEF Distinct
    <3>2. Without(registrations[u], c) \in Seq(Binding) /\ Distinct(Without(registrations[u], c))
      BY <1>1, WithoutList
    <3> QED BY <3>1, <3>2
  <2>2. /\ registrations' = [registrations EXCEPT ![u] = new]
        /\ aliased' = [l \in Lookups |-> aliased[l] /\ user[l] /= u]
    BY <1>5 DEF RemovesContact, Replaces
  <2>3. overtaken' \subseteq Users /\ seen' = seen
    BY <1>1, <1>5 DEF RemovesContact
  <2> HIDE DEF new
  <2>4. /\ registrations' \in [Users -> Seq(Binding)]
        /\ \A v \in Users : Distinct(registrations'[v])
    BY <1>1, <2>1, <2>2
  <2>5. aliased' \in [Lookups -> BOOLEAN]
        /\ \A l \in Lookups : aliased'[l] => aliased[l] /\ user[l] /= u
    BY <1>1, <2>2
  <2>6. ASSUME NEW l \in Lookups, lpc'[l] = "filter", aliased'[l]
        PROVE  IsPrefix(seen'[l], registrations'[user'[l]])
    BY <1>1, <2>2, <2>3, <2>5, <2>6
  <2> QED BY <2>3, <2>4, <2>5, <2>6
<1>6. Refreshes(u, c, e) \/ AddsContact(u, c, e) \/ RemovesContact(u, c)
  BY DEF Touches
<1> QED BY <1>1, <1>2, <1>3, <1>4, <1>5, <1>6 DEF BindingsType

\* The REGISTERs' own variables.
LEMMA RegisterTyped ==
  ASSUME TypeOK, NEW p \in Registrants, RegisterStep(p)
  PROVE  RegisterType'
<1>1. /\ regMutex \in Registrants \cup {None}
      /\ nonces \in [Nonces -> Nat \cup {None}] /\ issued \subseteq Nonces
      /\ uses \in [Nonces -> Nat]
      /\ pc \in [Registrants -> {"idle", "validate", "refused", "authenticate", "update",
                                 "contacts"}]
      /\ nonce \in [Registrants -> Nonces \cup {None}]
      /\ msg \in [Registrants ->
                   [user : Users \cup {None}, contacts : Seq(Address), expires : Nat]]
      /\ \A q \in Registrants : pc[q] \in {"update", "contacts"} =>
           msg[q].user \in Users /\ msg[q].contacts /= <<>>
      /\ now \in Nat
  BY RegistrarAssumption DEF TypeOK, RegisterType, BindingsType
<1>2. CASE Challenges(p)
  <2>1. PICK n \in Nonces \ issued : nonces' = [nonces EXCEPT ![n] = now + NonceTtl]
                                     /\ issued' = issued \cup {n}
    BY <1>2 DEF Challenges
  <2>2. now + NonceTtl \in Nat
    BY <1>1, RegistrarAssumption
  <2>3. pc' = [pc EXCEPT ![p] = "idle"] /\ nonce' = [nonce EXCEPT ![p] = None]
        /\ UNCHANGED <<regMutex, uses, msg>>
    BY <1>2 DEF Challenges, GoTo
  <2> QED BY <1>1, <2>1, <2>2, <2>3 DEF RegisterType
<1>3. ASSUME NEW n \in Nonces, Receives(p, n) PROVE RegisterType'
  BY <1>1, <1>3 DEF Receives, GoTo, nonceVars, RegisterType
<1>4. CASE Validates(p)
  <2>1. nonces' = [nonces EXCEPT ![nonce[p]] = None]
        /\ UNCHANGED <<regMutex, issued, uses, nonce, msg>>
    BY <1>4 DEF Validates
  <2>2. \/ pc' = [pc EXCEPT ![p] = "authenticate"]
        \/ pc' = [pc EXCEPT ![p] = "refused"]
    BY <1>4 DEF Validates, GoTo
  <2>3. nonces' \in [Nonces -> Nat \cup {None}]
    BY <1>1, <2>1
  <2> QED BY <1>1, <2>1, <2>2, <2>3 DEF RegisterType
<1>5. CASE Refuses(p)
  BY <1>1, <1>5 DEF Refuses, GoTo, nonceVars, RegisterType
<1>6. CASE Authenticates(p)
  <2>1. PICK u \in Users, cs \in ContactLists, e \in Ttls :
          msg' = [msg EXCEPT ![p] = [user |-> u, contacts |-> cs, expires |-> e]]
    BY <1>6 DEF Authenticates
  <2> DEFINE m == [user |-> u, contacts |-> cs, expires |-> e]
  <2>2. cs \in Seq(Address) /\ cs /= <<>> /\ e \in Nat
    BY RegistrarAssumption DEF Address
  <2>3. m \in [user : Users \cup {None}, contacts : Seq(Address), expires : Nat]
        /\ m.user \in Users /\ m.contacts /= <<>> /\ msg' = [msg EXCEPT ![p] = m]
    BY <2>1, <2>2
  <2>4. /\ uses' = [uses EXCEPT ![nonce[p]] = @ + 1]
        /\ pc' = [pc EXCEPT ![p] = "update"]
        /\ UNCHANGED <<regMutex, nonces, issued, nonce>>
    BY <1>6 DEF Authenticates, GoTo
  <2> HIDE DEF m
  <2>5. uses' \in [Nonces -> Nat]
    <3>1. \A n \in Nonces : uses[n] + 1 \in Nat
      BY <1>1
    <3>2. uses' = [n \in Nonces |-> IF n = nonce[p] THEN uses[n] + 1 ELSE uses[n]]
      BY <1>1, <2>4
    <3> QED BY <1>1, <3>1, <3>2
  <2> QED BY <1>1, <2>3, <2>4, <2>5 DEF RegisterType
<1>7. CASE Locks(p)
  BY <1>1, <1>7 DEF Locks, GoTo, nonceVars, RegisterType
<1>8. CASE Updates(p)
  <2>1. UNCHANGED <<nonces, issued, uses>> /\ pc[p] = "contacts"
    BY <1>8 DEF Updates, nonceVars
  <2>2. CASE Len(msg[p].contacts) = 1
    <3>1. /\ pc' = [pc EXCEPT ![p] = "idle"] /\ regMutex' = None
          /\ msg' = [msg EXCEPT ![p] = NoMessage] /\ nonce' = [nonce EXCEPT ![p] = None]
      BY <1>8, <2>2 DEF Updates, GoTo
    <3>2. NoMessage \in [user : Users \cup {None}, contacts : Seq(Address), expires : Nat]
      BY DEF NoMessage
    <3> QED BY <1>1, <2>1, <3>1, <3>2 DEF RegisterType
  <2>3. CASE Len(msg[p].contacts) /= 1
    <3> DEFINE m == [msg[p] EXCEPT !.contacts = Tail(@)]
    <3>1. UNCHANGED <<pc, nonce, regMutex>> /\ msg' = [msg EXCEPT ![p].contacts = Tail(@)]
      BY <1>8, <2>3 DEF Updates
    <3>2. msg[p] \in [user : Users \cup {None}, contacts : Seq(Address), expires : Nat]
          /\ msg[p].contacts \in Seq(Address) /\ msg[p].contacts /= <<>>
          /\ msg[p].user \in Users
      BY <1>1, <2>1
    <3>3. Tail(msg[p].contacts) \in Seq(Address) /\ Tail(msg[p].contacts) /= <<>>
      <4>1. \A s \in Seq(Address) : s /= <<>> /\ Len(s) /= 1 =>
              Tail(s) \in Seq(Address) /\ Tail(s) /= <<>>
        <5>1. ASSUME NEW s \in Seq(Address), s /= <<>>, Len(s) /= 1
              PROVE  Tail(s) \in Seq(Address) /\ Tail(s) /= <<>>
          <6>1. Tail(s) \in Seq(Address) /\ Len(Tail(s)) = Len(s) - 1 /\ Len(s) \in Nat
            BY <5>1, HeadTailProperties
          <6>2. Len(s) /= 0
            BY <5>1, EmptySeq
          <6>3. Len(Tail(s)) /= 0
            BY <5>1, <6>1, <6>2
          <6>4. Tail(s) /= <<>>
            <7> DEFINE t == Tail(s)
            <7> HIDE DEF t
            <7>1. Len(t) /= 0
              BY <6>3 DEF t
            <7>2. t /= <<>>
              BY <7>1
            <7> QED BY <7>2 DEF t
          <6> QED BY <6>1, <6>4
        <5> QED BY <5>1
      <4> QED BY <2>3, <3>2, <4>1
    <3>4. m \in [user : Users \cup {None}, contacts : Seq(Address), expires : Nat]
          /\ m.user \in Users /\ m.contacts /= <<>> /\ msg' = [msg EXCEPT ![p] = m]
      BY <1>1, <3>1, <3>2, <3>3
    <3> HIDE DEF m
    <3> QED BY <1>1, <2>1, <3>1, <3>4 DEF RegisterType
  <2> QED BY <2>2, <2>3
<1> QED BY <1>2, <1>3, <1>4, <1>5, <1>6, <1>7, <1>8 DEF RegisterStep

\* What the look-ups have witnessed.
LEMMA ObserveTyped ==
  ASSUME Observe, witness \in [Lookups -> SUBSET (Address \cup {None})],
         registrations' \in [Users -> Seq(Binding)],
         \A l \in Lookups : lpc'[l] = "filter" => user'[l] \in Users
  PROVE  witness' \in [Lookups -> SUBSET (Address \cup {None})]
<1>1. ASSUME NEW l \in Lookups, lpc'[l] = "filter"
      PROVE  Answers(user[l])' \subseteq Address \cup {None}
  <2>1. user'[l] \in Users /\ registrations'[user'[l]] \in Seq(Binding)
    BY <1>1
  <2>2. \A i \in DOMAIN registrations'[user'[l]] :
          registrations'[user'[l]][i].contact \in Address
    <3>1. \A list \in Seq(Binding) : \A i \in DOMAIN list : list[i].contact \in Address
      <4>1. \A list \in Seq(Binding) : \A i \in DOMAIN list : list[i] \in Binding
        OBVIOUS
      <4>2. \A b \in Binding : b.contact \in Address
        BY DEF Binding
      <4> QED BY <4>1, <4>2
    <3> QED BY <2>1, <3>1
  <2> QED BY <2>2 DEF Answers
<1>2. witness' = [l \in Lookups |-> IF lpc'[l] = "filter" THEN witness[l] \cup Answers(user[l])'
                                                          ELSE {}]
  BY DEF Observe
<1> QED BY <1>1, <1>2

\* The look-ups' own variables and the bindings.
LEMMA LookupTyped ==
  ASSUME TypeOK, Observe, NEW l \in Lookups, LookupStep(l)
  PROVE  BindingsType' /\ RegisterType' /\ LookupType'
<1>1. /\ registrations \in [Users -> Seq(Binding)]
      /\ \A v \in Users : Distinct(registrations[v])
      /\ now \in 0 .. MaxTime /\ overtaken \subseteq Users
      /\ granted \in [Users -> [Address -> Nat]]
      /\ lpc \in [Lookups -> {"idle", "filter", "done"}]
      /\ user \in [Lookups -> Users \cup {None}] /\ aliased \in [Lookups -> BOOLEAN]
      /\ seen \in [Lookups -> Seq(Binding)] /\ \A k \in Lookups : Distinct(seen[k])
      /\ \A k \in Lookups : lpc[k] = "filter" =>
           user[k] \in Users /\ (aliased[k] => IsPrefix(seen[k], registrations[user[k]]))
      /\ target \in [Lookups -> Address \cup {None}]
      /\ witness \in [Lookups -> SUBSET (Address \cup {None})]
  BY DEF TypeOK, BindingsType, LookupType
<1>2. UNCHANGED <<regMutex, nonceVars, registerVars, granted, overtaken, now>>
  BY DEF LookupStep, Filters, Reads
<1>3. RegisterType'
  BY <1>2 DEF TypeOK, RegisterType, nonceVars, registerVars
<1>4. ASSUME NEW u \in Users, Reads(l, u)
      PROVE  BindingsType' /\ LookupType'
  <2>1. /\ registrations' = registrations /\ target' = target
        /\ user' = [user EXCEPT ![l] = u]
        /\ seen' = [seen EXCEPT ![l] = registrations[u]]
        /\ aliased' = [aliased EXCEPT ![l] = TRUE]
    BY <1>4 DEF Reads
  <2>2. lpc' = [lpc EXCEPT ![l] = "done"] \/ lpc' = [lpc EXCEPT ![l] = "filter"]
    BY <1>4 DEF Reads
  <2>3. BindingsType'
    BY <1>1, <1>2, <2>1 DEF BindingsType, Distinct
  <2>4. /\ seen' \in [Lookups -> Seq(Binding)] /\ \A k \in Lookups : Distinct(seen'[k])
        /\ lpc' \in [Lookups -> {"idle", "filter", "done"}]
        /\ user' \in [Lookups -> Users \cup {None}] /\ aliased' \in [Lookups -> BOOLEAN]
    BY <1>1, <2>1, <2>2
  <2>5. \A list \in Seq(Binding) : IsPrefix(list, list)
    BY DEF IsPrefix
  <2>6. \A k \in Lookups : lpc'[k] = "filter" =>
          user'[k] \in Users /\ (aliased'[k] => IsPrefix(seen'[k], registrations'[user'[k]]))
    <3>1. ASSUME NEW k \in Lookups \ {l}
          PROVE  lpc'[k] = lpc[k] /\ user'[k] = user[k] /\ seen'[k] = seen[k]
                 /\ aliased'[k] = aliased[k]
      BY <1>1, <2>1, <2>2
    <3>2. user'[l] = u /\ seen'[l] = registrations[u]
      BY <1>1, <2>1
    <3> QED BY <1>1, <2>1, <2>5, <3>1, <3>2
  <2>7. witness' \in [Lookups -> SUBSET (Address \cup {None})]
    BY <1>1, <2>1, <2>6, ObserveTyped
  <2> QED BY <1>1, <2>1, <2>3, <2>4, <2>6, <2>7 DEF LookupType
<1>5. CASE Filters(l)
  <2> DEFINE u == user[l]
             new == Active(seen[l])
  <2>1. lpc[l] = "filter" /\ u \in Users /\ seen[l] \in Seq(Binding) /\ Distinct(seen[l])
    BY <1>1, <1>5 DEF Filters
  <2>2. new \in Seq(Binding) /\ Distinct(new)
    BY <2>1, ActiveList
  <2>3. /\ registrations' = [registrations EXCEPT ![u] = new]
        /\ aliased' = [k \in Lookups |-> aliased[k] /\ user[k] /= u]
        /\ target' = [target EXCEPT ![l] = IF new = <<>> THEN None ELSE new[1].contact]
        /\ lpc' = [lpc EXCEPT ![l] = "done"] /\ seen' = [seen EXCEPT ![l] = <<>>]
        /\ user' = user
    BY <1>5 DEF Filters, Replaces
  <2> HIDE DEF new
  <2>4. BindingsType'
    <3>1. registrations' \in [Users -> Seq(Binding)]
          /\ \A v \in Users : Distinct(registrations'[v])
      BY <1>1, <2>1, <2>2, <2>3
    <3> QED BY <1>1, <1>2, <3>1 DEF BindingsType
  <2>5. seen' \in [Lookups -> Seq(Binding)] /\ \A k \in Lookups : Distinct(seen'[k])
    <3>1. <<>> \in Seq(Binding) /\ Distinct(<<>>)
      BY DEF Distinct
    <3> QED BY <1>1, <2>3, <3>1
  <2>6. /\ lpc' \in [Lookups -> {"idle", "filter", "done"}]
        /\ user' \in [Lookups -> Users \cup {None}] /\ aliased' \in [Lookups -> BOOLEAN]
    BY <1>1, <2>3
  <2>7. target' \in [Lookups -> Address \cup {None}]
    <3>1. new /= <<>> => new[1] \in Binding
      BY <2>2
    <3>2. \A b \in Binding : b.contact \in Address
      BY DEF Binding
    <3>3. (IF new = <<>> THEN None ELSE new[1].contact) \in Address \cup {None}
      BY <3>1, <3>2
    <3> QED BY <1>1, <2>3, <3>3
  <2>8. \A k \in Lookups : lpc'[k] = "filter" =>
          user'[k] \in Users /\ (aliased'[k] => IsPrefix(seen'[k], registrations'[user'[k]]))
    <3>1. ASSUME NEW k \in Lookups, lpc'[k] = "filter"
          PROVE  k /= l /\ lpc[k] = "filter" /\ seen'[k] = seen[k] /\ user'[k] = user[k]
                 /\ user[k] \in Users
      BY <1>1, <2>3, <3>1
    <3>2. ASSUME NEW k \in Lookups, lpc'[k] = "filter", aliased'[k]
          PROVE  aliased[k] /\ registrations'[user'[k]] = registrations[user[k]]
      BY <1>1, <2>1, <2>3, <3>1, <3>2
    <3> QED BY <1>1, <3>1, <3>2
  <2>9. witness' \in [Lookups -> SUBSET (Address \cup {None})]
    BY <1>1, <2>4, <2>8, ObserveTyped DEF BindingsType
  <2> QED BY <1>3, <2>4, <2>5, <2>6, <2>7, <2>8, <2>9 DEF LookupType
<1> QED BY <1>3, <1>4, <1>5 DEF LookupStep

\* The steps of a REGISTER that are not updates leave the bindings and the look-ups alone.
LEMMA StepLeaves ==
  ASSUME NEW p \in Registrants, RegisterStep(p), ~Updates(p)
  PROVE  UNCHANGED <<registrations, now, lookupVars, granted, overtaken>>
BY DEF RegisterStep, Challenges, Receives, Validates, Refuses, Authenticates, Locks, lookupVars

LEMMA NextTyped == TypeOK /\ [Next]_vars => TypeOK'
<1> SUFFICES ASSUME TypeOK, [Next]_vars PROVE TypeOK'
  OBVIOUS
<1>1. CASE UNCHANGED vars
  BY <1>1 DEF TypeOK, BindingsType, RegisterType, LookupType, vars, registerVars, nonceVars,
              lookupVars, Distinct, IsPrefix
<1> SUFFICES ASSUME Next PROVE TypeOK'
  BY <1>1
<1>2. Observe
  BY DEF Next
<1>3. ASSUME UNCHANGED <<registrations, lookupVars, granted, overtaken>>, now' \in 0 .. MaxTime
      PROVE  BindingsType' /\ LookupType'
  <2>1. BindingsType'
    BY <1>3 DEF TypeOK, BindingsType, Distinct
  <2>2. witness' \in [Lookups -> SUBSET (Address \cup {None})]
    BY <1>2, <1>3, ObserveTyped DEF TypeOK, BindingsType, LookupType, lookupVars
  <2>3. LookupType'
    BY <1>3, <2>2 DEF TypeOK, LookupType, lookupVars, Distinct, IsPrefix
  <2> QED BY <2>1, <2>3 DEF TypeOK

<1>4. CASE Tick
  <2>1. UNCHANGED <<registrations, lookupVars, granted, overtaken>> /\ now' \in 0 .. MaxTime
    BY <1>4, RegistrarAssumption DEF Tick, TypeOK, BindingsType
  <2>2. RegisterType'
    BY <1>4 DEF Tick, TypeOK, RegisterType, nonceVars, registerVars
  <2> QED BY <1>3, <2>1, <2>2 DEF TypeOK
<1>5. ASSUME NEW p \in Registrants, RegisterStep(p), ~Updates(p) PROVE TypeOK'
  <2>1. UNCHANGED <<registrations, lookupVars, granted, overtaken>> /\ now' \in 0 .. MaxTime
    BY <1>5, StepLeaves DEF TypeOK, BindingsType
  <2>2. RegisterType'
    BY <1>5, RegisterTyped
  <2> QED BY <1>3, <2>1, <2>2 DEF TypeOK
<1>6. ASSUME NEW p \in Registrants, Updates(p) PROVE TypeOK'
  <2>1. RegisterType'
    BY <1>6, RegisterTyped DEF RegisterStep
  <2>2. PICK u \in Users, c \in Address, e \in Nat : Touches(u, c, e)
    BY <1>6, UpdatesTouches
  <2>3. UNCHANGED <<now, lpc, user, target>>
    BY <1>6, UpdatesTouches
  <2>4. /\ BindingsType'
        /\ seen' \in [Lookups -> Seq(Binding)] /\ \A l \in Lookups : Distinct(seen'[l])
        /\ aliased' \in [Lookups -> BOOLEAN]
        /\ \A l \in Lookups : lpc'[l] = "filter" /\ aliased'[l] =>
             IsPrefix(seen'[l], registrations'[user'[l]])
    BY <2>2, <2>3, TouchTyped
  <2>5. \A l \in Lookups : lpc'[l] = "filter" => user'[l] \in Users
    BY <2>3 DEF TypeOK, LookupType
  <2>6. witness' \in [Lookups -> SUBSET (Address \cup {None})]
    BY <1>2, <2>4, <2>5, ObserveTyped DEF TypeOK, BindingsType, LookupType
  <2>7. LookupType'
    BY <2>3, <2>4, <2>5, <2>6 DEF TypeOK, LookupType
  <2> QED BY <2>1, <2>4, <2>7 DEF TypeOK
<1>7. ASSUME NEW l \in Lookups, LookupStep(l) PROVE TypeOK'
  BY <1>2, <1>7, LookupTyped DEF TypeOK
<1> QED BY <1>4, <1>5, <1>6, <1>7 DEF Next

\* Every reachable state has the types.
LEMMA Typed == Spec => []TypeOK
<1>1. Init => TypeOK
  BY InitTyped
<1>2. TypeOK /\ [Next]_vars => TypeOK'
  BY NextTyped
<1> QED BY <1>1, <1>2, PTL DEF Spec

-----------------------------------------------------------------------------
(* One request for every nonce *)

LEMMA InitNonce == Init => NonceInv /\ NonceOnce
BY DEF Init, NonceInv, NonceOnce

LEMMA RegisterNonce ==
  ASSUME TypeOK, NonceInv, NonceOnce, NEW p \in Registrants, RegisterStep(p)
  PROVE  NonceInv' /\ NonceOnce'
<1>1. /\ nonces \in [Nonces -> Nat \cup {None}] /\ issued \subseteq Nonces
      /\ uses \in [Nonces -> Nat]
      /\ pc \in [Registrants -> {"idle", "validate", "refused", "authenticate", "update",
                                 "contacts"}]
      /\ nonce \in [Registrants -> Nonces \cup {None}]
  BY DEF TypeOK, RegisterType
<1>2. CASE Challenges(p)
  <2>1. PICK n \in Nonces \ issued : nonces' = [nonces EXCEPT ![n] = now + NonceTtl]
                                     /\ issued' = issued \cup {n}
    BY <1>2 DEF Challenges
  <2>2. pc' = [pc EXCEPT ![p] = "idle"] /\ nonce' = [nonce EXCEPT ![p] = None] /\ uses' = uses
    BY <1>2 DEF Challenges, GoTo
  <2>3. \A q \in Registrants : pc'[q] \in {"validate", "authenticate"} =>
          q /= p /\ pc'[q] = pc[q] /\ nonce'[q] = nonce[q] /\ nonce[q] \in issued
          /\ nonces'[nonce'[q]] = nonces[nonce[q]]
    BY <1>1, <2>1, <2>2 DEF NonceInv
  <2>4. \A m \in Nonces : m /= n => nonces'[m] = nonces[m] /\ (m \in issued' <=> m \in issued)
    BY <1>1, <2>1
  <2>5. uses[n] = 0 /\ n \in issued'
    BY <2>1 DEF NonceInv
  <2>6. \A q \in Registrants : pc'[q] \in {"validate", "authenticate"} => nonce'[q] \in issued'
    BY <2>1, <2>3
  <2>7. \A m \in Nonces : m \notin issued' \/ nonces'[m] /= None => uses'[m] = 0
    BY <2>2, <2>4, <2>5 DEF NonceInv
  <2>8. \A m \in Nonces \ issued' : nonces'[m] = None
    BY <2>4, <2>5 DEF NonceInv
  <2>9. /\ \A q \in Registrants : pc'[q] = "authenticate" =>
             nonces'[nonce'[q]] = None /\ uses'[nonce'[q]] = 0
        /\ \A q, r \in Registrants :
             pc'[q] = "authenticate" /\ pc'[r] = "authenticate" /\ nonce'[q] = nonce'[r] => q = r
    BY <2>2, <2>3 DEF NonceInv
  <2> QED BY <2>2, <2>6, <2>7, <2>8, <2>9 DEF NonceInv, NonceOnce
<1>3. ASSUME NEW n \in Nonces, Receives(p, n) PROVE NonceInv' /\ NonceOnce'
  <2>1. /\ n \in issued /\ UNCHANGED <<nonces, issued, uses>>
        /\ nonce' = [nonce EXCEPT ![p] = n] /\ pc' = [pc EXCEPT ![p] = "validate"]
    BY <1>3 DEF Receives, GoTo, nonceVars
  <2> QED BY <1>1, <2>1 DEF NonceInv, NonceOnce
<1>4. CASE Validates(p)
  <2>1. /\ pc[p] = "validate" /\ nonce[p] \in Nonces /\ nonce[p] \in issued
        /\ UNCHANGED <<issued, uses, nonce>>
        /\ nonces' = [nonces EXCEPT ![nonce[p]] = None]
    BY <1>1, <1>4 DEF Validates, NonceInv
  <2>2. \A q \in Registrants \ {p} : pc'[q] = pc[q]
    BY <1>1, <1>4 DEF Validates, GoTo
  <2>3. pc'[p] \in {"authenticate", "refused"}
        /\ (pc'[p] = "authenticate" => nonces[nonce[p]] /= None)
    BY <1>1, <1>4 DEF Validates, GoTo
  <2>4. nonces'[nonce[p]] = None /\ \A n \in Nonces : nonces'[n] \in {nonces[n], None}
    BY <1>1, <2>1
  <2>5. \A q \in Registrants : pc'[q] \in {"validate", "authenticate"} => nonce'[q] \in issued'
    BY <2>1, <2>2 DEF NonceInv
  <2>6. /\ \A n \in Nonces : n \notin issued' \/ nonces'[n] /= None => uses'[n] = 0
        /\ \A n \in Nonces \ issued' : nonces'[n] = None
    BY <2>1, <2>4 DEF NonceInv
  <2>7. \A q \in Registrants : pc'[q] = "authenticate" =>
          nonces'[nonce'[q]] = None /\ uses'[nonce'[q]] = 0
    <3>1. ASSUME NEW q \in Registrants \ {p}, pc'[q] = "authenticate"
          PROVE  nonces'[nonce[q]] = None /\ uses[nonce[q]] = 0
      <4>1. nonces[nonce[q]] = None /\ uses[nonce[q]] = 0 /\ nonce[q] \in Nonces
        BY <1>1, <2>2, <3>1 DEF NonceInv
      <4> QED BY <2>4, <4>1
    <3>2. pc'[p] = "authenticate" => uses[nonce[p]] = 0
      BY <2>1, <2>3 DEF NonceInv
    <3> QED BY <2>1, <2>4, <3>1, <3>2
  <2>8. \A q, r \in Registrants :
          pc'[q] = "authenticate" /\ pc'[r] = "authenticate" /\ nonce'[q] = nonce'[r] => q = r
    <3>1. \A q \in Registrants \ {p} :
            pc'[q] = "authenticate" /\ pc'[p] = "authenticate" => nonce[q] /= nonce[p]
      BY <2>2, <2>3 DEF NonceInv
    <3> QED BY <2>1, <2>2, <3>1 DEF NonceInv
  <2> QED BY <2>1, <2>5, <2>6, <2>7, <2>8 DEF NonceInv, NonceOnce
<1>5. CASE Refuses(p)
  BY <1>1, <1>5 DEF Refuses, GoTo, nonceVars, NonceInv, NonceOnce
<1>6. CASE Authenticates(p)
  <2>1. /\ pc[p] = "authenticate" /\ UNCHANGED <<nonces, issued, nonce>>
        /\ uses' = [uses EXCEPT ![nonce[p]] = @ + 1]
        /\ pc' = [pc EXCEPT ![p] = "update"]
    BY <1>6 DEF Authenticates, GoTo
  <2>2. nonce[p] \in issued /\ nonce[p] \in Nonces /\ nonces[nonce[p]] = None
        /\ uses[nonce[p]] = 0
    BY <1>1, <2>1 DEF NonceInv
  <2>3. uses'[nonce[p]] = 1 /\ \A n \in Nonces : n /= nonce[p] => uses'[n] = uses[n]
    BY <1>1, <2>1, <2>2
  <2>4. \A q \in Registrants : pc'[q] \in {"validate", "authenticate"} =>
          pc'[q] = pc[q] /\ q /= p /\ (pc[q] = "authenticate" => nonce[q] /= nonce[p])
    BY <1>1, <2>1 DEF NonceInv
  <2>5. NonceOnce'
    BY <1>1, <2>3 DEF NonceOnce
  <2>6. \A q \in Registrants : pc'[q] \in {"validate", "authenticate"} => nonce'[q] \in issued'
    BY <2>1, <2>4 DEF NonceInv
  <2>7. /\ \A n \in Nonces : n \notin issued' \/ nonces'[n] /= None => uses'[n] = 0
        /\ \A n \in Nonces \ issued' : nonces'[n] = None
    BY <2>1, <2>2, <2>3 DEF NonceInv
  <2>8. \A q \in Registrants : pc'[q] = "authenticate" =>
          nonces'[nonce'[q]] = None /\ uses'[nonce'[q]] = 0
    <3>1. ASSUME NEW q \in Registrants, pc'[q] = "authenticate"
          PROVE  nonces[nonce[q]] = None /\ uses'[nonce[q]] = 0
      <4>1. pc[q] = "authenticate" /\ nonce[q] /= nonce[p]
        BY <2>4, <3>1
      <4>2. nonce[q] \in Nonces /\ nonces[nonce[q]] = None /\ uses[nonce[q]] = 0
        BY <1>1, <4>1 DEF NonceInv
      <4> QED BY <2>3, <4>1, <4>2
    <3> QED BY <2>1, <3>1
  <2>9. \A q, r \in Registrants :
          pc'[q] = "authenticate" /\ pc'[r] = "authenticate" /\ nonce'[q] = nonce'[r] => q = r
    BY <2>1, <2>4 DEF NonceInv
  <2> QED BY <2>5, <2>6, <2>7, <2>8, <2>9 DEF NonceInv
<1>7. CASE Locks(p)
  BY <1>1, <1>7 DEF Locks, GoTo, nonceVars, NonceInv, NonceOnce
<1>8. CASE Updates(p)
  <2>1. pc[p] = "contacts" /\ UNCHANGED <<nonces, issued, uses>>
    BY <1>8 DEF Updates, nonceVars
  <2>2. \A q \in Registrants : pc'[q] \in {"validate", "authenticate"} =>
          pc'[q] = pc[q] /\ nonce'[q] = nonce[q]
    BY <1>1, <1>8, <2>1 DEF Updates, GoTo
  <2> QED BY <2>1, <2>2 DEF NonceInv, NonceOnce
<1> QED BY <1>2, <1>3, <1>4, <1>5, <1>6, <1>7, <1>8 DEF RegisterStep

LEMMA NextNonce == TypeOK /\ NonceInv /\ NonceOnce /\ [Next]_vars => NonceInv' /\ NonceOnce'
<1> SUFFICES ASSUME TypeOK, NonceInv, NonceOnce, [Next]_vars PROVE NonceInv' /\ NonceOnce'
  OBVIOUS
<1>1. ASSUME UNCHANGED <<nonceVars, registerVars>> PROVE NonceInv' /\ NonceOnce'
  BY <1>1 DEF NonceInv, NonceOnce, nonceVars, registerVars
<1>2. CASE UNCHANGED vars
  BY <1>1, <1>2 DEF vars
<1>3. CASE Tick
  BY <1>1, <1>3 DEF Tick
<1>4. ASSUME NEW l \in Lookups, LookupStep(l) PROVE UNCHANGED <<nonceVars, registerVars>>
  BY <1>4 DEF LookupStep, Filters, Reads
<1> QED BY <1>1, <1>2, <1>3, <1>4, RegisterNonce DEF Next

\* The invariant of the run: the types, and that of all REGISTERs that come with the same
\* nonce (validateNonce), at once or not, one at most is let in.
THEOREM Invariant == Spec => []Inv
<1>1. Init => TypeOK /\ NonceInv /\ NonceOnce
  BY InitTyped, InitNonce
<1>2. TypeOK /\ NonceInv /\ NonceOnce /\ [Next]_vars => (TypeOK /\ NonceInv /\ NonceOnce)'
  BY NextTyped, NextNonce
<1>3. TypeOK /\ NonceInv /\ NonceOnce => Inv
  BY DEF Inv
<1> QED BY <1>1, <1>2, <1>3, PTL DEF Spec

-----------------------------------------------------------------------------
(* Bindings stay *)

LEMMA ShowsLater ==
  ASSUME NEW list \in Seq(Binding), NEW bound \in [Address -> Nat],
         NEW time \in Nat, NEW later \in Nat, time <= later, Shows(list, bound, time)
  PROVE  Shows(list, bound, later)
<1>1. \A i \in DOMAIN list : list[i].expires \in Nat
  <2>1. \A i \in DOMAIN list : list[i] \in Binding
    OBVIOUS
  <2> QED BY <2>1 DEF Binding
<1>2. \A c \in Address : bound[c] \in Nat
  OBVIOUS
<1>3. \A n \in Nat : later < n => time < n
  OBVIOUS
<1> QED BY <1>1, <1>2, <1>3 DEF Shows

LEMMA ShowsRefreshed ==
  ASSUME NEW list \in Seq(Binding), NEW bound, NEW new, NEW time \in Nat,
         NEW c \in Address, NEW e \in Nat, Has(list, c), Shows(list, bound, time),
         new[c] = e, \A d \in Address \ {c} : new[d] = bound[d]
  PROVE  Shows(Refreshed(list, c, e), new, time)
<1> DEFINE r == Refreshed(list, c, e)
<1>1. \A i \in DOMAIN list : list[i] \in Binding /\ list[i].contact \in Address
  <2>1. \A i \in DOMAIN list : list[i] \in Binding
    OBVIOUS
  <2> QED BY <2>1 DEF Binding
<1>2. /\ DOMAIN r = DOMAIN list
      /\ \A i \in DOMAIN list : r[i] = IF list[i].contact = c THEN [contact |-> c, expires |-> e]
                                                              ELSE list[i]
  BY DEF Refreshed
<1> HIDE DEF r
<1>3. ASSUME NEW d \in Address, time < new[d]
      PROVE  \E i \in DOMAIN r : r[i] = [contact |-> d, expires |-> new[d]]
  <2>1. CASE d = c
    BY <1>2, <2>1 DEF Has
  <2>2. CASE d /= c
    <3>1. PICK i \in DOMAIN list : list[i] = [contact |-> d, expires |-> bound[d]]
      BY <1>3, <2>2 DEF Shows
    <3>2. list[i].contact = d
      BY <3>1
    <3> QED BY <1>2, <2>2, <3>1, <3>2
  <2> QED BY <2>1, <2>2
<1>4. ASSUME NEW i \in DOMAIN r, time < r[i].expires
      PROVE  new[r[i].contact] = r[i].expires
  <2>1. CASE list[i].contact = c
    BY <1>2, <2>1
  <2>2. CASE list[i].contact /= c
    BY <1>1, <1>2, <1>4, <2>2 DEF Shows
  <2> QED BY <2>1, <2>2
<1>5. Shows(r, new, time)
  BY <1>3, <1>4 DEF Shows
<1> QED BY <1>5 DEF r

LEMMA ShowsAppended ==
  ASSUME NEW list \in Seq(Binding), NEW bound, NEW new, NEW time \in Nat,
         NEW c \in Address, NEW e \in Nat, ~Has(list, c), Shows(list, bound, time),
         new[c] = e, \A d \in Address \ {c} : new[d] = bound[d]
  PROVE  Shows(Append(list, [contact |-> c, expires |-> e]), new, time)
<1> DEFINE b == [contact |-> c, expires |-> e]
           r == Append(list, b)
<1>1. \A i \in DOMAIN list : list[i] \in Binding /\ list[i].contact \in Address
                             /\ list[i].contact /= c
  <2>1. \A i \in DOMAIN list : list[i] \in Binding
    OBVIOUS
  <2> QED BY <2>1 DEF Binding, Has
<1>2. b \in Binding /\ b.contact = c /\ b.expires = e
  BY DEF Binding
<1>3. b = [contact |-> c, expires |-> e]
  OBVIOUS
<1> HIDE DEF b
<1>4. /\ DOMAIN list = 1 .. Len(list) /\ DOMAIN r = 1 .. Len(list) + 1 /\ Len(list) \in Nat
      /\ r[Len(list) + 1] = b
      /\ \A i \in DOMAIN list : r[i] = list[i]
  BY <1>2
<1>5. /\ Len(list) + 1 \in DOMAIN r
      /\ \A i \in DOMAIN list : i \in DOMAIN r
      /\ \A i \in DOMAIN r : i \in DOMAIN list \/ i = Len(list) + 1
  BY <1>4
<1> HIDE DEF r
<1>6. ASSUME NEW d \in Address, time < new[d]
      PROVE  \E i \in DOMAIN r : r[i] = [contact |-> d, expires |-> new[d]]
  <2>1. CASE d = c
    BY <1>3, <1>4, <1>5, <2>1
  <2>2. CASE d /= c
    <3>1. PICK i \in DOMAIN list : list[i] = [contact |-> d, expires |-> bound[d]]
      BY <1>6, <2>2 DEF Shows
    <3> QED BY <1>4, <1>5, <2>2, <3>1
  <2> QED BY <2>1, <2>2
<1>7. ASSUME NEW i \in DOMAIN r, time < r[i].expires
      PROVE  new[r[i].contact] = r[i].expires
  <2>1. CASE i \in DOMAIN list
    BY <1>1, <1>4, <1>7, <2>1 DEF Shows
  <2>2. CASE i = Len(list) + 1
    BY <1>2, <1>4, <2>2
  <2> QED BY <1>5, <2>1, <2>2
<1>8. Shows(r, new, time)
  BY <1>6, <1>7 DEF Shows
<1> QED BY <1>8 DEF r, b

LEMMA ShowsWithout ==
  ASSUME NEW list \in Seq(Binding), NEW bound, NEW new, NEW time \in Nat,
         NEW c \in Address, Shows(list, bound, time),
         new[c] = 0, \A d \in Address \ {c} : new[d] = bound[d]
  PROVE  Shows(Without(list, c), new, time)
<1> DEFINE r == Without(list, c)
<1>1. \A i \in DOMAIN list : list[i] \in Binding /\ list[i].contact \in Address
  <2>1. \A i \in DOMAIN list : list[i] \in Binding
    OBVIOUS
  <2> QED BY <2>1 DEF Binding
<1>2. /\ \A i \in DOMAIN r : r[i].contact /= c /\ \E j \in DOMAIN list : list[j] = r[i]
      /\ \A j \in DOMAIN list : list[j].contact /= c => \E i \in DOMAIN r : r[i] = list[j]
  BY WithoutList
<1> HIDE DEF r
<1>3. ASSUME NEW d \in Address, time < new[d]
      PROVE  \E i \in DOMAIN r : r[i] = [contact |-> d, expires |-> new[d]]
  <2>1. d /= c /\ new[d] = bound[d]
    BY <1>3
  <2>2. PICK i \in DOMAIN list : list[i] = [contact |-> d, expires |-> bound[d]]
    BY <1>3, <2>1 DEF Shows
  <2> QED BY <1>2, <2>1, <2>2
<1>4. ASSUME NEW i \in DOMAIN r, time < r[i].expires
      PROVE  new[r[i].contact] = r[i].expires
  <2>1. PICK j \in DOMAIN list : list[j] = r[i]
    BY <1>2
  <2> QED BY <1>1, <1>2, <1>4, <2>1 DEF Shows
<1>5. Shows(r, new, time)
  BY <1>3, <1>4 DEF Shows
<1> QED BY <1>5 DEF r

LEMMA ShowsActive ==
  ASSUME NEW list \in Seq(Binding), NEW bound, Shows(list, bound, now)
  PROVE  Shows(Active(list), bound, now)
<1> DEFINE r == Active(list)
<1>1. /\ \A i \in DOMAIN r : now < r[i].expires /\ \E j \in DOMAIN list : list[j] = r[i]
      /\ \A j \in DOMAIN list : now < list[j].expires => \E i \in DOMAIN r : r[i] = list[j]
  BY ActiveList
<1> HIDE DEF r
<1>2. ASSUME NEW d \in Address, now < bound[d]
      PROVE  \E i \in DOMAIN r : r[i] = [contact |-> d, expires |-> bound[d]]
  <2>1. PICK j \in DOMAIN list : list[j] = [contact |-> d, expires |-> bound[d]]
    BY <1>2 DEF Shows
  <2> QED BY <1>1, <1>2, <2>1
<1>3. ASSUME NEW i \in DOMAIN r PROVE bound[r[i].contact] = r[i].expires
  BY <1>1, <1>3 DEF Shows
<1>4. Shows(r, bound, now)
  BY <1>2, <1>3 DEF Shows
<1> QED BY <1>4 DEF r

LEMMA InitShown == Init => ShownInv
<1> SUFFICES ASSUME Init, NEW u \in Users
             PROVE  Shows(registrations[u], granted[u], now) /\ InFlight(u) = {}
  BY DEF ShownInv
<1>1. registrations[u] = <<>> /\ now = 0 /\ \A c \in Address : granted[u][c] = 0
  BY DEF Init
<1>2. InFlight(u) = {}
  BY DEF Init, InFlight
<1>3. Shows(registrations[u], granted[u], now)
  BY <1>1 DEF Shows
<1> QED BY <1>2, <1>3

\* A REGISTER: the map and what was granted change alike, and so does a slice that is the
\* array of the map; a look-up that has another one is overtaken.
LEMMA TouchShown ==
  ASSUME TypeOK, ShownInv, NEW u \in Users, NEW c \in Address, NEW e \in Nat,
         Touches(u, c, e), UNCHANGED <<now, lpc, user, target>>
  PROVE  ShownInv'
<1>1. /\ registrations \in [Users -> Seq(Binding)]
      /\ now \in Nat /\ overtaken \subseteq Users
      /\ granted \in [Users -> [Address -> Nat]]
      /\ seen \in [Lookups -> Seq(Binding)]
      /\ aliased \in [Lookups -> BOOLEAN]
  BY RegistrarAssumption DEF TypeOK, BindingsType, LookupType
<1>2. /\ \A v \in Users \ {u} : granted'[v] = granted[v]
      /\ \A d \in Address : granted'[u][d] = IF c = Star /\ e = 0 THEN 0
                                             ELSE IF d = c THEN e ELSE granted[u][d]
  BY GrantsTyped DEF Touches, TypeOK
<1>3. \A v \in Users : InFlight(v)' = InFlight(v)
  BY DEF InFlight
<1>4. \A v \in Users : \A l \in InFlight(v) : l \in Lookups /\ user[l] = v
  BY DEF InFlight
<1>5. \A v \in Users \ overtaken :
        /\ Shows(registrations[v], granted[v], now)
        /\ \A l \in InFlight(v) : /\ Shows(seen[l], granted[v], now)
                                  /\ aliased[l] => seen[l] = registrations[v]
  BY DEF ShownInv
<1>6. \/ e > now /\ Refreshes(u, c, e) /\ Has(registrations[u], c)
      \/ e > now /\ AddsContact(u, c, e) /\ ~Has(registrations[u], c)
      \/ e = 0 /\ RemovesContact(u, c)
  BY DEF Touches, Refreshes, AddsContact
<1>7. /\ overtaken \subseteq overtaken'
      /\ \A v \in Users \ {u} : registrations'[v] = registrations[v]
      /\ \A l \in Lookups : user[l] /= u => seen'[l] = seen[l]
      /\ \A l \in Lookups : aliased'[l] => aliased[l]
  <2>1. CASE Refreshes(u, c, e)
    BY <1>1, <2>1 DEF Refreshes
  <2>2. CASE AddsContact(u, c, e)
    BY <1>1, <2>2 DEF AddsContact, Replaces
  <2>3. CASE RemovesContact(u, c)
    BY <1>1, <2>3 DEF RemovesContact, Replaces
  <2> QED BY <1>6, <2>1, <2>2, <2>3
<1>8. ASSUME NEW v \in Users \ overtaken', v /= u
      PROVE  /\ Shows(registrations'[v], granted'[v], now')
             /\ \A l \in InFlight(v)' : /\ Shows(seen'[l], granted'[v], now')
                                        /\ aliased'[l] => seen'[l] = registrations'[v]
  BY <1>2, <1>3, <1>4, <1>5, <1>7, <1>8
<1>9. ASSUME u \notin overtaken'
      PROVE  /\ Shows(registrations'[u], granted'[u], now')
             /\ \A l \in InFlight(u)' : /\ Shows(seen'[l], granted'[u], now')
                                        /\ aliased'[l] => seen'[l] = registrations'[u]
  <2>1. u \notin overtaken /\ Shows(registrations[u], granted[u], now)
        /\ registrations[u] \in Seq(Binding)
    BY <1>1, <1>5, <1>7, <1>9
  <2>2. CASE e > now /\ Refreshes(u, c, e) /\ Has(registrations[u], c)
    <3>1. granted'[u][c] = e /\ \A d \in Address \ {c} : granted'[u][d] = granted[u][d]
      BY <1>1, <1>2, <2>2
    <3>2. \A l \in InFlight(u) : aliased[l] /\ seen[l] = registrations[u]
      BY <1>5, <1>9, <2>1, <2>2 DEF Refreshes
    <3>3. registrations'[u] = Refreshed(registrations[u], c, e)
      BY <1>1, <2>2 DEF Refreshes
    <3>4. \A l \in InFlight(u) : seen'[l] = Refreshed(registrations[u], c, e)
      BY <1>4, <2>2, <3>2 DEF Refreshes
    <3>5. Shows(Refreshed(registrations[u], c, e), granted'[u], now)
      BY <1>1, <2>1, <2>2, <3>1, ShowsRefreshed
    <3> QED BY <1>3, <3>3, <3>4, <3>5
  <2>3. CASE e > now /\ AddsContact(u, c, e) /\ ~Has(registrations[u], c)
    <3>1. granted'[u][c] = e /\ \A d \in Address \ {c} : granted'[u][d] = granted[u][d]
      BY <1>1, <1>2, <2>3
    <3>2. InFlight(u) = {}
      BY <1>9, <2>1, <2>3 DEF AddsContact
    <3>3. registrations'[u] = Append(registrations[u], [contact |-> c, expires |-> e])
      BY <1>1, <2>3 DEF AddsContact, Replaces
    <3>4. Shows(Append(registrations[u], [contact |-> c, expires |-> e]), granted'[u], now)
      BY <1>1, <2>1, <2>3, <3>1, ShowsAppended
    <3> QED BY <1>3, <3>2, <3>3, <3>4
  <2>4. CASE e = 0 /\ RemovesContact(u, c)
    <3>1. InFlight(u) = {}
      BY <1>9, <2>1, <2>4 DEF RemovesContact
    <3>2. CASE c = Star
      <4>1. registrations'[u] = <<>> /\ \A d \in Address : granted'[u][d] = 0
        BY <1>1, <1>2, <2>4, <3>2 DEF RemovesContact, Replaces
      <4>2. Shows(<<>>, granted'[u], now)
        BY <1>1, <4>1 DEF Shows
      <4> QED BY <1>3, <3>1, <4>1, <4>2
    <3>3. CASE c /= Star
      <4>1. granted'[u][c] = 0 /\ \A d \in Address \ {c} : granted'[u][d] = granted[u][d]
        BY <1>2, <2>4, <3>3
      <4>2. registrations'[u] = Without(registrations[u], c)
        BY <1>1, <2>4, <3>3 DEF RemovesContact, Replaces
      <4>3. Shows(Without(registrations[u], c), granted'[u], now)
        BY <1>1, <2>1, <4>1, ShowsWithout
      <4> QED BY <1>3, <3>1, <4>2, <4>3
    <3> QED BY <3>2, <3>3
  <2> QED BY <1>6, <2>2, <2>3, <2>4
<1> QED BY <1>8, <1>9 DEF ShownInv

\* A look-up copies what the map shows, or writes back what its own slice shows.
LEMMA LookupShown ==
  ASSUME TypeOK, ShownInv, NEW l \in Lookups, LookupStep(l)
  PROVE  ShownInv'
<1>1. /\ registrations \in [Users -> Seq(Binding)]
      /\ lpc \in [Lookups -> {"idle", "filter", "done"}]
      /\ user \in [Lookups -> Users \cup {None}]
      /\ seen \in [Lookups -> Seq(Binding)]
      /\ aliased \in [Lookups -> BOOLEAN]
      /\ \A k \in Lookups : lpc[k] = "filter" => user[k] \in Users
  BY DEF TypeOK, BindingsType, LookupType
<1>2. UNCHANGED <<granted, overtaken, now>>
  BY DEF LookupStep, Filters, Reads
<1>3. \A v \in Users \ overtaken :
        /\ Shows(registrations[v], granted[v], now)
        /\ \A k \in InFlight(v) : /\ Shows(seen[k], granted[v], now)
                                  /\ aliased[k] => seen[k] = registrations[v]
  BY DEF ShownInv
<1>4. ASSUME NEW u \in Users, Reads(l, u) PROVE ShownInv'
  <2>1. /\ registrations' = registrations
        /\ user'[l] = u /\ seen'[l] = registrations[u]
        /\ \A k \in Lookups \ {l} : lpc'[k] = lpc[k] /\ user'[k] = user[k] /\ seen'[k] = seen[k]
                                    /\ aliased'[k] = aliased[k]
    BY <1>1, <1>4 DEF Reads
  <2>2. \A v \in Users : \A k \in InFlight(v)' :
          \/ k \in InFlight(v) /\ seen'[k] = seen[k] /\ aliased'[k] = aliased[k]
          \/ k = l /\ v = u
    BY <2>1 DEF InFlight
  <2>3. ASSUME NEW v \in Users \ overtaken', NEW k \in InFlight(v)'
        PROVE  /\ Shows(seen'[k], granted'[v], now')
               /\ aliased'[k] => seen'[k] = registrations'[v]
    BY <1>2, <1>3, <2>1, <2>2
  <2>4. \A v \in Users \ overtaken' : Shows(registrations'[v], granted'[v], now')
    BY <1>2, <1>3, <2>1
  <2> QED BY <2>3, <2>4 DEF ShownInv
<1>5. CASE Filters(l)
  <2> DEFINE u == user[l]
  <2>1. u \in Users /\ l \in InFlight(u) /\ seen[l] \in Seq(Binding)
    BY <1>1, <1>5 DEF Filters, InFlight
  <2>2. /\ registrations'[u] = Active(seen[l])
        /\ \A v \in Users \ {u} : registrations'[v] = registrations[v]
        /\ \A k \in Lookups : aliased'[k] => aliased[k] /\ user[k] /= u
        /\ \A k \in Lookups \ {l} : seen'[k] = seen[k]
        /\ lpc' = [lpc EXCEPT ![l] = "done"] /\ user' = user
    BY <1>1, <1>5, <2>1 DEF Filters, Replaces
  <2>3. \A v \in Users : \A k \in InFlight(v)' :
          /\ k \in InFlight(v) /\ k /= l /\ k \in Lookups /\ user[k] = v
          /\ seen'[k] = seen[k] /\ (aliased'[k] => aliased[k] /\ v /= u)
    BY <1>1, <2>2 DEF InFlight
  <2>4. ASSUME NEW v \in Users \ overtaken', NEW k \in InFlight(v)'
        PROVE  /\ Shows(seen'[k], granted'[v], now')
               /\ aliased'[k] => seen'[k] = registrations'[v]
    BY <1>2, <1>3, <2>2, <2>3
  <2>5. u \notin overtaken => Shows(Active(seen[l]), granted[u], now)
    BY <1>3, <2>1, ShowsActive
  <2>6. \A v \in Users \ overtaken' : Shows(registrations'[v], granted'[v], now')
    BY <1>2, <1>3, <2>1, <2>2, <2>5
  <2> QED BY <2>4, <2>6 DEF ShownInv
<1> QED BY <1>4, <1>5 DEF LookupStep

LEMMA NextShown == TypeOK /\ ShownInv /\ [Next]_vars => ShownInv'
<1> SUFFICES ASSUME TypeOK, ShownInv, [Next]_vars PROVE ShownInv'
  OBVIOUS
<1>1. ASSUME UNCHANGED <<registrations, granted, overtaken, lookupVars>>,
             now' \in Nat, now <= now'
      PROVE  ShownInv'
  <2>1. \A v \in Users : InFlight(v)' = InFlight(v)
    BY <1>1 DEF InFlight, lookupVars
  <2>2. /\ registrations \in [Users -> Seq(Binding)] /\ now \in Nat
        /\ granted \in [Users -> [Address -> Nat]] /\ seen \in [Lookups -> Seq(Binding)]
    BY RegistrarAssumption DEF TypeOK, BindingsType, LookupType
  <2>3. ASSUME NEW v \in Users \ overtaken
        PROVE  Shows(registrations[v], granted[v], now')
    BY <1>1, <2>2, ShowsLater DEF ShownInv
  <2>4. ASSUME NEW v \in Users \ overtaken, NEW l \in InFlight(v)
        PROVE  Shows(seen[l], granted[v], now')
    <3>1. seen[l] \in Seq(Binding) /\ granted[v] \in [Address -> Nat]
      BY <2>2 DEF InFlight
    <3> QED BY <1>1, <2>2, <3>1, ShowsLater DEF ShownInv
  <2> QED BY <1>1, <2>1, <2>3, <2>4 DEF ShownInv, lookupVars
<1>2. now \in Nat
  BY RegistrarAssumption DEF TypeOK, BindingsType
<1>3. CASE UNCHANGED vars
  BY <1>1, <1>2, <1>3 DEF vars
<1>4. CASE Tick
  BY <1>1, <1>2, <1>4 DEF Tick
<1>5. ASSUME NEW p \in Registrants, RegisterStep(p), ~Updates(p) PROVE ShownInv'
  BY <1>1, <1>2, <1>5, StepLeaves
<1>6. ASSUME NEW p \in Registrants, Updates(p) PROVE ShownInv'
  BY <1>6, UpdatesTouches, TouchShown
<1> QED BY <1>3, <1>4, <1>5, <1>6, LookupShown DEF Next

LEMMA ShownConfirms == TypeOK /\ ShownInv => ConfirmedStays
<1> SUFFICES ASSUME TypeOK, ShownInv, NEW u \in Users \ overtaken,
                    NEW list, list = Active(registrations[u])
             PROVE  {<<list[i].contact, list[i].expires>> : i \in DOMAIN list}
                      = {<<c, granted[u][c]>> : c \in {d \in Address : now < granted[u][d]}}
  BY DEF ConfirmedStays
<1>1. registrations[u] \in Seq(Binding) /\ Shows(registrations[u], granted[u], now)
  BY DEF TypeOK, BindingsType, ShownInv
<1>2. /\ \A i \in DOMAIN list : /\ now < list[i].expires
                                /\ \E j \in DOMAIN registrations[u] : registrations[u][j] = list[i]
      /\ \A j \in DOMAIN registrations[u] : now < registrations[u][j].expires =>
           \E i \in DOMAIN list : list[i] = registrations[u][j]
  BY <1>1, ActiveList
<1>3. \A j \in DOMAIN registrations[u] : registrations[u][j].contact \in Address
  <2>1. \A j \in DOMAIN registrations[u] : registrations[u][j] \in Binding
    BY <1>1
  <2> QED BY <2>1 DEF Binding
<1>4. \A i \in DOMAIN list : /\ list[i].contact \in Address
                             /\ now < granted[u][list[i].contact]
                             /\ granted[u][list[i].contact] = list[i].expires
  BY <1>1, <1>2, <1>3 DEF Shows
<1>5. ASSUME NEW c \in Address, now < granted[u][c]
      PROVE  \E i \in DOMAIN list : list[i].contact = c /\ list[i].expires = granted[u][c]
  <2>1. PICK j \in DOMAIN registrations[u] :
               registrations[u][j] = [contact |-> c, expires |-> granted[u][c]]
    BY <1>1, <1>5 DEF Shows
  <2>2. registrations[u][j].contact = c /\ registrations[u][j].expires = granted[u][c]
    BY <2>1
  <2> QED BY <1>2, <1>5, <2>2
<1> QED BY <1>4, <1>5

\* As long as no REGISTER has come between the two critical sections of a look-up for a
\* user (handleInvite), the active bindings of the user are exactly those that REGISTERs
\* have asked for: look-ups that write the list back, however many, lose none and bring
\* none back.
THEOREM BindingsStay == Spec => []ConfirmedStays
<1>1. Init => TypeOK /\ ShownInv
  BY InitTyped, InitShown
<1>2. TypeOK /\ ShownInv /\ [Next]_vars => (TypeOK /\ ShownInv)'
  BY NextTyped, NextShown
<1>3. TypeOK /\ ShownInv => ConfirmedStays
  BY ShownConfirms
<1> QED BY <1>1, <1>2, <1>3, PTL DEF Spec

-----------------------------------------------------------------------------
(* Look-ups answer what was so while they looked *)

LEMMA InitWitness == Init => WitnessInv
BY DEF Init, WitnessInv

\* What is active in a list that the map has may be answered.
LEMMA ActiveIsAnswer ==
  ASSUME NEW u, NEW i \in DOMAIN registrations[u], now < registrations[u][i].expires
  PROVE  registrations[u][i].contact \in Answers(u)
<1> DEFINE active == {b \in {registrations[u][j] : j \in DOMAIN registrations[u]} :
                        now < b.expires}
<1>1. registrations[u][i] \in active
  OBVIOUS
<1>2. Answers(u) = {b.contact : b \in active}
  BY <1>1 DEF Answers
<1> QED BY <1>1, <1>2

LEMMA NextWitness == TypeOK /\ TypeOK' /\ WitnessInv /\ [Next]_vars => WitnessInv'
<1> SUFFICES ASSUME TypeOK, TypeOK', WitnessInv, [Next]_vars PROVE WitnessInv'
  OBVIOUS
<1>1. CASE UNCHANGED vars
  BY <1>1 DEF vars, lookupVars, WitnessInv, Answers
<1> SUFFICES ASSUME Next, NEW l \in Lookups, lpc'[l] = "filter"
             PROVE  /\ Answers(user[l])' \subseteq witness'[l]
                    /\ \A i \in DOMAIN seen'[l] :
                         now' < seen'[l][i].expires => seen'[l][i].contact \in witness'[l]
  BY <1>1 DEF WitnessInv
<1>2. witness'[l] = witness[l] \cup Answers(user[l])'
  BY DEF Next, Observe
<1>3. /\ registrations \in [Users -> Seq(Binding)]
      /\ now \in Nat /\ now' \in Nat
      /\ lpc \in [Lookups -> {"idle", "filter", "done"}]
      /\ user \in [Lookups -> Users \cup {None}]
      /\ seen \in [Lookups -> Seq(Binding)] /\ seen' \in [Lookups -> Seq(Binding)]
      /\ lpc[l] = "filter" => user[l] \in Users
  BY RegistrarAssumption DEF TypeOK, BindingsType, LookupType
<1>4. \A i \in DOMAIN seen[l] : seen[l][i].expires \in Nat
  <2>1. \A i \in DOMAIN seen[l] : seen[l][i] \in Binding
    BY <1>3
  <2> QED BY <2>1 DEF Binding
<1>5. ASSUME lpc[l] = "filter", seen'[l] = seen[l], now <= now',
             NEW i \in DOMAIN seen'[l], now' < seen'[l][i].expires
      PROVE  seen'[l][i].contact \in witness'[l]
  <2>1. now < seen[l][i].expires
    BY <1>3, <1>4, <1>5
  <2> QED BY <1>2, <1>5, <2>1 DEF WitnessInv
<1>6. \A u \in Users, i \in Nat :
        i \in DOMAIN registrations'[u] /\ now' < registrations'[u][i].expires =>
          registrations'[u][i].contact \in Answers(u)'
  BY DEF Answers
<1>7. CASE Tick
  BY <1>2, <1>3, <1>5, <1>7 DEF Tick, lookupVars
<1>8. ASSUME NEW p \in Registrants, RegisterStep(p), ~Updates(p)
      PROVE  \A i \in DOMAIN seen'[l] :
               now' < seen'[l][i].expires => seen'[l][i].contact \in witness'[l]
  BY <1>2, <1>3, <1>5, <1>8, StepLeaves DEF lookupVars

<1>9. ASSUME NEW p \in Registrants, Updates(p),
             NEW i \in DOMAIN seen'[l], now' < seen'[l][i].expires
      PROVE  seen'[l][i].contact \in witness'[l]
  <2>1. UNCHANGED <<now, lpc, user>> /\ lpc[l] = "filter"
    BY <1>9, UpdatesTouches
  <2>2. PICK u \in Users, c \in Address, e \in Nat : Touches(u, c, e)
    BY <1>9, UpdatesTouches
  <2>3. CASE seen'[l] = seen[l]
    BY <1>3, <1>5, <1>9, <2>1, <2>3
  <2>4. CASE seen'[l] /= seen[l]
    <3>1. /\ e > now /\ Has(registrations[u], c) /\ user[l] = u
          /\ registrations'[u] = Refreshed(registrations[u], c, e)
          /\ seen'[l] = Refreshed(seen[l], c, e)
      BY <1>3, <2>2, <2>4 DEF Touches, Refreshes, AddsContact, RemovesContact
    <3>2. i \in DOMAIN seen[l]
          /\ seen'[l][i] = IF seen[l][i].contact = c THEN [contact |-> c, expires |-> e]
                                                     ELSE seen[l][i]
      BY <1>9, <3>1 DEF Refreshed
    <3>3. CASE seen[l][i].contact = c
      <4>1. PICK j \in DOMAIN registrations[u] : registrations[u][j].contact = c
        BY <3>1 DEF Has
      <4>2. registrations[u] \in Seq(Binding)
        BY <1>3
      <4>3. j \in Nat /\ j \in DOMAIN registrations'[u]
            /\ registrations'[u][j] = [contact |-> c, expires |-> e]
        BY <3>1, <4>1, <4>2 DEF Refreshed
      <4>4. c \in Answers(user[l])'
        BY <1>6, <2>1, <3>1, <4>3
      <4> QED BY <1>2, <3>2, <3>3, <4>4
    <3>4. CASE seen[l][i].contact /= c
      BY <1>2, <1>9, <2>1, <3>2, <3>4 DEF WitnessInv
    <3> QED BY <3>3, <3>4
  <2> QED BY <2>3, <2>4
<1>10. ASSUME NEW k \in Lookups, LookupStep(k),
              NEW i \in DOMAIN seen'[l], now' < seen'[l][i].expires
       PROVE  seen'[l][i].contact \in witness'[l]
  <2>1. CASE k /= l
    <3>1. lpc[l] = "filter" /\ seen'[l] = seen[l] /\ now' = now
      BY <1>3, <1>10, <2>1 DEF LookupStep, Filters, Reads
    <3> QED BY <1>3, <1>5, <1>10, <3>1
  <2>2. CASE k = l
    <3>1. PICK u \in Users : Reads(l, u)
      BY <1>3, <1>10, <2>2 DEF LookupStep, Filters
    <3>2. user'[l] = u /\ seen'[l] = registrations'[u] /\ registrations[u] \in Seq(Binding)
          /\ registrations' = registrations
      BY <1>3, <3>1 DEF Reads
    <3>3. i \in Nat
      BY <1>10, <3>2
    <3> QED BY <1>2, <1>6, <1>10, <3>2, <3>3
  <2> QED BY <2>1, <2>2
<1> QED BY <1>2, <1>7, <1>8, <1>9, <1>10 DEF Next

\* The answer that a look-up gives when it is done.
LEMMA FilterAnswers ==
  ASSUME TypeOK, ShownInv, WitnessInv, NEW l \in Lookups, Filters(l)
  PROVE  \/ target'[l] \in witness[l]
         \/ target'[l] = None /\ user[l] \in overtaken
<1> DEFINE u == user[l]
           active == Active(seen[l])
<1>1. /\ lpc[l] = "filter" /\ u \in Users /\ l \in InFlight(u)
      /\ seen[l] \in Seq(Binding) /\ registrations[u] \in Seq(Binding)
      /\ granted[u] \in [Address -> Nat]
      /\ target \in [Lookups -> Address \cup {None}]
  BY DEF TypeOK, BindingsType, LookupType, Filters, InFlight
<1>2. target'[l] = IF active = <<>> THEN None ELSE active[1].contact
  BY <1>1 DEF Filters
<1>3. /\ active \in Seq(Binding)
      /\ \A i \in DOMAIN active : /\ now < active[i].expires
                                  /\ \E j \in DOMAIN seen[l] : seen[l][j] = active[i]
      /\ \A j \in DOMAIN seen[l] : now < seen[l][j].expires =>
           \E i \in DOMAIN active : active[i] = seen[l][j]
  BY <1>1, ActiveList
<1> HIDE DEF active
<1>4. CASE active /= <<>>
  <2>1. 1 \in DOMAIN active
    BY <1>3, <1>4
  <2> QED BY <1>1, <1>2, <1>3, <1>4, <2>1 DEF WitnessInv
<1>5. CASE active = <<>> /\ u \notin overtaken
  <2>1. Shows(seen[l], granted[u], now) /\ Shows(registrations[u], granted[u], now)
    BY <1>1, <1>5 DEF ShownInv
  <2>2. \A j \in DOMAIN seen[l] : ~ (now < seen[l][j].expires)
    BY <1>3, <1>5
  <2>3. \A c \in Address : ~ (now < granted[u][c])
    <3>1. ASSUME NEW c \in Address, now < granted[u][c] PROVE FALSE
      <4>1. PICK j \in DOMAIN seen[l] :
                   seen[l][j] = [contact |-> c, expires |-> granted[u][c]]
        BY <2>1, <3>1 DEF Shows
      <4>2. seen[l][j].expires = granted[u][c]
        BY <4>1
      <4> QED BY <2>2, <3>1, <4>2
    <3> QED BY <3>1
  <2>4. \A j \in DOMAIN registrations[u] : ~ (now < registrations[u][j].expires)
    <3>1. \A j \in DOMAIN registrations[u] : registrations[u][j].contact \in Address
      <4>1. \A j \in DOMAIN registrations[u] : registrations[u][j] \in Binding
        BY <1>1
      <4> QED BY <4>1 DEF Binding
    <3> QED BY <2>1, <2>3, <3>1 DEF Shows
  <2>5. None \in Answers(u)
    <3> DEFINE bound == {b \in {registrations[u][j] : j \in DOMAIN registrations[u]} :
                           now < b.expires}
    <3>1. bound = {}
      BY <2>4
    <3> QED BY <3>1 DEF Answers
  <2>6. None \in witness[l]
    BY <1>1, <2>5 DEF WitnessInv
  <2> QED BY <1>2, <1>5, <2>6
<1> QED BY <1>2, <1>4, <1>5

\* An INVITE is sent to a contact that was bound at some time while it was looked for,
\* also when REGISTERs come between the two critical sections of handleInvite; and when
\* none did, it is answered 480 only if at some time nobody could be called.
THEOREM LookupsSound == Spec => LookupSound
<1> DEFINE I == TypeOK /\ ShownInv /\ WitnessInv
<1>1. Init => I
  BY InitTyped, InitShown, InitWitness
<1>2. I /\ [Next]_vars => I'
  BY NextTyped, NextShown, NextWitness
<1>3. I /\ [Next]_vars =>
        [\A l \in Lookups : lpc[l] = "filter" /\ lpc'[l] = "done" =>
           \/ target'[l] \in witness[l]
           \/ target'[l] = None /\ user[l] \in overtaken]_vars
  <2> SUFFICES ASSUME I, Next, NEW l \in Lookups, lpc[l] = "filter", lpc'[l] = "done"
               PROVE  \/ target'[l] \in witness[l]
                      \/ target'[l] = None /\ user[l] \in overtaken
    OBVIOUS
  <2>1. lpc \in [Lookups -> {"idle", "filter", "done"}]
    BY DEF TypeOK, LookupType
  <2>2. ~Tick /\ \A p \in Registrants : ~RegisterStep(p)
    <3>1. Tick => lpc' = lpc
      BY DEF Tick, lookupVars
    <3>2. \A p \in Registrants : RegisterStep(p) => lpc' = lpc
      BY StepLeaves, UpdatesTouches DEF lookupVars
    <3> QED BY <3>1, <3>2
  <2>3. PICK k \in Lookups : LookupStep(k)
    BY <2>2 DEF Next
  <2>4. Filters(l)
    BY <2>1, <2>3 DEF LookupStep, Filters, Reads
  <2> QED BY <2>4, FilterAnswers
<1> QED BY <1>1, <1>2, <1>3, PTL DEF Spec, LookupSound
=============================================================================
