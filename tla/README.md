# Specifications of xylitol3

TLA+ models of the SIP server in `src/`, TLC runs that check them, and TLAPS proofs. Paths are
relative to `src/internal/sip/` unless they start with `src/`. `PROJECT.json` maps every definition
that models code to its lines, and lists the runs, one mutant per property, the hazards, the
findings and the theorems.

1. [The system](#1-the-system)
2. [What is modelled](#2-what-is-modelled)
3. [Modules and code](#3-modules-and-code)
4. [Runs](#4-runs)
5. [Bounds](#5-bounds)
6. [Fairness](#6-fairness)
7. [Proofs](#7-proofs)
8. [Where the code differs from what it says](#8-where-the-code-differs-from-what-it-says)
9. [Not modelled](#9-not-modelled)
10. [Plan](#10-plan)

## 1. The system

xylitol3 is a SIP registrar and back-to-back user agent (B2BUA) over UDP and TCP, with a web
interface for users, sessions and announcement ("guidance") settings. It is one process; everything
but the user database and the settings is in memory and gone after a crash.

| Component | State | Operations | Must be right |
|---|---|---|---|
| INVITE server transaction (`transaction_invite_server.go`) | `state`, `lastResponse`, timers G, H, I, channels `responses` and `done`, `mu` | `Respond`, `Receive` (ACK, retransmitted INVITE), `Terminate`, `run`, three timer callbacks | `done` is closed exactly once; a final response is repeated until its ACK; it always ends |
| INVITE client transaction (`transaction_invite_client.go`) | the same with timers A, B, D; `responses` loses what does not fit | `ReceiveResponse`, `Terminate`, `run`, `sendAck`, three timer callbacks | its user learns the outcome of the call; rejections are acknowledged; it always ends |
| Non-INVITE transactions (`transaction_noninvite_*.go`) | the same with timer J; timers E, F, K | the same | one final answer; the sender of a BYE gets an answer |
| Transaction manager and dispatch (`transaction.go`, `server.go`) | `transactions` by branch; one goroutine per entry that waits for `Done()` | `Get`, `Add`, `Remove`, `handleRequest`, `handleResponse`, `handleTransaction` | one transaction per branch, removed when it is over |
| B2BUA (`b2bua.go`) | `virtualUACTx`, dialog IDs, `done`; entries in `server.dialogs` and `server.b2buaByTx` | `Run`, `mediate`, `establishDialogs`, `Cancel`, `HandleInDialogRequest`, `Disconnect`, `cleanup` | the caller gets one final response; no phone rings for a call that is over; either side can hang up |
| Registrar (`server.go`, `digest.go`) | `registrations`, `nonces` | `handleRegister`, `updateRegistration`, the lookup in `handleInvite` | a binding that was confirmed is there until it expires; a nonce is good once |
| Session timer and session list (`server.go`) | `sessions`, one timer per entry | `createOrUpdateSession`, `expireSession`, `GetActiveSessions`, `DisconnectSession` | the list shows calls that are up |
| Guidance application (`app_guidance.go`) | `done`, the WebRTC connection | `Run`, `streamWavFile`, `sendBye` | the call ends with the announcement |
| Guidance settings (`src/internal/web/server.go`, `src/internal/storage/storage.go`, `src/cmd/server/main.go`) | a table and a map in memory | load with defaults, replace, look up | both copies agree |
| Messages (`parser.go`, `response.go`) | none | parsing, building | dialog IDs, Via and Session-Expires are understood alike everywhere |
| Transports (`transport.go`), storage, web interface, `main.go` | sockets, an SQL database | I/O | - |

How they interact. The reader of a socket starts a goroutine per message (`dispatchMessage`).
A request goes to the B2BUA that `server.dialogs` has for it, or to the transaction of its branch
(`Receive`), or gets a new transaction whose user is `handleTransaction`. For an INVITE the user is
a new B2BUA: its `Run` creates a client transaction for the callee and `mediate` copies responses
from one leg to the other, until a final one. A CANCEL, a BYE and the web interface's "disconnect"
come in goroutines of their own and act on the same B2BUA and both legs. A response goes to the
client transaction of its branch (`ReceiveResponse`). Shared state is guarded by one mutex per
object (`tx.mu`, `b.mu`), transactions talk to their users through channels of capacity one, and
timers are `time.AfterFunc` callbacks, which run in goroutines that `Stop` can come too late for.

What is hard, and which the hazards in `PROJECT.json` list line by line:

- *Terminate outside the lock.* The code unlocks and then calls `Terminate`, which locks, unlocks
  and only then closes `done`; run, two or three timers, a dispatcher and two users may all do this.
- *Two users of one transaction.* `mediate` and `Cancel` both respond to the caller's INVITE, so that
  timers are started twice and fields overwritten.
- *Channels of capacity one.* `Respond` blocks on one, `ReceiveResponse` drops what does not fit,
  timer callbacks block on one while nobody reads it any more.
- *Writes that fail under the lock*, and call `Terminate`.
- *The two legs.* 422 retries replace the client transaction while a CANCEL is on its way; `mediate`'s
  own timeout races timer B of the callee's leg and timer H of the caller's; dialogs are stored after the 200
  was handed over.
- *Look up, then store.* A retransmission, a CANCEL or a second INVITE of the same call arrives between
  `Get` and `Add`, between the 200 and the entry in `server.dialogs`, or while a goroutine that was started for a
  key deletes whatever the key leads to by now.
- *Read under one lock, write under the next.* `handleInvite` writes back bindings it has read before; a slice
  that it shares with the map may change meanwhile.
- *Two copies of the settings*, in the database and in memory, written one after the other; the process may end
  between the two.
- *A panic ends every call*, so that one double `close` is a crash of the server.

## 2. What is modelled

The four transactions and the contracts of their interfaces, one call through the B2BUA, the dispatch of
requests with the maps that lead from a message to what it is for, the registrar, the calls of the server as the web
interface and the session timers see them, the guidance settings with the guidance calls, and the reading of Via and
To. The transactions are modelled at the grain of their critical sections, channel operations and calls
between them. Every larger module takes over from the smaller ones what it needs and no more:

- `B2BUA` composes two transactions at a coarser grain (a channel of one response, a state, timer B, `Done()`); that
  a 2xx ends a client transaction without closing `Done()` is what `InviteClientTx` shows.
- `Dispatch` composes transactions, their users and calls, each as coarse as the maps need them: a transaction is
  live, completed or over, a call starting, up or ended; that a call without an answer fails in the end is
  `CallerGetsFinal` of `B2BUA`.
- `Calls` has several calls, from their 200 on, and everything that goes through `server.dialogs`.
- `Guidance` extends `GuidanceSettings`: a call to a guidance user needs the settings and ends with the process.

## 3. Modules and code

| Module | Models |
|---|---|
| `ServerTransaction`, `ClientTransaction` | What the interfaces of `transaction.go:60-84` promise: responses in order, nothing after the end, `Done()` closed once and after the end. Abstract: no locks, timers, goroutines |
| `InviteServerTx`, `InviteClientTx`, `NonInviteServerTx`, `NonInviteClientTx` | One transaction each |
| `B2BUA` | One call (`b2bua.go`) |
| `BridgedCall` | What `Run` and `Cancel` of `b2bua.go` promise the two ends of a call. Abstract: the phones that are rung, the responses the caller hears, who gave up; no goroutines, transactions or timers |
| `Dispatch` | `handleRequest`, `handleTransaction`, `handleInvite`, `handleCancel` and `TransactionManager`, over `transactions`, `server.dialogs` and `server.b2buaByTx` |
| `Registrar` | `handleRegister` to `validateNonce` of `server.go`, and the look-up of `handleInvite` |
| `Calls` | `createOrUpdateSession`, `expireSession`, `GetActiveSessions`, `DisconnectSession`; `establishDialogs` and `cleanup` of several calls |
| `GuidanceSettings` | The two copies of the settings: `src/cmd/server/main.go`, `src/internal/web/server.go`, `src/internal/storage/storage.go` |
| `Guidance` | `app_guidance.go`, with the WebRTC connection as an external part |
| `Messages` | `ParseSIPRequest`, `ParseVia`, `TopVia`, `AllVias`, `BuildResponse`, `createVirtualUASResponse`, `GetTag` on tokens |
| `...Props`, `MC...` | The properties of a module, and its instance for TLC |
| `...Proofs` | Theorems about the module before `Proofs`: the four transactions, `B2BUA`, `Dispatch`, `Registrar`. `CallsAndGuidanceProofs` has those of `Calls` and of `Guidance`, which share nothing |

**Variables and fields.** In the transaction modules the variables are the fields of the struct
(`state`, `lastResponse`, `responses`, `done`; `timer` for the fields `timerG`, `timerH`, `timerI`) and `pc`,
where each goroutine is. `armed` holds the timers that run: `Stop` takes a timer out of it, a callback that has
begun is at a place of its own in `pc`. A timer that a field no longer points at stays in `armed`.

**History.** Variables that the code does not have serve the properties only, and no guard reads them: `spent`
and `wire` of the transactions, `rivals` and `answered` of `Dispatch`, `granted`, `overtaken`, `witness`, `uses` and `issued`
of `Registrar` (but that `Challenges` takes a nonce that was not issued, for a random one), `seen` and `early` of `Calls`,
`before` and `overlapped` of `GuidanceSettings`, `byes`, `unsent`, `missed` and `failed` of `Guidance`, `misread` of `B2BUA`, `lost` of
`InviteClientTx`.

**Locks.** A critical section that leaves the lock free is one action with the guard `mu = None`. What
the code does after unlocking (`Terminate`, `close(done)`) is an action of its own, so that others come in
between. A goroutine that calls `Terminate` with the lock held waits for itself, and `mu` is that
goroutine from then on: every action that needs the lock is disabled for ever. `b.mu` of the B2BUA is held over
two steps in `cleanup` only (`MuFree`). In `Registrar` a REGISTER holds `regMutex` over one step per contact; in
`Dispatch`, `Calls` and `GuidanceSettings` every critical section is one step, and what a goroutine has read is in a
variable of its own until it uses it. `sync.Map.Range` is no critical section: `Calls` visits one key per step.

**Slices.** A look-up of `handleInvite` has the array of the map until the map gets another one. `aliased` says
whether it still has; `Refreshes` changes an array in place, `Replaces` gives the map a new one, and an `append` does
so when the array is full (`IsFull`: from nothing, Go doubles small arrays).

**Timers** are untimed, an armed one may fire at any time. Two facts about durations are used: timers
B and D of `InviteClientTx` both take 32 s, so that D expires before B only if it was started before B (`early`), which the callee's
response can be fast enough for (`transaction_invite_client.go:121`, `:157`); and `mediate`'s 32 s start
again with every response, so that fairness asks for them only if it stays in its `select`.

**Data.** A response is one model value per class that the code tells apart, 1xx, 2xx and the rest,
plus the ones a transaction makes up (408 of timers B and F, 503 of a failed write). A dialog ID is
a triple of Call-ID and two tags in the order `getDialogID` takes them, which is what the lookup of a
callee's BYE depends on. Headers and bodies are left out.

**Failures.** With `WriteMayFail` any write may fail. The network may lose, repeat and reorder:
dispatchers deliver any response or request at any time, any number of times, but not a response
to an INVITE that was not sent. `reliable` (TCP or UDP) is a variable that never changes, so that one run
covers both.

## 4. Runs

`Registrar`, `Calls`, `Messages` and `B2BUA_cancel` check safety only; the other passing runs use the specification with
fairness. Deadlock is checked in `Guidance`, where settings can always be submitted or the process ends; the others
are meant to come to rest.

| Run | Question | States |
|---|---|---|
| `InviteServerTx` | Does the transaction survive two users and two dispatchers? `Inv`: `done` closed once (`DoneClosedOnce`) and by somebody (`TerminatedHasCloser`). `TimersMatchState`: in Completed and Confirmed the timer that ends it runs whatever was overwritten (`EndIsComing`), no stray timer as long as one user has answered (`NoStrayTimer`). Nothing leaves after the end (`SilentOnceTerminated`); `Respond` returns (`RespondReturns`); a final response ends it (`FinalResponseEnds`); implements `ServerTransaction` (`KeepsContract`) | 14 064 |
| `InviteClientTx` | Does `mediate` learn the outcome although responses are dropped (`OutcomeIsComing`, `TUAnswered`)? Is every rejection acknowledged (`RejectionAcked`), is the INVITE quiet once answered (`QuietOnceAnswered`), does it end although nobody answers or reads (`Ends`)? Implements the safety part of `ClientTransaction` | 47 972 |
| `NonInviteServerTx` | One final answer whoever responds (`FirstFinalStands`), and the end of it (`EndIsComing`, `NobodyWaits`); implements `ServerTransaction` | 13 312 |
| `NonInviteClientTx` | Does the sender get an answer and does the transaction end (`NobodyWaits`), is it quiet afterwards (`QuietOnceCompleted`)? Implements `ClientTransaction` | 3 172 |
| `B2BUA_cancel` | A CANCEL at any moment of a call with one retry: the caller hears 200 only if somebody picked up (`NeverConnectedToNobody`), one INVITE at most is picked up (`OneLegIsPickedUp` in `Inv`), no phone is left ringing (`NoPhoneLeftRinging`); implements `BridgedCall` (`BridgesCall`): phones ring in turn, and none once the caller has its final response; besides a 487 the caller hears one, and nothing after a 200 | 765 893 |
| `B2BUA_call` | A call without CANCEL, ended by BYE or from the web: exactly one final response (`OneFinalResponse`, `CallerGetsFinal`); `server.dialogs` holds live calls only (`DialogsAreLive`) | 26 111 |
| `B2BUA_crash` | Counterexample to what a comment says, see section 8 | - |
| `Dispatch` | Three datagrams out of nine requests of one call and others, handled at the same time. Is everything that was started found by what comes for it (`Findable`), is every request answered (`EveryRequestAnswered`), and what is left in the maps at rest (`NothingElseStays`)? | 381 738 |
| `Registrar` | Two REGISTERs and two look-ups: one request per nonce (`NonceOnce` in `Inv`), bindings are there exactly as long as they were asked for (`ConfirmedStays`), an INVITE goes where somebody was registered (`LookupSound`) | 859 839 |
| `Calls` | Two calls and one request to the web interface: no dead entry in `server.dialogs` (`NoDeadEntry` in `Inv`), a list without gaps, ghosts or doubles and a disconnection of the right call (`SearchIsFaithful`), a timer for every session (`SessionIsTimed`) | 1 178 699 |
| `Guidance` | Two submissions, crashes and one guidance call: database and memory agree (`SettingsAgree`) and calls end with a BYE, if one can be sent (`EndsWithBye`, both in `GuidanceInv`), settings survive a restart (`RestartKeepsSettings`), calls end (`GuidanceEnds`) | 464 406 |
| `Messages` | All INVITEs with up to two Via lines of up to two values, with or without quoted commas, and three forms of To: branch, loops and dialog ID are what the sender meant (`ReadAsMeant`) | 51 684 |

Conditions in the properties, and why they are there. `mu /= None`: after a failed write under the
lock the transaction is stuck, and only properties that hold all the same say nothing about it.
`RejectionLost` in `OutcomeIsComing` and `TUAnswered`: a rejection that found the channel full, if the transaction ends on TCP at once or
on UDP with a timer D that was started before timer B; a dropped rejection in any other order is followed by a 408, and so is a dropped 200. `Cardinality(spent) <= 1` in `NoStrayTimer`: with two final responses
timers do go astray, harmlessly, as `EndIsComing` and `SilentOnceTerminated` show for any number.
`OneFinalResponse` and `DialogsAreLive` are checked without CANCEL, because `Cancel` may respond
487 next to `mediate`'s response, and cleans up while `Run` goes on; what the caller may hear then is what
`BridgesCall` says. `crashed` in
`CallerGetsFinal`: a call that is hung up takes the process with it. `misread` in `NeverConnectedToNobody`: the callee's 200
for the CANCEL is given to the INVITE's transaction, which takes it for an answer as long as that is not terminated.
`rivals` in `Findable`: when two transactions or calls have had the same branch, one deletes the other's entry; `SharesDialog`
in it: so do two calls with the same dialog ID. `overtaken` in
`ConfirmedStays` and `LookupSound`: a REGISTER that comes between the two critical sections of a look-up is lost, unless it
refreshes a binding in the array the look-up has too. `early` in `NoDeadEntry`: a CANCEL cleans up before `establishDialogs`.
`overlapped` in `SettingsAgree`: two submissions may save in one order and update memory in the other. `missed` in
`GuidanceEnds`: the handler is set after the 200 was sent. `wedged` in it: a 200 that cannot be written leaves Run waiting for
`Done()`. `unsent` in `EndsWithBye`: `sendBye` has given up, or its write failed. Each of them is something the code does, listed in section 8; the
property says that nothing else breaks it.

## 5. Bounds

- *Two users* of `InviteServerTx`: the code has two, `mediate` and `Cancel`, and each sends one
  final response at most. `NonInviteServerTx` has one in the code, which responds once; with two
  the properties do not rest on how the handlers of `server.go` behave.
- *Two dispatchers*: one delivers any number of messages in any order; a second one is
  needed to have a message arrive while another one's goroutine is between unlock and `Terminate`. A third
  could only wait at the same places. The theorems of section 7 hold for any number of users, dispatchers, retries,
  CANCELs, datagrams, REGISTERs, look-ups, calls and searches.
- *One response per class*; two finals where a property compares them. The code compares classes only.
- *Channel capacity* one is the code's (`make(chan *SIPResponse, 1)`).
- `MaxResend = 2` retransmissions: one that wins and one that loses against a response. Each
  leaves the state as it was, so that more add nothing but counts.
- `MaxTx = 2` INVITEs per call: one retry after a 422, so that CANCEL, timeouts and late answers
  meet the old and the new transaction. The code itself has no bound.
- `Dispatch`, three datagrams: an INVITE, its repetition and a CANCEL, BYE, ACK or re-INVITE cover every pair of steps on
  the same key, with a third goroutine that has it already. The requests are one per method and situation, and one INVITE
  makes calls; two calls with one dialog ID are two of that INVITE.
- `Registrar`, two REGISTERs and two look-ups of one user: bindings of different users share nothing but the lock. Two
  contacts, a list of both in the other order, and the wildcard; lifetimes 0 and 1 with a clock of three values, so that bindings and
  nonces expire before, between and after the two critical sections; three nonces, one per REGISTER and one that is refused.
- `Calls`, two calls: the second takes over the ID, the session and the timer of the first. One search, which takes no lock
  that another one needs.
- `Guidance`, two submissions at a time and two forms (empty; a user twice and an incomplete row); a connection that comes
  up twice, so that the file is played a second time while the first is closing.
- `Messages`: the values of a line and the lines are all alike to the code, but for the first and the last.
- One CANCEL in `B2BUA_cancel`; a BYE and a disconnect in `B2BUA_call`, so that both can clean up.

## 6. Fairness

Weak fairness of a goroutine's steps: the Go scheduler runs what can run, and a critical section
that is not stuck ends. Weak fairness of each timer's callback: a timer that runs expires. Strong
fairness where a goroutine waits for room in a channel, or for an answer to be accepted: Go queues blocked senders and serves
them in turn, so that a sender is not passed over for ever. Weak fairness of the reader of `Responses()`.
In `Dispatch` the server does not stop as long as a goroutine can
go on (no step leads back to an earlier state, so that this is enough); in `Guidance` Run, the callbacks and the streams are
weakly fair, and a connection that is not up comes up or fails again and again until it does (strong, as it may come and go):
pion's ICE agent times out. No fairness for the network, for who responds, cancels, hangs up or gives up: a callee may be silent, or
ring for ever.

## 7. Proofs

Each theorem holds for every value of the constants that satisfies the assumption of its module, which says that things with
different names are different (classes of responses, goroutines, `None`), that a bound is a natural number, and in
`Dispatch` that a request which can belong to a dialog has a dialog ID. `Safety` is `Init /\ [][Next]_vars`; no theorem
rests on fairness.

| Module | Theorem | States |
|---|---|---|
| `InviteServerTxProofs` | `TypeCorrect`, `ClosedOnce`, `CloserExists`, `Invariant` | `Inv`, part by part and as a whole |
| | `Silent` | `SilentOnceTerminated` |
| | `EndComes`, `TimersRight` | `EndIsComing`, `TimersMatchState` |
| | `ImplementsContract` | every step is one of `ServerTransaction` or none |
| `InviteClientTxProofs` | `Invariant`, `Quiet`, `ImplementsContract` | `Inv`, `QuietOnceAnswered`, `KeepsContract` |
| `NonInviteServerTxProofs` | `TypeCorrect`, `Invariant`, `FirstFinal` | `TypeOK`, `Inv`, `FirstFinalStands` |
| | `ImplementsContract` | every step is one of `ServerTransaction` or none |
| `NonInviteClientTxProofs` | `Invariant`, `Quiet` | `Inv`, `QuietOnceCompleted` |
| | `ImplementsContract` | every step is one of `ClientTransaction` or none |
| `B2BUAProofs` | `Invariant`, `NeverConnected`, `NoPhone` | `Inv` (types, `OneLegIsPickedUp`), `NeverConnectedToNobody`, `NoPhoneLeftRinging` |
| | `ImplementsCall` | `BridgesCall`: every step is one of `BridgedCall` or none |
| | `OneFinal`, `LiveDialogs` | with `Cancels = {}`, as in the run: `OneFinalResponse`, `DialogsAreLive` |
| `DispatchProofs` | `TypeCorrect`, `StaysFindable`, `NothingLeftBehind` | `TypeOK`, `Findable`, `NothingElseStays` |
| `RegistrarProofs` | `Invariant`, `BindingsStay`, `LookupsSound` | `Inv`, `ConfirmedStays`, `LookupSound` |
| `CallsAndGuidanceProofs` | `Invariant`, `Timed`, `Faithful` | of `Calls`: `Inv`, `SessionIsTimed`, `SearchIsFaithful` |
| | `GuidanceInvariant`, `SettingsSurvive` | of `Guidance`: `GuidanceInv`, `RestartKeepsSettings` |

The inductive invariants, and what they add to what they prove:

- *Transactions.* `DoneClosedOnce` needs `TerminatedHasCloser`: the goroutine that terminates a transaction finds nobody on
  the way to close `Done()` because the state it reads would say so. In the client transactions `Places` says where each
  goroutine can be, and `InvitesInOrder`, `RequestsInOrder` that timers A and E start only after the first request has left. That
  `mediate` learns the outcome (`OutcomeIsComing`) needs `EndedForAReason`: who is about to end the transaction has handed over
  a final response before, or it was a rejection that found the channel full; `OutcomeIsComing` needs it for timer D too, which
  may be the first to expire. `FirstFinalStands` needs `AnsweredOnce`, that the last response
  sent is final only in Completed or later.
- *Timers of an INVITE server transaction.* `EndIsComing` is inductive with the types; `NoStrayTimer` is not: that a second
  final response, which overwrites the timers, comes from another user is the path of a final response through the channel
  and run, once (`FinalsPassOnce`).
- *One call.* `OneAtATime` says that of the INVITEs of a call those before the current one were rejected and those after it
  were not sent; `Settled` that a final response in an inbox, the end of a transaction or a CANCEL means a phone that no longer
  rings; `RunKnows` what Run may conclude from it where it is; `AnswerIsEarned` follows a 200 from the callee's
  leg to the caller. With CANCELs `HeardOnce` says that until Run has relayed a final response only a 487 was heard or is on its
  way to the caller, and that the caller's transaction has ended early only if the caller gave up; `ImplementsCall` takes from
  it that whatever a `Cancel` and Run say, and in whichever order, is heard as `BridgedCall` has it. Without
  CANCELs `FinalOnce` and `DialogsKnown` follow Run alone.
- *Dispatch.* `Progress` and `Waiting` give the order of each message's own steps; `Started`, that what is found in a map has
  started. `Alone` is the heart of `Findable`: of the messages with a branch that is not shared one at most is in use, since whoever creates
  a transaction has found none and knows of every rival (`CreatesAlone`); `Own`, the conclusion, says that the entries are theirs.
- *Registrar.* `NonceInv`: a nonce leaves the map with the first goroutine that takes it, and no second one is in possession of
  it. `ShownInv`: as long as no REGISTER was overtaken, the map and the slices of the look-ups show the bindings granted,
  and a slice that shares the map's array equals it; `WitnessInv` says the same of what a look-up may still call.
- *Calls.* `EarlyKnown` and `OwnSession` make `Inv` and `SessionIsTimed` inductive; `Searching` says of every call that was there
  all the time that Range will still come to it or has named it, and not both.
- *Guidance.* `SettingsInv`: between the two writes of a submission the database has what goes to memory next, and nobody else is
  between the writes, unless two submissions overlapped; a process that ended has left the database and nothing else. `AppInv`: the
  connection is closed, and Run is told, only by the end of a file, after its BYE was sent or could not be, by a failure, or with the change missed.

TLC has checked each of these invariants on the instances of section 4. In the refinements a step of a transaction maps
to the step of its interface of the same effect; what a lock, a timer or a goroutine does in between is a stutter.

`Kept` in `Registrar` and `Filled` in `GuidanceSettings` are recursive functions over a list. What they keep is proved by the least counterexample: if the entries of
the table differ from what they should be anywhere, they do at a least index (`LeastOf`, from the well-foundedness of `<`), and its
predecessor refutes that.

Model-checked only:

- liveness, which the prover does not do: `RespondReturns`, `FinalResponseEnds`, `TUAnswered`, `Ends`, `NobodyWaits`,
  `CallerGetsFinal`, `EveryRequestAnswered`, `GuidanceEnds`, and the part of `KeepsContract` of `InviteServerTx` and the
  non-INVITE transactions that `Done()` follows in time;
- `ReadAsMeant` of `Messages`: a property of functions folded over sequences of tokens, for all inputs up to a length.

## 8. Where the code differs from what it says

`B2BUA_crash` has a counterexample, with the quoted line in `PROJECT.json`: `Run`'s deferred `close(b.done)` follows the one
of `cleanup`, and panics, whenever a call ends by BYE, CANCEL or the web interface.

Transactions:

- `send` calls `Terminate` with `tx.mu` held when a write fails (`transaction_invite_server.go:191`), although the comment at
  line 105 says "Terminateを呼び出す前にロックを解除します" (unlock before calling Terminate); the transaction is stuck for good (`mu /= None`
  in the models). The other three do the same (`transaction_invite_client.go:150` and `:189`,
  `transaction_noninvite_server.go:166`, `transaction_noninvite_client.go:155`).
- A 2xx sets the state of an INVITE client transaction before it calls `Terminate`, which then returns at once
  (`transaction_invite_client.go:132`): `Done()` stays open and the transaction manager keeps the entry, although
  `transaction.go:115` says it is cleaned up at the end. Timer B runs on.
- Timer G resends `lastResponse`, which is a 1xx if `mediate` hands one over after `Cancel`'s 487
  (`transaction_invite_server.go:179`).
- Timer F of a non-INVITE client blocks for ever on the channel if two 1xx came and nobody reads any
  more (`transaction_noninvite_client.go:123`).
- A rejection that finds the channel full is lost, and `mediate` waits for its own 32 s, if `Terminate` stops timer B: on TCP,
  where it follows at once (`transaction_invite_client.go:114-119`), and on UDP, if the callee has answered before `run` starts timer
  B (`:157`), so that timer D (`:121`) is the first to expire.

Calls:

- The 200 is relayed before the dialogs are stored (`b2bua.go:257-263`): an ACK that is fast enough is dropped
  (`server.go:377`). So is one after a late 1xx, which replaces the last response it is built from (`b2bua.go:464`).
  `b2bua.go:412` and `src/requirements.md:17` say the ACK is relayed.
- A forwarded BYE has the Call-ID of one leg and the tags of the other (`b2bua.go:503`), although `b2bua.go:428` says it is
  sent on to the callee's leg.
- The callee's BYE has its tags the other way round (`server.go:344`), is found in no dialog and answered 405;
  `b2bua.go:446` says it is answered 200.
- After `mediate`'s own timeout the callee is not cancelled (`b2bua.go:294`).
- The callee's 200 for a CANCEL has the branch of the INVITE and is given to its transaction (`server.go:286-294`); if the
  CANCEL was written but `Terminate` has not run yet, it ends the transaction like an answer and the caller hears
  a 200 (`misread`).
- A CANCEL that crosses the callee's 200 is answered 200, cleans up and leaves an entry in `server.dialogs` that
  `establishDialogs` makes afterwards (`early`).
- A response of the callee that comes between `NewInviteClientTx` and `txManager.Add` is dropped (`b2bua.go:114-124`).
- Nothing reads the TCP connection that `Run` opens to a callee (`b2bua.go:104-111`).

Dispatch and registrar:

- `Get` and `Add` are two critical sections (`server.go:396`, `:424`): a retransmission handled at the same time starts a second
  call, and the end of one transaction removes the other's entry (`rivals`).
- A re-INVITE or UPDATE in a dialog gets no response, and its transaction stays (`server.go:454-461`).
- A call that is rejected or times out leaves its entry in `b2buaByTx` (`server.go:526`).
- An INVITE repeated after its transaction has ended is a new call with the ID of the old one, as the tag `BuildResponse` puts
  into To is always the same (`response.go:115-118`); it overwrites the entry in `server.dialogs`, and the
  cleanup of either call deletes it.
- For the same reason the ACK for a refused INVITE passes for one in the dialog of another call with its Call-ID and From tag, and gets
  a transaction under the branch of its INVITE (`server.go:341-350`), which nobody answers.
- A REGISTER that comes between the two critical sections of `handleInvite` is lost (`server.go:496-508`).
- A REGISTER without a Contact binds the empty contact; "*" with an expiry above zero binds "*" (`server.go:589-613`); of a
  list of contacts the first `;expires=` counts for all (`parser.go:442-455`); a contact without angle brackets keeps its
  parameters, so that it cannot be unregistered with others (`server.go:606`).
- A session is removed by its timer only, not when its call ends; a timer that fired just before it was replaced removes the
  new session (`server.go:794-820`).

Guidance and messages:

- Run sets its handler after the 200 was sent (`app_guidance.go:146-151`): a connection that changes before plays
  nothing and the call stays for ever.
- Failed and Closed have goroutines of their own, and both may find `a.done` open (`app_guidance.go:157-160`).
- A caller on TCP gets no BYE, as `TransportFor` knows UDP only (`server.go:909-912`), and no handler knows the guidance call:
  a BYE or CANCEL of its caller finds nothing (`server.go:483`).
- Nor does a caller whose Contact is no URI or has a host that does not resolve (`app_guidance.go:277-287`), as Run looks for no
  more than its angle brackets before the 200 (`:65-74`); without a port in it the BYE is written to port 0 (`server.go:914`).
- If the 200 cannot be written, its transaction is stuck and Run waits for `Done()` for ever (`app_guidance.go:166`).
- Settings that were emptied on purpose come back as the default after a restart (`src/cmd/server/main.go:43`); after a failed
  save the form shows the database's settings, not the user's input that the comment at
  `src/internal/web/server.go:181` means to keep (line 105 overwrites it).
- `AllVias` says that separate Via lines are joined by the parser, but the last line replaces the others
  (`parser.go:267`, `:335`): with two lines the branch and the loop check are those of the last one.
- A To with `;tag=` in a quoted display name is taken for a re-INVITE's (`server.go:455`).

## 9. Not modelled

- *Transports, HTML forms, the user table, flags and listeners*: blocking I/O, layout and wiring without state of their own.
  What matters of a transport, that writes fail and that it is reliable or not, is part of the transaction modules.
- *Message formats other than Via, To and dialog IDs*: URIs, Session-Expires and Min-SE, Authorization, bodies and
  Content-Length are conversions without a property here. In `Dispatch` a request has been parsed; one with a branch that
  lacks the magic cookie is answered 405 like one of an unknown method.
- *Digests*: whether a password is right is a choice of `Registrar`.
- *WebRTC media and the audio file*: a library's, and data. The connection's states are modelled as external.
- *Of the B2BUA*: the headers of the messages it rewrites, but for the tag of a 2xx.
- *Time*: timers fire in any order, but for the two facts of section 3. `Registrar` has a clock, for lifetimes.

## 10. Plan

Done: every component that keeps state is modelled; every safety property that a passing run checks is proved, but for
`ReadAsMeant` of `Messages`. What is left:

1. State that `B2BUA` implements the coarse call of `Dispatch` (starting, up, ended), and the transactions the coarse ones of
   `B2BUA`, so that the composition of section 2 is a theorem and not only a correspondence.
2. Messages of more header fields (Route, Session-Expires, Authorization), once a property depends on them.
