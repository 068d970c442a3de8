---------------------------- MODULE GuidanceProps ----------------------------
(***************************************************************************)
(* The properties of the guidance settings and of the guidance calls.      *)
(***************************************************************************)
EXTENDS Guidance

\* The types of the variables; those of a guidance call first.
AppType == [run : {"none", "answer", "refused", "register", "ack", "wait", "ended"},
            udp : BOOLEAN,
            conn : {"new", "connected", "disconnected", "failed", "closed"},
            handler : BOOLEAN, connects : 0 .. MaxConnects, connected : Nat,
            callback : [{"failed", "closed"} -> {"none", "check", "close", "over"}],
            streams : Nat, closing : Nat, byes : Nat,
            done : BOOLEAN, missed : BOOLEAN, failed : BOOLEAN,
            unsent : BOOLEAN, wedged : BOOLEAN]

SettingsTypeOK ==
  /\ db \in Seq(Setting)
  /\ DOMAIN memory \subseteq Uris /\ \A u \in DOMAIN memory : memory[u] \in Files
  /\ up \in BOOLEAN /\ overlapped \in BOOLEAN
  /\ pc \in [Submitters -> {"idle", "save", "update"}]
  /\ form \in [Submitters -> Seq(Setting)]
  /\ DOMAIN before \subseteq Uris

GuidanceTypeOK == SettingsTypeOK /\ app \in [Apps -> AppType]

\* What the SIP server goes by is what the database has, whatever submissions fail and
\* wherever the process was ended before, when no submission is between its two writes;
\* unless the last one was saved while another was.
SettingsAgree == up /\ Settled => memory = AsMap(db)

\* A guidance call ends with a BYE, however often its media connection comes and goes and
\* however many files are played; unless sendBye could not send one, the connection failed
\* or a change of it came before Run had set its handler.
EndsWithBye == \A a \in Apps : app[a].run = "ended" =>
                 app[a].byes > 0 \/ app[a].unsent \/ app[a].failed \/ app[a].missed

\* The variables have their types, the settings agree and calls end with a BYE.
GuidanceInv == GuidanceTypeOK /\ SettingsAgree /\ EndsWithBye

\* Settings that were in force, and settled, when the process ended are in force when it
\* has started again; except that there were none, which is replaced by the default.
RestartKeepsSettings == [][~up /\ up' => before = Empty \/ memory' = before]_guidanceVars

\* Every guidance call that was answered ends: its Run returns and the connection is
\* closed, also if that comes and goes and if no BYE can be sent; unless a change came
\* before Run had set its handler, the 200 could not be written, or Failed and Closed have
\* both found a.done open, which ends the process.
GuidanceEnds ==
  \A a \in Apps : Answered(a) ~> \/ app[a].run \in {"none", "ended"}
                                 \/ app[a].missed \/ app[a].wedged
                                 \/ \E e \in {"failed", "closed"} : CallbackPanics(a, e)
=============================================================================
