-------------------------- MODULE GuidanceSettings --------------------------
(***************************************************************************)
(* The guidance settings: which users are answered by the server itself,   *)
(* and with which file.  The web interface writes them to the database     *)
(* first (internal/web, internal/storage) and then into the memory of the  *)
(* SIP server; the process loads them when it starts (cmd/server/main.go). *)
(***************************************************************************)
EXTENDS Naturals, Sequences, FiniteSets

CONSTANTS Uris, Files,
          Blank,          \* a field that is empty or only spaces
          Forms,          \* the rows of the forms that are submitted
          DefaultUri, DefaultFile,
          Submitters      \* goroutines of POSTs to /settings/guidance

ASSUME GuidanceSettingsAssumption ==
  /\ DefaultUri \in Uris /\ DefaultFile \in Files /\ Blank \notin Uris \cup Files
  /\ Forms \subseteq Seq([uri : Uris \cup {Blank}, file : Files \cup {Blank}])

VARIABLES db,          \* the list under guidance_settings, empty if there is none
          memory,      \* sip.SIPServer.guidanceSettings
          up,          \* the process runs
          pc, form,    \* a submission and its rows
          overlapped,  \* history: another was between its two writes when the last was saved
          before       \* history: what was in force at the last crash, if that was settled

settingsVars == <<db, memory, up, pc, form, overlapped, before>>

Setting == [uri : Uris, file : Files]

\* The map made of a list: of two rows for one user the later one counts.
Last(list, u) == CHOOSE i \in DOMAIN list :
                   /\ list[i].uri = u
                   /\ \A j \in DOMAIN list : list[j].uri = u => j <= i
AsMap(list) == [u \in {list[i].uri : i \in DOMAIN list} |-> list[Last(list, u)].file]

Empty == AsMap(<<>>)

SettingsInit == /\ db = <<>>
                /\ memory = Empty
                /\ up = FALSE
                /\ pc = [p \in Submitters |-> "idle"]
                /\ form = [p \in Submitters |-> <<>>]
                /\ overlapped = FALSE
                /\ before = Empty

-----------------------------------------------------------------------------
(* main *)

Default == <<[uri |-> DefaultUri, file |-> DefaultFile]>>

\* Mutant: the default is there also if there are settings.
StartsWithDefault == /\ ~up
                     /\ up' = TRUE
                     /\ db' = Default \o db
                     /\ memory' = AsMap(db')
                     /\ overlapped' = FALSE
                     /\ UNCHANGED <<pc, form, before>>

\* The settings are loaded; without any the default is saved.
Start == /\ ~up
         /\ up' = TRUE
         /\ db' = IF db = <<>> THEN Default ELSE db
         /\ memory' = AsMap(db')
         /\ overlapped' = FALSE
         /\ UNCHANGED <<pc, form, before>>

Settled == ~overlapped /\ \A p \in Submitters : pc[p] /= "update"

\* The process ends, by a signal or a panic, wherever its goroutines are.
Down == /\ up
        /\ up' = FALSE
        /\ before' = IF Settled THEN memory ELSE Empty
        /\ memory' = Empty
        /\ pc' = [p \in Submitters |-> "idle"]
        /\ form' = [p \in Submitters |-> <<>>]
        /\ UNCHANGED <<db, overlapped>>

-----------------------------------------------------------------------------
(* handleGuidanceSettingsSubmit *)

\* Rows with an empty field are ignored.
Filled(rows) ==
  LET upTo[n \in 0 .. Len(rows)] ==
        IF n = 0 THEN <<>>
        ELSE IF rows[n] \in Setting THEN Append(upTo[n - 1], rows[n]) ELSE upTo[n - 1]
  IN upTo[Len(rows)]

Submit(p) == /\ up /\ pc[p] = "idle"
             /\ \E rows \in Forms : form' = [form EXCEPT ![p] = Filled(rows)]
             /\ pc' = [pc EXCEPT ![p] = "save"]
             /\ UNCHANGED <<db, memory, up, overlapped, before>>

Saved(p) == /\ db' = form[p]
            /\ pc' = [pc EXCEPT ![p] = "update"]
            /\ overlapped' = \E q \in Submitters : pc[q] = "update"
            /\ UNCHANGED form

\* The database refuses: the submission ends with an error message.
NotSaved(p) == /\ pc' = [pc EXCEPT ![p] = "idle"]
               /\ form' = [form EXCEPT ![p] = <<>>]
               /\ UNCHANGED <<db, overlapped>>

\* Mutant: the error is logged only.
SavesOrNot(p) == /\ up /\ pc[p] = "save"
                 /\ \/ Saved(p)
                    \/ /\ pc' = [pc EXCEPT ![p] = "update"]
                       /\ UNCHANGED <<db, form, overlapped>>
                 /\ UNCHANGED <<memory, up, before>>

\* SetGuidanceSettings
Saves(p) == /\ up /\ pc[p] = "save"
            /\ Saved(p) \/ NotSaved(p)
            /\ UNCHANGED <<memory, up, before>>

\* UpdateGuidanceSettings, under guidanceMutex
Updates(p) == /\ up /\ pc[p] = "update"
              /\ memory' = AsMap(form[p])
              /\ pc' = [pc EXCEPT ![p] = "idle"]
              /\ form' = [form EXCEPT ![p] = <<>>]
              /\ UNCHANGED <<db, up, overlapped, before>>

SettingsStep == Start \/ \E p \in Submitters : Submit(p) \/ Saves(p) \/ Updates(p)
=============================================================================
