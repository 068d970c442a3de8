------------------------------ MODULE Messages ------------------------------
(***************************************************************************)
(* What the server reads out of an INVITE and puts into its responses, as  *)
(* far as the transactions and the dialogs go by it: the Via headers       *)
(* (parser.go), the To header and its tag (response.go, b2bua.go), and the *)
(* dialog IDs that are made of the tags (server.go).                       *)
(*                                                                         *)
(* A Via line is a sequence of tokens: hosts, branches, commas and quotes; *)
(* a To header is the sequence of its parts between semicolons.            *)
(***************************************************************************)
EXTENDS Naturals, Sequences, FiniteSets, SequencesExt

CONSTANTS Hosts, ListenHost,  \* senders, and this server's own address
          Branches,
          MaxVias,            \* bound: values of a Via line
          MaxLines            \* bound: Via lines of a request

ASSUME MessagesAssumption == ListenHost \in Hosts /\ MaxVias \in Nat \ {0} /\ MaxLines \in Nat \ {0}

Comma == <<"comma">>
Quote == <<"quote">>
Host(h) == <<"host", h>>
BranchParam(b) == <<"branch", b>>

\* A Via value as its sender means it, with or without a quoted parameter that has a comma.
Value == [host : Hosts, branch : Branches, quoted : BOOLEAN]
Lines == UNION {[1 .. n -> UNION {[1 .. m -> Value] : m \in 1 .. MaxVias}] : n \in 1 .. MaxLines}

\* The parts of To that occur: text; text with tag= in the middle; a tag.
Plain == <<"plain">>
Mentions == <<"mentions">>
Tag(t) == <<"tag", t>>

StaticTag == "z9hG4bK-response-tag"
GeneratedTag == "generated"

VARIABLES stage,         \* what has become of the INVITE
          lines,         \* its Via lines as they were meant
          via, to,       \* its headers as the server has them
          tx,            \* the branch it is known by
          resTo,         \* To of the 200
          dialogID       \* the tag of To in the ID establishDialogs stores

vars == <<stage, lines, via, to, tx, resTo, dialogID>>

None == "none"

-----------------------------------------------------------------------------
(* How a sender writes a Via line *)

Written(v) == <<Host(v.host)>> \o (IF v.quoted THEN <<Quote, Comma, Quote>> ELSE <<>>)
                               \o <<BranchParam(v.branch)>>
WrittenLine(vs) == FoldLeft(LAMBDA l, v : IF l = <<>> THEN Written(v) ELSE l \o <<Comma>> \o Written(v),
                            <<>>, vs)

-----------------------------------------------------------------------------
(* parser.go *)

\* Every line of a header replaces the one before in the map.
ParseSIPRequest(ls) == WrittenLine(Last(ls))

Quotes(s, i) == Cardinality({j \in 1 .. i : s[j] = Quote})

\* The pieces of s between the places in cuts.
Pieces(s, cuts) == LET at == SetToSortSeq(cuts \cup {0, Len(s) + 1}, <)
                   IN [k \in 1 .. Len(at) - 1 |-> SubSeq(s, at[k] + 1, at[k + 1] - 1)]

\* Mutant: quotes are not looked at.
SplitByComma(s) == Pieces(s, {i \in DOMAIN s : s[i] = Comma})

splitByCommaOutsideQuotes(s) == Pieces(s, {i \in DOMAIN s : s[i] = Comma /\ Quotes(s, i) % 2 = 0})

IsBranch(t) == t[1] = "branch"

\* The sender, and the last branch parameter, none for none.  Without a sender in front
\* the value is malformed.
ParseVia(s) ==
  [ok |-> s /= <<>> /\ s[1][1] = "host",
   host |-> IF s /= <<>> /\ s[1][1] = "host" THEN s[1][2] ELSE None,
   branch |-> IF \E t \in Range(s) : IsBranch(t) THEN Last(SelectSeq(s, IsBranch))[2] ELSE None]

TopVia(s) == ParseVia(splitByCommaOutsideQuotes(s)[1])

\* Empty values are skipped, the first malformed one ends the list with an error.
AllVias(s) ==
  LET vias == [i \in DOMAIN splitByCommaOutsideQuotes(s) |->
                 ParseVia(splitByCommaOutsideQuotes(s)[i])]
  IN IF \E i \in DOMAIN vias : ~vias[i].ok THEN <<>> ELSE vias

\* GetTag: the first part of a header that begins with tag=.
IsTag(p) == p[1] = "tag"
GetTag(h) == IF \E p \in Range(h) : IsTag(p) THEN SelectSeq(h, IsTag)[1][2] ELSE ""

-----------------------------------------------------------------------------
(* response.go and b2bua.go: To of a response *)

\* BuildResponse: a tag, unless the request's To has the text tag= anywhere.
BuildResponseTo(h) == IF Range(h) \cap {Mentions} /= {} \/ GetTag(h) /= "" THEN h
                      ELSE Append(h, Tag(StaticTag))

\* createVirtualUASResponse: a 2xx has a tag for sure.
createVirtualUASResponse(h) == IF GetTag(BuildResponseTo(h)) = ""
                               THEN Append(BuildResponseTo(h), Tag(GeneratedTag))
                               ELSE BuildResponseTo(h)

-----------------------------------------------------------------------------
(* handleRequest, handleInvite and the answer *)

Init == /\ stage = "raw"
        /\ lines \in Lines
        /\ via = <<>> /\ tx = None /\ resTo = <<>> /\ dialogID = ""
        /\ to \in {<<Plain>>, <<Mentions>>, <<Plain, Plain>>}

Receives == /\ stage = "raw"
            /\ via' = ParseSIPRequest(lines)
            /\ stage' = "parsed"
            /\ UNCHANGED <<lines, to, tx, resTo, dialogID>>

IsLooped == ListenHost \in {AllVias(via)[i].host : i \in DOMAIN AllVias(via)}

\* 482
RejectsLoop == /\ stage = "parsed" /\ IsLooped
               /\ stage' = "looped"
               /\ UNCHANGED <<lines, via, to, tx, resTo, dialogID>>

Creates == /\ stage = "parsed" /\ ~IsLooped /\ TopVia(via).ok
           /\ tx' = TopVia(via).branch
           /\ stage' = "received"
           /\ UNCHANGED <<lines, via, to, resTo, dialogID>>

\* The INVITE is an initial one; its 200, and the ID of the caller's dialog.
Answers == /\ stage = "received" /\ GetTag(to) = ""
           /\ resTo' = createVirtualUASResponse(to)
           /\ dialogID' = GetTag(resTo')
           /\ stage' = "answered"
           /\ UNCHANGED <<lines, via, to, tx>>

Next == Receives \/ RejectsLoop \/ Creates \/ Answers

Spec == Init /\ [][Next]_vars
=============================================================================
