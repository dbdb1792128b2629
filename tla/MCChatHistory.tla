---------------------------- MODULE MCChatHistory ----------------------------
(* The history of a chat; the accounts, tables and connections that the    *)
(* same database keeps; and the body of an upload.                         *)
EXTENDS ChatHistory, Accounts, UploadRoute

CONSTANTS q1, q2, c1, c2, c3, data, chart

TwoQuestions == {q1, q2}
ToolOfCall == (c1 :> "visualize") @@ (c2 :> "send_file") @@ (c3 :> "other")
ThreeCalls == {c1, c2, c3}
Foreign == {c3}
TwoNames == {data, chart}

(* At most so many uploads, edits, faults and reloads in one behaviour, one  *)
(* message with a thought and one with a text; a tab comes back in a       *)
(* behaviour without attachments.                                          *)
Few ==
  /\ uploads + edits + faults + resumes <= 2
  /\ resumes > 0 => uploads = 0 /\ rows = <<>> /\ creating = <<>>
  /\ Cardinality({i \in DOMAIN messages : messages[i].thinks}) <= 1
  /\ Cardinality({i \in DOMAIN messages : messages[i].says /\ messages[i].mark = "none"}) <= 1

Parts == [name : {"none"} \cup TwoNames, size : 0..2]
MCBodies ==
  UNION {[1..n -> Parts] : n \in 0..2} \cup [1..3 -> [name : {"none", data}, size : {1}]]

Alike == Permutations(TwoQuestions)
-----------------------------------------------------------------------------
(* The accounts                                                            *)

CONSTANTS ann, staff, ex, r1, r2

\* The groups give a role, or bar: staff as a SID, ex in the directory.
NoMapper == [k \in {ann, staff, ex} |-> {}]
GivenTo(k, r) == [NoMapper EXCEPT ![k] = {r}]

Providers ==
  [kerberos |-> [principal |-> NoMapper, principalEx |-> {},
                 sid |-> NoMapper, sidEx |-> {ex}, ldap |-> TRUE,
                 sam |-> NoMapper, samEx |-> {}, memberOf |-> GivenTo(staff, r1), memberOfEx |-> {ex},
                 dn |-> GivenTo(ann, r2), dnEx |-> {}, requireRoles |-> TRUE, format |-> TRUE],
   ldap |-> [sam |-> NoMapper, samEx |-> {}, memberOf |-> GivenTo(staff, r1), memberOfEx |-> {ex},
             dn |-> NoMapper, dnEx |-> {}, requireRoles |-> FALSE],
   local |-> [local |-> GivenTo(ann, r2), localEx |-> {}, requireRoles |-> TRUE]]

LocalFirst == <<"local", "ldap">>

\* Callers of the connection store share nothing with the tabs, nor do threads
\* share more with logins than the row of the user: one after the other shows
\* what all at once would.
AccountsApart ==
  /\ saves + begun = 0 \/ (logins = 0 /\ Len(past) = 1 /\ groups[ann] = {})
  /\ writes = 0 \/ (Len(past) = 1 /\ groups[ann] = {staff})

-----------------------------------------------------------------------------
\* The history touches no table of the accounts: each is followed while the
\* other is where it began.
HistoryStill ==
  messages = <<>> /\ feed = <<>> /\ pc = "idle" /\ uploads + edits + faults + resumes = 0
AccountsStill ==
  /\ logins = 0 /\ saves = 0 /\ begun = 0 /\ writes = 0
  /\ Len(past) = 1 /\ \A u \in User : groups[u] = {}

\* And an upload is one step of the history.
UploadStill == sends = 0

ApartNext ==
  \/ AccountsStill /\ UploadStill /\ Next /\ UNCHANGED <<accountVars, uploadVars>>
  \/ HistoryStill /\ UploadStill /\ AccountsNext /\ UNCHANGED <<vars, uploadVars>>
  \/ HistoryStill /\ AccountsStill /\ UploadNext /\ UNCHANGED <<vars, accountVars>>
ApartInit == Init /\ AccountsInit /\ UploadInit
ApartSpec ==
  ApartInit /\ [][ApartNext]_<<vars, accountVars, uploadVars>>
Bounds == Few /\ AccountsApart

===============================================================================
