----------------------------- MODULE UserTables -----------------------------
(***************************************************************************)
(* Tabs of users and the tables behind them: a login from the request to   *)
(* the cookie, and PostgresDataLayer on users, threads, feedbacks and      *)
(* elements.                                                               *)
(*                                                                         *)
(* A login waits for the directory and for the database, and the directory *)
(* may change meanwhile.  One call of the data layer is one transaction: a *)
(* step, except delete_thread, whose statements choose their rows one by   *)
(* one and take effect together.  The feed and the files of a thread are   *)
(* ChatHistory's subject.                                                  *)
(***************************************************************************)
EXTENDS Login

CONSTANTS Tab, Thread,
          Conf,       \* the configuration of each provider
          Chained,    \* the password providers in their order
          RowId,      \* ids of feedbacks and elements
          MaxLogins, MaxChanges, MaxOutages, MaxWrites

ASSUME TablesAssumption ==
  /\ Chained \in Seq({"local", "ldap"})
  /\ {MaxLogins, MaxChanges, MaxOutages, MaxWrites} \subseteq Nat

VARIABLES
  past,     \* memberOf of everybody, after each change of the directory
  tabs,      \* what a tab is doing
  users,    \* table users; the id is the place in the table
  threads,  \* table threads
  attached,     \* tables feedbacks and elements
  late,     \* rows written after a deletion of their thread began
  gone,     \* threads a deletion of has begun
  logins, outages, writes

logging == <<past, users, logins, outages>>
writing == <<threads, attached, late, gone, writes>>
tableVars == <<tabs, logging, writing>>

NoRow == [there |-> FALSE, owner |-> 0]
Out == [at |-> "out"]
groups == Last(past)

TablesInit ==
  /\ \E g \in [User -> SUBSET Group] : past = <<g>>
  /\ tabs = [t \in Tab |-> Out]
  /\ users = <<>> /\ threads = [h \in Thread |-> NoRow] /\ attached = {}
  /\ late = {} /\ gone = {}
  /\ logins = 0 /\ outages = 0 /\ writes = 0

\* Someone changes the groups of a user in the directory.
Change(u, g) ==
  /\ Len(past) <= MaxChanges
  /\ g # groups[u]
  /\ past' = Append(past, [groups EXCEPT ![u] = g])
  /\ UNCHANGED <<tabs, users, logins, outages, writing>>

Set(t, state) == tabs' = [tabs EXCEPT ![t] = state]

-----------------------------------------------------------------------------
(* Logins                                                                  *)

UnderWay == {"asking", "saving", "cookie"}

\* since: how old the reading of the directory may be that a session finds,
\* which is as old as the oldest login of this user under way.
Since(u) ==
  Min({Len(past)} \cup {tabs[t].since : t \in {x \in Tab : tabs[x].at \in UnderWay /\ tabs[x].user = u}})

Begins(t) == tabs[t] = Out /\ logins < MaxLogins /\ logins' = logins + 1

\* What a login goes on with once the directory is not asked any more
Answered(t, r, answer) ==
  IF IsAdmitted(answer)
    THEN Set(t, [at |-> "saving", user |-> r.user, way |-> r.way, since |-> r.since,
                 provider |-> answer.provider, roles |-> answer.roles, lost |-> FALSE])
  ELSE Set(t, Out)

Nothing == [fault |-> "", groups |-> {}]

\* The SIDs of a ticket are those of the moment it was issued.
Sso(t, u, header) ==
  /\ Begins(t)
  /\ \E k \in {i \in DOMAIN past : i + 1 >= Len(past)} :
       LET r == [at |-> "asking", user |-> u, way |-> "kerberos", since |-> Since(u),
                 sids |-> past[k][u]]
       IN IF ~Passed(Accept(header)) THEN Set(t, Out)
          ELSE IF Conf.kerberos.ldap THEN Set(t, r)
          ELSE Answered(t, r, BuildUser(Conf.kerberos, u, r.sids, Nothing))
  /\ UNCHANGED <<past, users, outages, writing>>

\* What the providers answer; right are those whose password it is.
Answers(u, right, found) ==
  [i \in DOMAIN Chained |->
     IF Chained[i] = "local" THEN LocalSays(Conf.local, u, "local" \in right)
     ELSE LdapSays(Conf.ldap, u, found)]

\* The directory is asked only if no provider before it ends the chain.
AsksDirectory(u, right) ==
  \E i \in DOMAIN Chained :
    /\ Chained[i] = "ldap"
    /\ \A j \in 1..(i - 1) : Answers(u, right, Nothing)[j] \in {None, Unauthenticated}

Password(t, u, right) ==
  /\ Begins(t)
  /\ LET r == [at |-> "asking", user |-> u, way |-> "password", since |-> Since(u),
               right |-> right]
     IN IF AsksDirectory(u, right) THEN Set(t, r)
        ELSE Answered(t, r, Chain(Answers(u, right, Nothing)))
  /\ UNCHANGED <<past, users, outages, writing>>

\* The thread comes back from the directory.
Found(t, found) ==
  LET r == tabs[t] IN
  IF r.way = "kerberos"
    THEN Answered(t, r, BuildUser(Conf.kerberos, r.user, r.sids, found))
  ELSE Answered(t, r, Chain(Answers(r.user, r.right, found)))

Asked(t) ==
  /\ tabs[t].at = "asking"
  /\ LET wrong == tabs[t].way = "password" /\ "ldap" \notin tabs[t].right IN
     \/ /\ Found(t, IF wrong THEN [fault |-> "rejected", groups |-> {}]
                    ELSE [fault |-> "", groups |-> groups[tabs[t].user]])
        /\ UNCHANGED outages
     \/ /\ outages < MaxOutages /\ outages' = outages + 1
        /\ \E f \in Faults \cup {NotFound} : Found(t, [fault |-> f, groups |-> {}])
  /\ UNCHANGED <<past, users, logins, writing>>

IdOf(u) == SelectInSeq(users, LAMBDA x : x.name = u)

\* Mutation: the roles are added to those the row has.
SavedMerged(u, roles) ==
  IF IdOf(u) = 0 THEN Append(users, [name |-> u, roles |-> roles])
  ELSE [users EXCEPT ![IdOf(u)].roles = @ \cup roles]

\* create_user: the row of the name, its meta replaced
Saved(u, roles) ==
  IF IdOf(u) = 0 THEN Append(users, [name |-> u, roles |-> roles])
  ELSE [users EXCEPT ![IdOf(u)].roles = roles]

SaveUser(t) ==
  /\ tabs[t].at = "saving"
  /\ users' = Saved(tabs[t].user, tabs[t].roles)
  /\ Set(t, [tabs[t] EXCEPT !.at = "cookie"])
  /\ UNCHANGED <<past, logins, outages, writing>>

\* auth_sso answers 500; the password route of chainlit sets the cookie.
SaveFails(t) ==
  /\ tabs[t].at = "saving"
  /\ outages < MaxOutages /\ outages' = outages + 1
  /\ IF tabs[t].way = "kerberos" THEN Set(t, Out)
     ELSE Set(t, [tabs[t] EXCEPT !.at = "cookie", !.lost = TRUE])
  /\ UNCHANGED <<past, users, logins, writing>>

\* chainlit opens a session for the user of the cookie: the row of the name,
\* made from the cookie if there is none
Connect(t) ==
  /\ tabs[t].at = "cookie"
  /\ users' = IF IdOf(tabs[t].user) = 0 THEN Saved(tabs[t].user, tabs[t].roles) ELSE users
  /\ LET id == SelectInSeq(users', LAMBDA x : x.name = tabs[t].user) IN
     Set(t, [at |-> "in", user |-> tabs[t].user, since |-> tabs[t].since, lost |-> tabs[t].lost,
             id |-> id, roles |-> users'[id].roles, thread |-> "none", chosen |-> {}])
  /\ UNCHANGED <<past, logins, outages, writing>>

Logout(t) ==
  /\ tabs[t].at = "in"
  /\ Set(t, Out)
  /\ UNCHANGED <<logging, writing>>

-----------------------------------------------------------------------------
(* Threads                                                                 *)

\* get_thread_author, which chainlit asks before it reopens or deletes
AuthorIs(h, id) == threads[h].there /\ threads[h].owner = id

\* Mutation: the update has the last word about the owner.
UpdatedOutright(h, owner) == [threads EXCEPT ![h] = [there |-> TRUE, owner |-> owner]]

\* update_thread: insert, or coalesce what is given with what is there
Updated(h, owner) ==
  [threads EXCEPT ![h] = [there |-> TRUE, owner |-> IF owner # 0 THEN owner ELSE @.owner]]

Write == writes < MaxWrites /\ writes' = writes + 1

\* The first message of a thread: update_thread with name and user
FirstMessage(t, h) ==
  /\ tabs[t].at = "in" /\ tabs[t].thread = "none" /\ ~threads[h].there /\ h \notin gone
  /\ Write
  /\ threads' = Updated(h, tabs[t].id)
  /\ Set(t, [tabs[t] EXCEPT !.thread = h])
  /\ UNCHANGED <<logging, attached, late, gone>>

Resume(t, h) ==
  /\ tabs[t].at = "in" /\ tabs[t].thread = "none" /\ AuthorIs(h, tabs[t].id)
  /\ Set(t, [tabs[t] EXCEPT !.thread = h])
  /\ UNCHANGED <<logging, writing>>

\* The settings of the chat, or what a session leaves: update_thread with
\* metadata alone, of a thread that another tab may have deleted
KeepMetadata(t) ==
  /\ tabs[t].at = "in" /\ tabs[t].thread # "none"
  /\ Write
  /\ threads' = Updated(tabs[t].thread, 0)
  /\ UNCHANGED <<tabs, logging, attached, late, gone>>

\* upsert_feedback and create_element; a row that is being deleted is locked
AddRow(t, k) ==
  /\ tabs[t].at = "in" /\ tabs[t].thread # "none"
  /\ \A x \in Tab : tabs[x].at = "deleting" => \A r \in tabs[x].chosen : r.id # k
  /\ Write
  /\ attached' = {r \in attached : r.id # k} \cup {[id |-> k, thread |-> tabs[t].thread]}
  /\ late' = IF tabs[t].thread \in gone THEN late \cup {k} ELSE late \ {k}
  /\ UNCHANGED <<tabs, logging, threads, gone>>

\* delete_feedback, delete_element and delete_step
RemoveRow(t, k) ==
  /\ tabs[t].at = "in" /\ tabs[t].thread # "none"
  /\ Write
  /\ attached' = {r \in attached : r.id # k}
  /\ UNCHANGED <<tabs, logging, threads, late, gone>>

\* delete_thread: rows are chosen, then the thread, then all is committed.
BeginDelete(t, h) ==
  /\ tabs[t].at = "in" /\ AuthorIs(h, tabs[t].id)
  /\ Write
  /\ gone' = gone \cup {h}
  /\ Set(t, [tabs[t] EXCEPT !.at = "deleting", !.thread = h,
                           !.chosen = {r \in attached : r.thread = h}])
  /\ UNCHANGED <<logging, threads, attached, late>>

Closed(t) == Set(t, [tabs[t] EXCEPT !.at = "in", !.thread = "none", !.chosen = {}])

\* Mutation: every statement is committed by itself, the thread's first.
CommitDeleteApart(t) ==
  /\ tabs[t].at = "deleting"
  /\ threads' = [threads EXCEPT ![tabs[t].thread] = NoRow]
  /\ \E left \in SUBSET tabs[t].chosen : attached' = attached \ left
  /\ Closed(t)
  /\ UNCHANGED <<logging, late, gone, writes>>

CommitDelete(t) ==
  /\ tabs[t].at = "deleting"
  /\ threads' = [threads EXCEPT ![tabs[t].thread] = NoRow]
  /\ attached' = attached \ tabs[t].chosen
  /\ Closed(t)
  /\ UNCHANGED <<logging, late, gone, writes>>

RollbackDelete(t) ==
  /\ tabs[t].at = "deleting"
  /\ outages < MaxOutages /\ outages' = outages + 1
  /\ Closed(t)
  /\ UNCHANGED <<past, users, logins, writing>>

TablesNext ==
  \/ \E u \in User, g \in SUBSET Group : Change(u, g)
  \/ \E t \in Tab, u \in User, header \in Headers : Sso(t, u, header)
  \/ \E t \in Tab, u \in User, right \in SUBSET {"local", "ldap"} : Password(t, u, right)
  \/ \E t \in Tab : Asked(t)
  \/ \E t \in Tab : SaveUser(t)
  \/ \E t \in Tab : SaveFails(t)
  \/ \E t \in Tab : Connect(t)
  \/ \E t \in Tab : Logout(t)
  \/ \E t \in Tab, h \in Thread : FirstMessage(t, h)
  \/ \E t \in Tab, h \in Thread : Resume(t, h)
  \/ \E t \in Tab : KeepMetadata(t)
  \/ \E t \in Tab, k \in RowId : AddRow(t, k)
  \/ \E t \in Tab, k \in RowId : RemoveRow(t, k)
  \/ \E t \in Tab, h \in Thread : BeginDelete(t, h)
  \/ \E t \in Tab : CommitDelete(t)
  \/ \E t \in Tab : RollbackDelete(t)

-----------------------------------------------------------------------------
(* Every role some source gives a user who is in these groups              *)
Possible(u, g) ==
  LET Directory(c) == RolesOf(c.sam, {u}) \cup RolesOf(c.memberOf, g) \cup RolesOf(c.dn, {u})
  IN RolesOf(Conf.kerberos.principal, {u}) \cup RolesOf(Conf.kerberos.sid, g)
     \cup Directory(Conf.kerberos) \cup Directory(Conf.ldap) \cup RolesOf(Conf.local.local, {u})

(***************************************************************************)
(* A session has no role that nothing gives its user any more: its roles   *)
(* are at most as old as the oldest login of the user that was under way   *)
(* when its own began, a ticket being one change older.  The exception is  *)
(* a password login that could not be saved, which gets the roles of an    *)
(* earlier one.                                                            *)
(***************************************************************************)
RolesAreFresh ==
  \A t \in Tab : tabs[t].at = "in" /\ ~tabs[t].lost =>
    \A r \in tabs[t].roles :
      \E k \in (tabs[t].since - 1)..Len(past) : k > 0 /\ r \in Possible(tabs[t].user, past[k][tabs[t].user])

(***************************************************************************)
(* A thread stays its author's until it is deleted.  A row without an      *)
(* author is what a late update makes of a deleted thread.                 *)
(***************************************************************************)
ThreadsKeepAuthors ==
  \A h \in Thread : threads[h].there /\ threads[h].owner = 0 => h \in gone

(***************************************************************************)
(* A deleted thread leaves no feedback and no attachment behind, but what  *)
(* was written after its deletion had begun.                               *)
(***************************************************************************)
OrphansAreLate ==
  \A r \in attached : ~threads[r.thread].there => r.id \in late
=============================================================================
