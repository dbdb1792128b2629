---------------------------- MODULE AccessProofs ----------------------------
(***************************************************************************)
(* Theorems about who gets in and as what: connections and their grants,   *)
(* for any callers of the store, any names and any targets; users, their   *)
(* threads and sessions, for any tabs, people, groups and providers; the   *)
(* keytab connections of KerberosEnv, for any connections, credentials and *)
(* threads, with cancellation at any await; and delegated tickets, for any *)
(* principals, callers and logins.                                         *)
(***************************************************************************)
EXTENDS Accounts, Kerberos, TLAPS, FiniteSetTheorems, SequenceTheorems

ConnectionsSpec == ConnectionsInit /\ [][ConnectionsNext]_connVars
AccountsSpec == AccountsInit /\ [][AccountsNext]_accountVars

ConnRow == [id : Nat, name : Name, born : Nat]
GrantRow == [src : Nat, tgt : Target]
Between == {Idle} \cup [at : {"deleting"}, name : Name]
                  \cup [at : {"granting", "revoking"}, name : Name, id : Nat, tgt : Target]

ConnTyped ==
  /\ conns \subseteq ConnRow /\ nextId \in Nat /\ grants \subseteq GrantRow
  /\ task \in [Task -> Between]

\* The identity column only grows: an id is that of one row for ever.
IdsAreFresh ==
  /\ \A c \in conns : c.born = c.id /\ c.id < nextId
  /\ \A c, d \in conns : c.id = d.id => c = d

\* A caller that is about to grant asked for the row it has looked up, and no
\* other row has got that id since.
LookupStands ==
  \A a \in Task : task[a].at = "granting" =>
    /\ <<task[a].id, task[a].tgt>> \in asked /\ task[a].id < nextId
    /\ \A c \in conns : c.id = task[a].id => c.name = task[a].name

GrantsWereAsked ==
  \A g \in grants : <<g.src, g.tgt>> \in asked /\ g.src < nextId

\* What a deletion will leave without its row was written during it.
DeletionSweeps ==
  \A a \in Task : task[a].at = "deleting" =>
    \A g \in grants : \A c \in conns :
      c.name = task[a].name /\ c.id = g.src => g \in raced

RowOrRaced == \A g \in grants : g.src \in Ids \/ g \in raced

ConnInv ==
  ConnTyped /\ IdsAreFresh /\ LookupStands /\ GrantsWereAsked /\ DeletionSweeps /\ RowOrRaced

-----------------------------------------------------------------------------
\* Nothing is granted before the first connection is saved.
LEMMA ConnInvInit == ConnectionsInit => ConnInv
  BY DEF ConnectionsInit, ConnInv, ConnTyped, IdsAreFresh, LookupStands, GrantsWereAsked,
         DeletionSweeps, RowOrRaced, Between, Idle

\* The invariant gives the property.
LEMMA ConnInvGrants == ConnInv => GrantsFollowRows
<1> SUFFICES ASSUME ConnInv PROVE GrantsFollowRows
  OBVIOUS
<1>1. ASSUME NEW t \in Target, NEW c \in Visible(t) PROVE <<c.born, t>> \in asked
  BY DEF ConnInv, Visible, IdsAreFresh, GrantsWereAsked
<1> QED
  BY <1>1 DEF GrantsFollowRows, ConnInv, RowOrRaced

\* A caller that ends or gives up, or begins something else than a deletion or
\* a grant, leaves every other caller as it was.
LEMMA OtherTasks ==
  ASSUME ConnTyped, NEW a \in Task, NEW w, task' = [task EXCEPT ![a] = w]
  PROVE  \A b \in Task : task'[b] = IF b = a THEN w ELSE task[b]
  BY DEF ConnTyped

\* Saving, the first statement of a deletion and its second one keep it.
LEMMA SaveKeeps == ASSUME ConnInv, NEW n \in Name, Save(n) PROVE ConnInv'
<1>1. CASE conns' = conns /\ nextId' = nextId
  BY <1>1 DEF Save, ConnInv, ConnTyped, IdsAreFresh, LookupStands, GrantsWereAsked,
              DeletionSweeps, RowOrRaced, Ids
<1>2. CASE conns' = conns \cup {[id |-> nextId, name |-> n, born |-> nextId]}
           /\ nextId' = nextId + 1
  <2> DEFINE new == [id |-> nextId, name |-> n, born |-> nextId]
  <2>0. UNCHANGED <<grants, task, asked, raced>>
    BY DEF Save
  <2>1. ConnTyped'
    BY <1>2, <2>0 DEF ConnInv, ConnTyped, ConnRow
  <2>2. IdsAreFresh'
    <3>1. \A c \in conns : c.id \in Nat /\ c.id < nextId /\ c.born = c.id
      BY DEF ConnInv, ConnTyped, IdsAreFresh, ConnRow
    <3>2. new.id = nextId /\ new.born = nextId /\ nextId \in Nat
      BY DEF ConnInv, ConnTyped
    <3>3. \A c \in conns' : c.born = c.id /\ c.id < nextId'
      BY <1>2, <3>1, <3>2
    <3>4. ASSUME NEW c \in conns', NEW d \in conns', c.id = d.id PROVE c = d
      <4>1. c \in conns \/ c = new
        BY <1>2
      <4>2. d \in conns \/ d = new
        BY <1>2
      <4> QED
        BY <4>1, <4>2, <3>1, <3>2, <3>4 DEF ConnInv, IdsAreFresh
    <3> QED
      BY <3>3, <3>4 DEF IdsAreFresh
  <2>3. LookupStands'
    <3> SUFFICES ASSUME NEW a \in Task, task[a].at = "granting"
                 PROVE  /\ <<task[a].id, task[a].tgt>> \in asked /\ task[a].id < nextId + 1
                        /\ \A c \in conns' : c.id = task[a].id => c.name = task[a].name
      BY <1>2, <2>0 DEF LookupStands
    <3>1. /\ <<task[a].id, task[a].tgt>> \in asked /\ task[a].id < nextId
          /\ \A c \in conns : c.id = task[a].id => c.name = task[a].name
      BY DEF ConnInv, LookupStands
    <3>2. task[a].id \in Nat /\ nextId \in Nat
      BY DEF ConnInv, ConnTyped, Between, Idle
    <3> QED
      BY <3>1, <3>2, <1>2
  <2>4. \A g \in grants : g.src \in Nat /\ g.src < nextId /\ nextId \in Nat
    BY DEF ConnInv, ConnTyped, GrantsWereAsked, GrantRow
  <2>5. GrantsWereAsked'
    <3> SUFFICES ASSUME NEW g \in grants
                 PROVE  <<g.src, g.tgt>> \in asked /\ g.src < nextId + 1
      BY <1>2, <2>0 DEF GrantsWereAsked
    <3>1. <<g.src, g.tgt>> \in asked
      BY DEF ConnInv, GrantsWereAsked
    <3> QED
      BY <3>1, <2>4
  <2>6. DeletionSweeps'
    BY <1>2, <2>0, <2>4 DEF ConnInv, DeletionSweeps
  <2>7. RowOrRaced'
    BY <1>2, <2>0 DEF ConnInv, RowOrRaced, Ids
  <2> QED
    BY <2>1, <2>2, <2>3, <2>5, <2>6, <2>7 DEF ConnInv
<1> QED
  BY <1>1, <1>2 DEF Save

\* Deleting drops the grants of the rows of that name, so what is found later
\* on them was written later.
LEMMA DeleteKeeps ==
  ASSUME ConnInv, NEW a \in Task, NEW n \in Name, Delete(a, n) PROVE ConnInv'
<1> DEFINE what == [at |-> "deleting", name |-> n]
<1>0. /\ task' = [task EXCEPT ![a] = what]
      /\ grants' = {g \in grants : \A c \in Named(n) : g.src # c.id}
      /\ UNCHANGED <<conns, nextId, asked, raced>>
  BY DEF Delete, BeginTask, DropGrants
<1>1. \A b \in Task : task'[b] = IF b = a THEN what ELSE task[b]
  BY <1>0, OtherTasks DEF ConnInv
<1>2. ConnTyped'
  BY <1>0 DEF ConnInv, ConnTyped, Between
<1>3. LookupStands'
  BY <1>0, <1>1 DEF ConnInv, LookupStands
<1>4. DeletionSweeps'
  <2> SUFFICES ASSUME NEW b \in Task, task'[b].at = "deleting", NEW g \in grants',
                      NEW c \in conns, c.name = task'[b].name, c.id = g.src
               PROVE  g \in raced
    BY <1>0 DEF DeletionSweeps
  <2>1. b # a
    BY <1>0, <1>1 DEF Named
  <2> QED
    BY <2>1, <1>0, <1>1 DEF ConnInv, DeletionSweeps
<1>5. IdsAreFresh' /\ GrantsWereAsked' /\ RowOrRaced'
  BY <1>0 DEF ConnInv, IdsAreFresh, GrantsWereAsked, RowOrRaced, Ids
<1> QED
  BY <1>2, <1>3, <1>4, <1>5 DEF ConnInv

\* The rows go, and the only grants left on them were written meanwhile.
LEMMA DeleteEndsKeeps == ASSUME ConnInv, NEW a \in Task, DeleteEnds(a) PROVE ConnInv'
<1>0. /\ task[a].at = "deleting"
      /\ task' = [task EXCEPT ![a] = Idle]
      /\ conns' = conns \ Named(task[a].name)
      /\ UNCHANGED <<nextId, grants, asked, raced>>
  BY DEF DeleteEnds, DropRow
<1>1. \A b \in Task : task'[b] = IF b = a THEN Idle ELSE task[b]
  BY <1>0, OtherTasks DEF ConnInv
<1>2. ConnTyped'
  BY <1>0 DEF ConnInv, ConnTyped, Between
<1>3. IdsAreFresh' /\ GrantsWereAsked'
  BY <1>0 DEF ConnInv, IdsAreFresh, GrantsWereAsked
<1>4. LookupStands'
  BY <1>0, <1>1 DEF ConnInv, LookupStands, Idle
<1>5. DeletionSweeps'
  BY <1>0, <1>1 DEF ConnInv, DeletionSweeps, Idle
<1>6. RowOrRaced'
  <2> SUFFICES ASSUME NEW g \in grants, g \notin raced PROVE \E c \in conns' : c.id = g.src
    BY <1>0 DEF RowOrRaced, Ids
  <2>1. PICK c \in conns : c.id = g.src
    BY DEF ConnInv, RowOrRaced, Ids
  <2>2. c.name # task[a].name
    BY <1>0, <2>1 DEF ConnInv, DeletionSweeps
  <2> QED
    BY <1>0, <2>1, <2>2 DEF Named
<1> QED
  BY <1>2, <1>3, <1>4, <1>5, <1>6 DEF ConnInv

-----------------------------------------------------------------------------
\* Who looks a row up asks for that row; revoking asks for nothing.
LEMMA LookUpKeeps ==
  ASSUME ConnInv, NEW a \in Task, NEW n \in Name, NEW t \in Target,
         NEW op \in {"granting", "revoking"}, LookUp(a, n, op, t)
  PROVE  ConnInv'
<1>0. PICK c \in Named(n) :
        /\ task' = [task EXCEPT ![a] = [at |-> op, name |-> n, id |-> c.id, tgt |-> t]]
        /\ asked' = IF op = "granting" THEN asked \cup {<<c.born, t>>} ELSE asked
        /\ UNCHANGED <<conns, nextId, grants, raced>>
  BY DEF LookUp, BeginTask
<1> DEFINE what == [at |-> op, name |-> n, id |-> c.id, tgt |-> t]
<1>1. \A b \in Task : task'[b] = IF b = a THEN what ELSE task[b]
  BY <1>0, OtherTasks DEF ConnInv
<1>2. c \in conns /\ c.name = n /\ c.id \in Nat /\ c.born = c.id /\ c.id < nextId
  BY DEF Named, ConnInv, ConnTyped, ConnRow, IdsAreFresh
<1>3. ConnTyped'
  <2>1. what \in Between
    BY <1>2 DEF Between
  <2> QED
    BY <1>0, <2>1 DEF ConnInv, ConnTyped
<1>4. LookupStands'
  <2> SUFFICES ASSUME NEW b \in Task, task'[b].at = "granting"
               PROVE  /\ <<task'[b].id, task'[b].tgt>> \in asked' /\ task'[b].id < nextId
                      /\ \A d \in conns : d.id = task'[b].id => d.name = task'[b].name
    BY <1>0 DEF LookupStands
  <2>1. CASE b = a
    <3>1. /\ task'[b] = what /\ op = "granting" /\ what.id = c.id /\ what.tgt = t
          /\ what.name = n
      BY <1>1, <2>1
    <3>2. <<c.id, t>> \in asked'
      BY <1>0, <1>2, <3>1
    <3>3. \A d \in conns : d.id = c.id => d = c
      BY <1>2 DEF ConnInv, IdsAreFresh
    <3> QED
      BY <3>1, <3>2, <3>3, <1>2
  <2>2. CASE b # a
    BY <2>2, <1>0, <1>1 DEF ConnInv, LookupStands
  <2> QED
    BY <2>1, <2>2
<1>5. DeletionSweeps'
  BY <1>0, <1>1 DEF ConnInv, DeletionSweeps
<1>6. IdsAreFresh' /\ GrantsWereAsked' /\ RowOrRaced'
  BY <1>0 DEF ConnInv, IdsAreFresh, GrantsWereAsked, RowOrRaced, Ids
<1> QED
  BY <1>3, <1>4, <1>5, <1>6 DEF ConnInv

\* A grant is for the row that was asked for; if that is gone or going, the
\* grant is one of those written meanwhile.
LEMMA GrantKeeps == ASSUME ConnInv, NEW a \in Task, Grant(a) PROVE ConnInv'
<1> DEFINE g == [src |-> task[a].id, tgt |-> task[a].tgt]
<1>0. /\ task[a].at = "granting" /\ task' = [task EXCEPT ![a] = Idle]
      /\ grants' = grants \cup {g}
      /\ raced' = IF BeingDeleted(task[a].name, g.src) THEN raced \cup {g} ELSE raced
      /\ UNCHANGED <<conns, nextId, asked>>
  BY DEF Grant
<1>1. \A b \in Task : task'[b] = IF b = a THEN Idle ELSE task[b]
  BY <1>0, OtherTasks DEF ConnInv
<1>2. /\ g.src = task[a].id /\ g.tgt = task[a].tgt /\ g \in GrantRow
      /\ <<g.src, g.tgt>> \in asked /\ g.src < nextId
      /\ \A c \in conns : c.id = g.src => c.name = task[a].name
  <2>1. task[a].id \in Nat /\ task[a].tgt \in Target
    BY <1>0 DEF ConnInv, ConnTyped, Between, Idle
  <2> QED
    BY <1>0, <2>1 DEF ConnInv, LookupStands, GrantRow
<1>3. ConnTyped'
  BY <1>0, <1>2 DEF ConnInv, ConnTyped, Between
<1>4. LookupStands'
  BY <1>0, <1>1 DEF ConnInv, LookupStands, Idle
<1>5. GrantsWereAsked'
  BY <1>0, <1>2 DEF ConnInv, GrantsWereAsked
<1>6. DeletionSweeps'
  <2> SUFFICES ASSUME NEW b \in Task, task'[b].at = "deleting", NEW h \in grants',
                      NEW c \in conns, c.name = task'[b].name, c.id = h.src
               PROVE  h \in raced'
    BY <1>0 DEF DeletionSweeps
  <2>1. task'[b] = task[b]
    BY <1>1 DEF Idle
  <2>2. CASE h = g
    <3>1. BeingDeleted(task[a].name, g.src)
      BY <2>1, <2>2, <1>2 DEF BeingDeleted
    <3> QED
      BY <3>1, <2>2, <1>0
  <2>3. CASE h \in grants
    BY <2>1, <2>3, <1>0 DEF ConnInv, DeletionSweeps
  <2> QED
    BY <2>2, <2>3, <1>0
<1>7. RowOrRaced'
  <2>1. g.src \in Ids \/ g \in raced'
    BY <1>0 DEF BeingDeleted
  <2> QED
    BY <2>1, <1>0 DEF ConnInv, RowOrRaced, Ids
<1>8. IdsAreFresh'
  BY <1>0 DEF ConnInv, IdsAreFresh
<1> QED
  BY <1>3, <1>4, <1>5, <1>6, <1>7, <1>8 DEF ConnInv

\* A caller that revokes, or gives up between its statements, only takes away.
LEMMA LessKeeps ==
  ASSUME ConnInv, NEW a \in Task, Revoke(a) \/ Abandon(a) PROVE ConnInv'
<1>0. /\ task' = [task EXCEPT ![a] = Idle] /\ grants' \subseteq grants
      /\ UNCHANGED <<conns, nextId, asked, raced>>
  BY DEF Revoke, Abandon
<1>1. \A b \in Task : task'[b] = IF b = a THEN Idle ELSE task[b]
  BY <1>0, OtherTasks DEF ConnInv
<1>2. ConnTyped'
  BY <1>0 DEF ConnInv, ConnTyped, Between
<1>3. LookupStands'
  BY <1>0, <1>1 DEF ConnInv, LookupStands, Idle
<1>4. DeletionSweeps'
  BY <1>0, <1>1 DEF ConnInv, DeletionSweeps, Idle
<1>5. IdsAreFresh' /\ GrantsWereAsked' /\ RowOrRaced'
  BY <1>0 DEF ConnInv, IdsAreFresh, GrantsWereAsked, RowOrRaced, Ids
<1> QED
  BY <1>2, <1>3, <1>4, <1>5 DEF ConnInv

\* Every statement of every caller keeps it.
LEMMA ConnInvStep == ConnInv /\ [ConnectionsNext]_connVars => ConnInv'
<1> SUFFICES ASSUME ConnInv, [ConnectionsNext]_connVars PROVE ConnInv'
  OBVIOUS
<1>1. CASE UNCHANGED connVars
  BY <1>1 DEF connVars, ConnInv, ConnTyped, IdsAreFresh, LookupStands, GrantsWereAsked,
              DeletionSweeps, RowOrRaced, Ids
<1>2. CASE ConnectionsNext
  BY <1>2, SaveKeeps, DeleteKeeps, DeleteEndsKeeps, LookUpKeeps, GrantKeeps, LessKeeps
  DEF ConnectionsNext
<1> QED
  BY <1>1, <1>2

-----------------------------------------------------------------------------
\* Whatever is deleted, saved anew, granted and given up between statements,
\* who sees a connection was granted that very row, and a deleted connection
\* leaves no grant but those written while it was being deleted.
THEOREM GrantsFollow == AccountsSpec => []GrantsFollowRows
<1>1. AccountsInit => ConnInv
  BY ConnInvInit DEF AccountsInit
<1>2. ConnInv /\ [AccountsNext]_accountVars => ConnInv'
  <2>1. [AccountsNext]_accountVars => [ConnectionsNext]_connVars
    BY DEF AccountsNext, accountVars
  <2> QED
    BY <2>1, ConnInvStep
<1> QED
  BY <1>1, <1>2, ConnInvGrants, PTL DEF AccountsSpec

-----------------------------------------------------------------------------
(* Users, their threads and their tabs                                     *)

AllRoles == UNION {Possible(u, Group) : u \in User}
UserRow == [name : User, roles : SUBSET AllRoles]
ThreadRow == [there : BOOLEAN, owner : Nat]
AttachedRow == [id : RowId, thread : Thread]

AskingTab ==
  [at : {"asking"}, user : User, way : {"kerberos"}, since : Nat, sids : SUBSET Group]
  \cup [at : {"asking"}, user : User, way : {"password"}, since : Nat, right : SUBSET {"local", "ldap"}]
Sources == {"", "kerberos", "local", "ldap"}
LoggingTab ==
  [at : {"saving", "cookie"}, user : User, way : {"kerberos", "password"}, since : Nat,
   provider : Sources, roles : SUBSET AllRoles, lost : BOOLEAN]
SessionTab ==
  [at : {"in", "deleting"}, user : User, since : Nat, lost : BOOLEAN, id : Nat \ {0},
   roles : SUBSET AllRoles, thread : Thread \cup {"none"}, chosen : SUBSET AttachedRow]

TabState == {Out} \cup AskingTab \cup LoggingTab \cup SessionTab

TablesTyped ==
  /\ past \in Seq([User -> SUBSET Group]) /\ past # <<>>
  /\ tabs \in [Tab -> TabState]
  /\ users \in Seq(UserRow)
  /\ threads \in [Thread -> ThreadRow] /\ attached \subseteq AttachedRow /\ gone \subseteq Thread

\* A tab deletes a thread it has announced, and the thread another tab has open
\* is there unless some deletion of it has begun.
OpenOrGone ==
  \A t \in Tab :
    /\ tabs[t].at = "deleting" => tabs[t].thread \in gone
    /\ tabs[t].at = "in" /\ tabs[t].thread # "none" =>
         threads[tabs[t].thread].there \/ tabs[t].thread \in gone

\* What a deletion has not chosen came after it.
ChosenOrLate ==
  \A t \in Tab : tabs[t].at = "deleting" =>
    \A r \in attached : r.thread = tabs[t].thread => r \in tabs[t].chosen \/ r.id \in late

ThreadsInv == OpenOrGone /\ ChosenOrLate /\ ThreadsKeepAuthors /\ OrphansAreLate

\* Some source gave the user each of these roles since then.
Granted(u, since, roles) ==
  \A r \in roles : \E k \in (since - 1)..Len(past) : k > 0 /\ r \in Possible(u, past[k][u])

\* The logins of one user that are under way are as old as the oldest of them.
SinceIsShared ==
  \A t \in Tab : tabs[t].at \in UnderWay =>
    /\ tabs[t].since \in 1..Len(past)
    /\ \A x \in Tab : tabs[x].at \in UnderWay /\ tabs[x].user = tabs[t].user =>
         tabs[x].since = tabs[t].since

TicketsAreFresh ==
  \A t \in Tab : tabs[t].at = "asking" /\ tabs[t].way = "kerberos" =>
    \E k \in (tabs[t].since - 1)..Len(past) : k > 0 /\ tabs[t].sids = past[k][tabs[t].user]

LoginsAreFresh ==
  \A t \in Tab : tabs[t].at \in {"saving", "cookie"} => Granted(tabs[t].user, tabs[t].since, tabs[t].roles)

\* A login that has saved its roles finds roles as fresh.
RowsAreFresh ==
  \A t \in Tab : tabs[t].at = "cookie" /\ ~tabs[t].lost =>
    /\ IdOf(tabs[t].user) # 0
    /\ Granted(tabs[t].user, tabs[t].since, users[IdOf(tabs[t].user)].roles)

SessionsAreFresh ==
  \A t \in Tab : tabs[t].at \in {"in", "deleting"} /\ ~tabs[t].lost =>
    Granted(tabs[t].user, tabs[t].since, tabs[t].roles)

LoginInv ==
  SinceIsShared /\ TicketsAreFresh /\ LoginsAreFresh /\ RowsAreFresh /\ SessionsAreFresh

TablesInv == TablesTyped /\ ThreadsInv /\ LoginInv

-----------------------------------------------------------------------------
\* A set of numbers has a least one.
LEMMA LeastOf ==
  ASSUME NEW S \in SUBSET Nat, S # {}
  PROVE  Min(S) \in S /\ \A n \in S : Min(S) <= n
<1>1. PICK m \in S : \A n \in S : ~(<<n, m>> \in OpToRel(<, Nat))
  BY NatLessThanWellFounded, WFMin
<1>2. \A n, k \in Nat : n < k => <<n, k>> \in OpToRel(<, Nat)
  BY Zenon DEF OpToRel
<1>3. \A n \in S : ~(n < m)
  BY <1>1, <1>2, Zenon
<1>4. \A n \in S : m <= n
  BY <1>3
<1> QED
  BY <1>4 DEF Min

\* The row of a user is the first of that name.
LEMMA RowOfUser ==
  ASSUME NEW u, users \in Seq(UserRow)
  PROVE  IF \E i \in 1..Len(users) : users[i].name = u
         THEN IdOf(u) \in 1..Len(users) /\ users[IdOf(u)].name = u
         ELSE IdOf(u) = 0
<1> DEFINE I == {i \in 1..Len(users) : users[i].name = u}
<1>1. IdOf(u) = IF I # {} THEN Min(I) ELSE 0
  BY DEF IdOf, SelectInSeq
<1>2. I \in SUBSET Nat
  OBVIOUS
<1>3. I # {} => Min(I) \in I
  BY <1>2, LeastOf
<1> QED
  BY <1>1, <1>3

\* The row that is saved has the roles, and every other row is as before.
LEMMA SavedRow ==
  ASSUME users \in Seq(UserRow), NEW u \in User, NEW roles \in SUBSET AllRoles,
         users' = Saved(u, roles)
  PROVE  /\ users' \in Seq(UserRow)
         /\ IdOf(u)' \in 1..Len(users') /\ users'[IdOf(u)'].roles = roles
         /\ \A v \in User : v # u /\ IdOf(v) # 0 =>
              IdOf(v)' # 0 /\ users'[IdOf(v)'].roles = users[IdOf(v)].roles
<1> DEFINE I(v) == {i \in 1..Len(users) : users[i].name = v}
           J(v) == {i \in 1..Len(users') : users'[i].name = v}
<1>1. \A v : IdOf(v) = IF I(v) # {} THEN Min(I(v)) ELSE 0
  BY DEF IdOf, SelectInSeq
<1>2. \A v : IdOf(v)' = IF J(v) # {} THEN Min(J(v)) ELSE 0
  BY DEF IdOf, SelectInSeq
<1>3. \A v : I(v) \in SUBSET Nat /\ J(v) \in SUBSET Nat
  OBVIOUS
<1>4. \A v : I(v) # {} => Min(I(v)) \in I(v)
  BY <1>3, LeastOf
<1>5. \A v : J(v) # {} => Min(J(v)) \in J(v)
  BY <1>3, LeastOf
<1>6. CASE IdOf(u) = 0
  <2> DEFINE new == [name |-> u, roles |-> roles]
  <2>1. users' = Append(users, new) /\ new \in UserRow
    BY <1>6 DEF Saved, UserRow
  <2>2. /\ users' \in Seq(UserRow) /\ Len(users') = Len(users) + 1 /\ Len(users) \in Nat
        /\ \A i \in 1..Len(users) : users'[i] = users[i]
        /\ users'[Len(users) + 1] = new
    BY <2>1
  <2>3. \A v : v # u => J(v) = I(v)
    BY <2>2
  <2>4. I(u) = {}
    <3>1. 0 \notin I(u)
      BY <2>2
    <3> QED
      BY <1>1, <1>4, <1>6, <3>1
  <2>5. J(u) = {Len(users) + 1}
    BY <2>2, <2>4
  <2>6. IdOf(u)' = Len(users) + 1
    BY <1>2, <1>5, <2>5
  <2>7. ASSUME NEW v \in User, v # u, IdOf(v) # 0
        PROVE  IdOf(v)' # 0 /\ users'[IdOf(v)'].roles = users[IdOf(v)].roles
    <3>1. IdOf(v)' = IdOf(v)
      BY <1>1, <1>2, <2>3, <2>7
    <3>2. IdOf(v) \in I(v)
      BY <1>1, <1>4, <2>7
    <3> QED
      BY <2>2, <2>7, <3>1, <3>2
  <2> QED
    BY <2>2, <2>6, <2>7
<1>7. CASE IdOf(u) # 0
  <2>1. users' = [users EXCEPT ![IdOf(u)].roles = roles]
    BY <1>7 DEF Saved
  <2>2. IdOf(u) \in 1..Len(users)
    BY <1>1, <1>4, <1>7
  <2>3. /\ users' \in Seq(UserRow) /\ Len(users') = Len(users)
        /\ \A i \in 1..Len(users) : users'[i].name = users[i].name
        /\ users'[IdOf(u)].roles = roles
        /\ \A i \in 1..Len(users) : i # IdOf(u) => users'[i] = users[i]
    <3>1. PICK k \in 1..Len(users) : k = IdOf(u)
      BY <2>2
    <3>2. PICK row : row = [users[k] EXCEPT !.roles = roles]
      OBVIOUS
    <3>3. users[k] \in UserRow
      OBVIOUS
    <3>4. row \in UserRow /\ row.name = users[k].name /\ row.roles = roles
      BY <3>2, <3>3 DEF UserRow
    <3>5. users' = [users EXCEPT ![k] = row]
      BY <2>1, <3>1, <3>2
    <3>6. /\ users' \in Seq(UserRow) /\ Len(users') = Len(users) /\ users'[k] = row
          /\ \A i \in 1..Len(users) : i # k => users'[i] = users[i]
      BY <3>4, <3>5
    <3> QED
      BY <3>1, <3>4, <3>6
  <2>4. \A v : J(v) = I(v)
    BY <2>3
  <2>5. \A v : IdOf(v)' = IdOf(v)
    BY <1>1, <1>2, <2>4
  <2>6. ASSUME NEW v \in User, v # u, IdOf(v) # 0 PROVE IdOf(v) # IdOf(u) /\ IdOf(v) \in 1..Len(users)
    BY <1>1, <1>4, <1>7, <2>6
  <2> QED
    BY <2>2, <2>3, <2>5, <2>6
<1> QED
  BY <1>6, <1>7

-----------------------------------------------------------------------------
(* What a login is answered                                                *)

Statuses == {"in", "none", "401", "403", "500", "503"}
AnswerWith(R) ==
  [status : Statuses, name : User \cup {""}, provider : Sources, roles : SUBSET R]

\* An answer that admits nobody gives no role.
LEMMA RefusalsGiveNothing ==
  ASSUME NEW R
  PROVE  /\ {None, Unauthenticated, Forbidden, Internal, Unavailable} \subseteq AnswerWith(R)
         /\ \A fault, own : LdapAnswer(fault, own) \in AnswerWith(R)
<1>1. \A code \in Statuses : Refused(code) \in AnswerWith(R)
  BY DEF Refused, AnswerWith, Sources
<1>2. {None, Unauthenticated, Forbidden, Internal, Unavailable} \subseteq AnswerWith(R)
  BY <1>1 DEF None, Unauthenticated, Forbidden, Internal, Unavailable, Statuses
<1>3. ASSUME NEW fault, NEW own PROVE LdapAnswer(fault, own) \in AnswerWith(R)
  BY <1>2 DEF LdapAnswer
<1> QED
  BY <1>2, <1>3

\* What is decided gives what the sources have said and nothing else.
LEMMA DecisionsGiveWhatIsSaid ==
  ASSUME NEW R, NEW u \in User, NEW provider \in Sources, NEW heard, NEW required,
         \A i \in DOMAIN heard : heard[i].roles \subseteq R
  PROVE  Decide(u, provider, heard, required) \in AnswerWith(R)
<1>1. MergeSaid(heard).roles \subseteq R
  BY DEF MergeSaid
<1>2. Admitted(u, provider, MergeSaid(heard).roles) \in AnswerWith(R)
  BY <1>1 DEF Admitted, AnswerWith, Statuses
<1>3. Forbidden \in AnswerWith(R)
  BY RefusalsGiveNothing
<1>4. Decide(u, provider, heard, required) \in {Forbidden, Admitted(u, provider, MergeSaid(heard).roles)}
  <2>1. MergeSaid(heard).excluded \in BOOLEAN
    BY DEF MergeSaid
  <2> QED
    BY <2>1 DEF Decide
<1> QED
  BY <1>2, <1>3, <1>4

\* A role of few groups is a role of more.
LEMMA PossibleGrows ==
  ASSUME NEW u \in User, NEW g, NEW h, g \subseteq h
  PROVE  Possible(u, g) \subseteq Possible(u, h)
  BY DEF Possible, RolesOf

\* The directory says what is possible for the groups it has found.
LEMMA DirectorySaysPossible ==
  ASSUME NEW u \in User, NEW g, NEW c \in {Conf.kerberos, Conf.ldap}
  PROVE  \A i \in 1..3 : DirectorySays(c, u, g)[i].roles \subseteq Possible(u, g)
<1> DEFINE D == RolesOf(c.sam, {u}) \cup RolesOf(c.memberOf, g) \cup RolesOf(c.dn, {u})
<1>1. \A i \in 1..3 : DirectorySays(c, u, g)[i].roles \subseteq D
  BY DEF DirectorySays, SaidBy
<1>2. D \subseteq Possible(u, g)
  BY DEF Possible
<1> QED
  BY <1>1, <1>2

\* Two and three of a sequence are the five of both.
LEMMA TwoThenThree ==
  ASSUME NEW S, NEW a \in Seq(S), NEW b \in Seq(S), Len(a) = 2, Len(b) = 3
  PROVE  /\ DOMAIN (a \o b) = 1..5
         /\ \A i \in 1..5 : (a \o b)[i] = IF i <= 2 THEN a[i] ELSE b[i - 2]
<1>1. a \o b \in Seq(S) /\ Len(a \o b) = Len(a) + Len(b)
  BY ConcatProperties, Zenon
<1>2. DOMAIN (a \o b) = 1..5 /\ 1..(Len(a) + Len(b)) = 1..5
  BY <1>1
<1>3. \A i \in 1..(Len(a) + Len(b)) : (a \o b)[i] = IF i <= Len(a) THEN a[i] ELSE b[i - Len(a)]
  BY ConcatProperties, Zenon
<1>4. \A i \in 1..5 : (a \o b)[i] = IF i <= 2 THEN a[i] ELSE b[i - 2]
  BY <1>2, <1>3, Zenon
<1> QED
  BY <1>2, <1>4, Zenon

\* A ticket is answered from its groups and from those of the directory.
LEMMA TicketAnswer ==
  ASSUME NEW u \in User, NEW sids, NEW found
  PROVE  BuildUser(Conf.kerberos, u, sids, found)
           \in AnswerWith(Possible(u, sids) \cup Possible(u, found.groups))
<1> DEFINE c == Conf.kerberos
           R == Possible(u, sids) \cup Possible(u, found.groups)
           own == << SaidBy(c.principal, c.principalEx, {u}), SaidBy(c.sid, c.sidEx, sids) >>
           dir == DirectorySays(c, u, found.groups)
           heard == IF c.ldap THEN own \o dir ELSE own
<1>1. \A i \in 1..2 : own[i].roles \subseteq R
  BY DEF SaidBy, Possible
<1>2. \A i \in 1..3 : dir[i].roles \subseteq R
  BY DirectorySaysPossible
<1>3. \A i \in DOMAIN heard : heard[i].roles \subseteq R
  <2>1. own \in Seq({own[1], own[2]}) /\ Len(own) = 2 /\ DOMAIN own = 1..2
    OBVIOUS
  <2>2. dir \in Seq({dir[1], dir[2], dir[3]}) /\ Len(dir) = 3
    BY DEF DirectorySays
  <2> HIDE DEF own, dir
  <2>3. DOMAIN (own \o dir) = 1..5 /\ \A i \in 1..5 : (own \o dir)[i] = IF i <= 2 THEN own[i] ELSE dir[i - 2]
    <3>1. PICK S : own \in Seq(S) /\ dir \in Seq(S)
      <4>1. \A A, B, q : A \subseteq B /\ q \in Seq(A) => q \in Seq(B)
        OBVIOUS
      <4> DEFINE B == {own[1], own[2]} \cup {dir[1], dir[2], dir[3]}
      <4>2. own \in Seq(B) /\ dir \in Seq(B)
        BY <2>1, <2>2, <4>1
      <4> QED
        BY <4>2
    <3>2. ASSUME NEW a \in Seq(S), NEW b \in Seq(S), Len(a) = 2, Len(b) = 3
          PROVE  /\ DOMAIN (a \o b) = 1..5
                 /\ \A i \in 1..5 : (a \o b)[i] = IF i <= 2 THEN a[i] ELSE b[i - 2]
      BY <3>2, TwoThenThree, Zenon
    <3> QED
      BY <2>1, <2>2, <3>1, <3>2
  <2> HIDE DEF R
  <2> QED
    BY <1>1, <1>2, <2>1, <2>3
<1>4. Decide(u, "kerberos", heard, c.requireRoles) \in AnswerWith(R)
  <2>1. "kerberos" \in Sources
    BY DEF Sources
  <2> HIDE DEF heard, R
  <2> QED
    BY <1>3, <2>1, DecisionsGiveWhatIsSaid
<1>5. LdapAnswer(found.fault, FALSE) \in AnswerWith(R) /\ Internal \in AnswerWith(R)
  BY RefusalsGiveNothing
<1>6. BuildUser(c, u, sids, found)
        \in {LdapAnswer(found.fault, FALSE), Internal, Decide(u, "kerberos", heard, c.requireRoles)}
  BY DEF BuildUser
<1> QED
  BY <1>4, <1>5, <1>6

\* A password is answered from what its providers say of the user.
LEMMA PasswordAnswer ==
  ASSUME NEW u \in User, NEW right, NEW found
  PROVE  Chain(Answers(u, right, found)) \in AnswerWith(Possible(u, found.groups))
<1> DEFINE R == Possible(u, found.groups)
           A == Answers(u, right, found)
<1>1. LocalSays(Conf.local, u, "local" \in right) \in AnswerWith(R)
  <2> DEFINE heard == << SaidBy(Conf.local.local, Conf.local.localEx, {u}) >>
  <2>1. \A i \in DOMAIN heard : heard[i].roles \subseteq R
    BY DEF SaidBy, Possible
  <2>2. Decide(u, "local", heard, Conf.local.requireRoles) \in AnswerWith(R)
    <3>1. "local" \in Sources
      BY DEF Sources
    <3> HIDE DEF heard, R
    <3> QED
      BY <2>1, <3>1, DecisionsGiveWhatIsSaid
  <2>3. None \in AnswerWith(R)
    BY RefusalsGiveNothing
  <2> HIDE DEF R
  <2> QED
    BY <2>2, <2>3 DEF LocalSays
<1>2. LdapSays(Conf.ldap, u, found) \in AnswerWith(R)
  <2> DEFINE dir == DirectorySays(Conf.ldap, u, found.groups)
  <2>1. DOMAIN dir = 1..3
    BY DEF DirectorySays
  <2>2. \A i \in DOMAIN dir : dir[i].roles \subseteq R
    BY <2>1, DirectorySaysPossible
  <2>3. Decide(u, "ldap", dir, Conf.ldap.requireRoles) \in AnswerWith(R)
    <3>1. "ldap" \in Sources
      BY DEF Sources
    <3> HIDE DEF dir, R
    <3> QED
      BY <2>2, <3>1, DecisionsGiveWhatIsSaid
  <2>4. LdapAnswer(found.fault, TRUE) \in AnswerWith(R)
    BY RefusalsGiveNothing
  <2> HIDE DEF R
  <2> QED
    BY <2>3, <2>4 DEF LdapSays
<1>3. A \in Seq(AnswerWith(R))
  <2>1. \A i \in DOMAIN Chained : A[i] \in AnswerWith(R)
    BY <1>1, <1>2 DEF Answers
  <2>2. DOMAIN A = DOMAIN Chained /\ A = [i \in DOMAIN Chained |-> A[i]]
    BY DEF Answers
  <2>3. Len(Chained) \in Nat /\ DOMAIN Chained = 1..Len(Chained)
    BY TablesAssumption
  <2> HIDE DEF A, R
  <2> QED
    BY <2>1, <2>2, <2>3
<1>4. None \in AnswerWith(R) /\ Unauthenticated \in AnswerWith(R)
  BY RefusalsGiveNothing
<1> HIDE DEF A, R
<1>5. Chain(A) \in AnswerWith(R)
  <2>1. CASE \E i \in DOMAIN A : A[i] \notin {None, Unauthenticated}
    <3> DEFINE I == {i \in 1..Len(A) : A[i] \notin {None, Unauthenticated}}
    <3>1. Chain(A) = A[IF I # {} THEN Min(I) ELSE 0]
      BY <2>1 DEF Chain, SelectInSeq
    <3>2. I # {} /\ I \in SUBSET Nat
      BY <1>3, <2>1
    <3>3. Min(I) \in I
      BY <3>2, LeastOf
    <3>4. Min(I) \in 1..Len(A)
      BY <3>3
    <3>5. Chain(A) = A[Min(I)]
      BY <3>1, <3>2, Zenon
    <3> QED
      BY <1>3, <3>4, <3>5
  <2>2. CASE ~(\E i \in DOMAIN A : A[i] \notin {None, Unauthenticated})
    BY <1>4, <2>2 DEF Chain
  <2> QED
    BY <2>1, <2>2
<1> QED
  BY <1>5 DEF A, R

\* Every role is of some user in all the groups.
LEMMA PossibleRoles ==
  ASSUME NEW u \in User, NEW g \in SUBSET Group
  PROVE  Possible(u, g) \subseteq AllRoles
  BY PossibleGrows DEF AllRoles

-----------------------------------------------------------------------------
(* Logins                                                                  *)

\* What a tab is in the middle of is told by where it is.
LEMMA TabKinds ==
  ASSUME NEW w \in TabState
  PROVE  \/ w = Out /\ w.at = "out"
         \/ w \in AskingTab /\ w.at = "asking"
         \/ w \in LoggingTab /\ w.at \in {"saving", "cookie"}
         \/ w \in SessionTab /\ w.at \in {"in", "deleting"}
<1>1. w = Out => w.at = "out"
  BY DEF Out
<1>2. w \in AskingTab => w.at = "asking"
  BY DEF AskingTab
<1>3. w \in LoggingTab => w.at \in {"saving", "cookie"}
  BY DEF LoggingTab
<1>4. w \in SessionTab => w.at \in {"in", "deleting"}
  BY DEF SessionTab
<1> QED
  BY <1>1, <1>2, <1>3, <1>4 DEF TabState

\* A step of one tab leaves every other tab as it was.
LEMMA OtherTabs ==
  ASSUME TablesTyped, NEW t \in Tab, NEW w, Set(t, w)
  PROVE  /\ \A x \in Tab : tabs'[x] = IF x = t THEN w ELSE tabs[x]
         /\ w \in TabState => tabs' \in [Tab -> TabState]
  BY DEF TablesTyped, Set

\* A login that begins is as old as those of its user that are under way.
LEMMA SinceOfAll ==
  ASSUME TablesTyped, SinceIsShared, NEW u \in User
  PROVE  /\ Since(u) \in 1..Len(past)
         /\ \A x \in Tab : tabs[x].at \in UnderWay /\ tabs[x].user = u => tabs[x].since = Since(u)
<1> DEFINE X == {x \in Tab : tabs[x].at \in UnderWay /\ tabs[x].user = u}
           S == {Len(past)} \cup {tabs[x].since : x \in X}
<1>1. Len(past) \in Nat /\ Len(past) \in 1..Len(past)
  BY DEF TablesTyped
<1>2. \A x \in X : tabs[x].since \in 1..Len(past)
  BY DEF SinceIsShared
<1>3. \A n \in S : n \in 1..Len(past)
  BY <1>1, <1>2
<1>4. S \in SUBSET Nat /\ S # {}
  BY <1>3
<1>5. Min(S) \in S /\ \A n \in S : Min(S) <= n
  BY <1>4, LeastOf
<1>6. Since(u) = Min(S)
  BY DEF Since
<1>7. Since(u) \in 1..Len(past)
  BY <1>3, <1>5, <1>6
<1>8. ASSUME NEW x \in X PROVE tabs[x].since = Since(u)
  <2>1. tabs[x].since \in S
    OBVIOUS
  <2>2. CASE Min(S) = Len(past)
    <3>1. Min(S) <= tabs[x].since
      BY <1>5, <2>1
    <3> HIDE DEF S, X
    <3> QED
      BY <1>1, <1>2, <1>6, <2>2, <3>1
  <2>3. CASE Min(S) # Len(past)
    <3>1. PICK y \in X : Min(S) = tabs[y].since
      BY <1>5, <2>3
    <3>2. tabs[x].since = tabs[y].since
      BY DEF SinceIsShared
    <3> QED
      BY <1>6, <3>1, <3>2
  <2> QED
    BY <2>2, <2>3
<1> QED
  BY <1>7, <1>8

\* What the invariant asks of one tab, given the others.
FreshTab(t, w) ==
  /\ w.at \in UnderWay =>
       /\ w.since \in 1..Len(past)
       /\ \A x \in Tab : x # t /\ tabs[x].at \in UnderWay /\ tabs[x].user = w.user =>
            tabs[x].since = w.since
  /\ w.at = "asking" /\ w.way = "kerberos" =>
       \E k \in (w.since - 1)..Len(past) : k > 0 /\ w.sids = past[k][w.user]
  /\ w.at \in {"saving", "cookie"} => Granted(w.user, w.since, w.roles)
  /\ w.at \in {"in", "deleting"} /\ ~w.lost => Granted(w.user, w.since, w.roles)

\* A step of one tab keeps the invariant if the tab keeps its part of it.
LEMMA OneTabSteps ==
  ASSUME TablesTyped, LoginInv, NEW t \in Tab, NEW w, Set(t, w), FreshTab(t, w),
         UNCHANGED past, RowsAreFresh'
  PROVE  LoginInv'
<1>1. \A x \in Tab : tabs'[x] = IF x = t THEN w ELSE tabs[x]
  BY OtherTabs
<1>2. past' = past
  OBVIOUS
<1>3. SinceIsShared'
  <2>1. SinceIsShared
    BY DEF LoginInv
  <2>2. \A x \in Tab : tabs'[x].at \in UnderWay => tabs'[x].since \in 1..Len(past)
    BY <1>1, <2>1 DEF FreshTab, SinceIsShared
  <2>3. ASSUME NEW x \in Tab, NEW y \in Tab, tabs'[x].at \in UnderWay, tabs'[y].at \in UnderWay,
               tabs'[y].user = tabs'[x].user
        PROVE  tabs'[y].since = tabs'[x].since
    <3>1. CASE x # t /\ y # t
      BY <1>1, <2>1, <2>3, <3>1 DEF SinceIsShared
    <3>2. CASE x = t /\ y # t
      BY <1>1, <2>3, <3>2 DEF FreshTab
    <3>3. CASE x # t /\ y = t
      BY <1>1, <2>3, <3>3 DEF FreshTab
    <3> QED
      BY <3>1, <3>2, <3>3
  <2> QED
    BY <1>2, <2>2, <2>3 DEF SinceIsShared, UnderWay
<1>4. TicketsAreFresh'
  BY <1>1, <1>2 DEF LoginInv, TicketsAreFresh, FreshTab
<1>5. LoginsAreFresh'
  BY <1>1, <1>2 DEF LoginInv, LoginsAreFresh, FreshTab, Granted
<1>6. SessionsAreFresh'
  BY <1>1, <1>2 DEF LoginInv, SessionsAreFresh, FreshTab, Granted
<1> QED
  BY <1>3, <1>4, <1>5, <1>6 DEF LoginInv

\* A tab that does not come to its cookie with saved roles asks for no row.
LEMMA RowsStay ==
  ASSUME TablesTyped, LoginInv, NEW t \in Tab, NEW w, Set(t, w), w.at # "cookie" \/ w.lost,
         UNCHANGED <<past, users>>
  PROVE  RowsAreFresh'
<1>1. \A x \in Tab : tabs'[x] = IF x = t THEN w ELSE tabs[x]
  BY OtherTabs
<1>2. \A u : IdOf(u)' = IdOf(u)
  BY DEF IdOf, SelectInSeq
<1>3. SUFFICES ASSUME NEW x \in Tab, tabs'[x].at = "cookie", ~tabs'[x].lost
               PROVE  /\ IdOf(tabs[x].user)' # 0
                      /\ Granted(tabs[x].user, tabs[x].since, users[IdOf(tabs[x].user)].roles)'
  BY DEF RowsAreFresh
<1>4. tabs'[x] = tabs[x]
  BY <1>1, <1>3
<1>5. IdOf(tabs[x].user)' = IdOf(tabs[x].user)
  BY <1>4 DEF IdOf, SelectInSeq
<1>6. IdOf(tabs[x].user) # 0 /\ Granted(tabs[x].user, tabs[x].since, users[IdOf(tabs[x].user)].roles)
  BY <1>3, <1>4 DEF LoginInv, RowsAreFresh
<1> QED
  BY <1>4, <1>5, <1>6 DEF Granted

\* What a login goes on with has the roles it was answered, or is nothing.
LEMMA AnsweredTab ==
  ASSUME NEW t \in Tab, NEW r, r.user \in User, r.way \in {"kerberos", "password"}, r.since \in Nat,
         NEW R \in SUBSET AllRoles, NEW answer \in AnswerWith(R), Answered(t, r, answer)
  PROVE  \E w \in TabState :
           /\ Set(t, w)
           /\ \/ w = Out
              \/ /\ w.at = "saving" /\ w.user = r.user /\ w.since = r.since
                 /\ w.roles \subseteq R /\ ~w.lost
<1> DEFINE w == [at |-> "saving", user |-> r.user, way |-> r.way, since |-> r.since,
                 provider |-> answer.provider, roles |-> answer.roles, lost |-> FALSE]
<1>1. answer.provider \in Sources /\ answer.roles \subseteq R
  BY DEF AnswerWith
<1>2. w \in TabState /\ Out \in TabState
  BY <1>1 DEF TabState, LoggingTab
<1>3. Set(t, w) \/ Set(t, Out)
  BY DEF Answered
<1> QED
  BY <1>1, <1>2, <1>3

\* Roles that a ticket since then, or the directory now, gives the user are fresh.
LEMMA FreshAnswer ==
  ASSUME TablesTyped, NEW u \in User, NEW since \in 1..Len(past), NEW k \in 1..Len(past),
         k >= since - 1, NEW R, R \subseteq Possible(u, past[k][u]) \cup Possible(u, groups[u])
  PROVE  Granted(u, since, R)
<1>1. Len(past) \in Nat /\ Len(past) > 0 /\ groups = past[Len(past)]
  BY DEF TablesTyped, groups, Last
<1>2. Possible(u, groups[u]) = Possible(u, past[Len(past)][u])
  BY <1>1
<1>3. k \in (since - 1)..Len(past) /\ Len(past) \in (since - 1)..Len(past) /\ k > 0
  BY <1>1
<1>4. ASSUME NEW r \in R
      PROVE  \E j \in (since - 1)..Len(past) : j > 0 /\ r \in Possible(u, past[j][u])
  <2>1. r \in Possible(u, past[k][u]) \/ r \in Possible(u, past[Len(past)][u])
    BY <1>2
  <2> QED
    BY <1>1, <1>3, <2>1
<1> QED
  BY <1>4 DEF Granted

\* The groups of the directory are groups.
LEMMA PastGroups ==
  ASSUME TablesTyped, NEW u \in User, NEW k \in 1..Len(past)
  PROVE  past[k][u] \in SUBSET Group
<1>1. past[k] \in [User -> SUBSET Group]
  BY DEF TablesTyped
<1> QED
  BY <1>1

\* A login by ticket begins.
LEMMA SsoKeeps ==
  ASSUME TablesTyped, LoginInv, NEW t \in Tab, NEW u \in User, NEW header \in Headers, Sso(t, u, header)
  PROVE  \E w \in TabState : Set(t, w) /\ FreshTab(t, w) /\ w.at \notin {"cookie", "in", "deleting"}
<1>1. PICK k \in DOMAIN past :
        /\ k + 1 >= Len(past)
        /\ LET r == [at |-> "asking", user |-> u, way |-> "kerberos", since |-> Since(u),
                     sids |-> past[k][u]]
           IN IF ~Passed(Accept(header)) THEN Set(t, Out)
              ELSE IF Conf.kerberos.ldap THEN Set(t, r)
              ELSE Answered(t, r, BuildUser(Conf.kerberos, u, r.sids, Nothing))
  BY DEF Sso
<1> DEFINE r == [at |-> "asking", user |-> u, way |-> "kerberos", since |-> Since(u), sids |-> past[k][u]]
<1>2. Since(u) \in 1..Len(past) /\ Len(past) \in Nat /\ k \in 1..Len(past) /\ k >= Since(u) - 1
  <2>1. Len(past) \in Nat /\ k \in 1..Len(past)
    BY DEF TablesTyped
  <2>2. Since(u) \in 1..Len(past)
    BY SinceOfAll DEF LoginInv
  <2> QED
    BY <1>1, <2>1, <2>2
<1>3. \A x \in Tab : tabs[x].at \in UnderWay /\ tabs[x].user = u => tabs[x].since = Since(u)
  BY SinceOfAll DEF LoginInv
<1>4. past[k][u] \in SUBSET Group
  BY <1>2, PastGroups
<1>5. CASE Set(t, Out)
  <2>1. Out \in TabState /\ FreshTab(t, Out) /\ Out.at = "out"
    BY DEF TabState, Out, FreshTab, UnderWay
  <2> QED
    BY <1>5, <2>1
<1>6. CASE Set(t, r)
  <2>1. r \in TabState
    BY <1>2, <1>4 DEF TabState, AskingTab
  <2>2. k \in (Since(u) - 1)..Len(past) /\ k > 0
    BY <1>2
  <2>3. FreshTab(t, r)
    BY <1>2, <1>3, <2>2 DEF FreshTab
  <2> QED
    BY <1>6, <2>1, <2>3
<1>7. CASE Answered(t, r, BuildUser(Conf.kerberos, u, r.sids, Nothing))
  <2> DEFINE R == Possible(u, past[k][u]) \cup Possible(u, {})
  <2>1. BuildUser(Conf.kerberos, u, r.sids, Nothing) \in AnswerWith(R)
    <3>1. Nothing.groups = {}
      BY DEF Nothing
    <3>2. BuildUser(Conf.kerberos, u, past[k][u], Nothing)
            \in AnswerWith(Possible(u, past[k][u]) \cup Possible(u, Nothing.groups))
      BY TicketAnswer
    <3> QED
      BY <3>1, <3>2
  <2>2. R \in SUBSET AllRoles
    BY <1>4, PossibleRoles
  <2>3. r.user \in User /\ r.way \in {"kerberos", "password"} /\ r.since \in Nat
    BY <1>2
  <2>4. PICK w \in TabState :
          /\ Set(t, w)
          /\ \/ w = Out
             \/ w.at = "saving" /\ w.user = r.user /\ w.since = r.since /\ w.roles \subseteq R
    <3> HIDE DEF R, r
    <3> QED
      BY <1>7, <2>1, <2>2, <2>3, AnsweredTab
  <2>5. CASE w = Out
    BY <2>4, <2>5 DEF Out, FreshTab, UnderWay
  <2>6. CASE w # Out
    <3>1. w.at = "saving" /\ w.user = u /\ w.since = Since(u) /\ w.roles \subseteq R
      BY <2>4, <2>6
    <3>2. Granted(u, Since(u), w.roles)
      <4>1. Possible(u, {}) \subseteq Possible(u, groups[u])
        BY PossibleGrows
      <4>2. w.roles \subseteq Possible(u, past[k][u]) \cup Possible(u, groups[u])
        BY <3>1, <4>1
      <4> QED
        BY <1>2, <4>2, FreshAnswer
    <3>3. FreshTab(t, w)
      BY <1>2, <1>3, <3>1, <3>2 DEF FreshTab
    <3> QED
      BY <2>4, <3>1, <3>3
  <2> QED
    BY <2>5, <2>6
<1> QED
  BY <1>1, <1>5, <1>6, <1>7

\* A login goes on with roles that are fresh, or not at all.
LEMMA FreshWhenAnswered ==
  ASSUME TablesTyped, NEW t \in Tab, NEW r, r.user \in User, r.way \in {"kerberos", "password"},
         r.since \in 1..Len(past),
         \A x \in Tab : x # t /\ tabs[x].at \in UnderWay /\ tabs[x].user = r.user =>
           tabs[x].since = r.since,
         NEW k \in 1..Len(past), k >= r.since - 1,
         NEW g, g \in {groups[r.user], {}},
         NEW answer \in AnswerWith(Possible(r.user, past[k][r.user]) \cup Possible(r.user, g)),
         Answered(t, r, answer)
  PROVE  \E w \in TabState : Set(t, w) /\ FreshTab(t, w) /\ w.at \notin {"cookie", "in", "deleting"}
<1> DEFINE R == Possible(r.user, past[k][r.user]) \cup Possible(r.user, g)
<1>1. Len(past) \in Nat /\ Len(past) \in 1..Len(past) /\ groups = past[Len(past)]
  BY DEF TablesTyped, groups, Last
<1>2. g \in SUBSET Group /\ past[k][r.user] \in SUBSET Group
  BY <1>1, PastGroups
<1>3. R \in SUBSET AllRoles
  BY <1>2, PossibleRoles
<1>4. R \subseteq Possible(r.user, past[k][r.user]) \cup Possible(r.user, groups[r.user])
  <2>1. Possible(r.user, {}) \subseteq Possible(r.user, groups[r.user])
    BY PossibleGrows
  <2> QED
    BY <2>1
<1>5. r.since \in Nat
  BY <1>1
<1>6. PICK w \in TabState :
        /\ Set(t, w)
        /\ \/ w = Out
           \/ w.at = "saving" /\ w.user = r.user /\ w.since = r.since /\ w.roles \subseteq R
  <2> HIDE DEF R
  <2>1. answer \in AnswerWith(R)
    BY DEF R
  <2> QED
    BY <1>3, <1>5, <2>1, AnsweredTab
<1>7. CASE w = Out
  BY <1>6, <1>7 DEF Out, FreshTab, UnderWay
<1>8. CASE w # Out
  <2>1. w.at = "saving" /\ w.user = r.user /\ w.since = r.since /\ w.roles \subseteq R
    BY <1>6, <1>8
  <2>2. w.roles \subseteq Possible(r.user, past[k][r.user]) \cup Possible(r.user, groups[r.user])
    BY <1>4, <2>1
  <2>3. Granted(r.user, r.since, w.roles)
    BY <2>2, FreshAnswer
  <2>4. FreshTab(t, w)
    BY <2>1, <2>3 DEF FreshTab
  <2> QED
    BY <1>6, <2>1, <2>4
<1> QED
  BY <1>7, <1>8

\* A login by password begins.
LEMMA PasswordKeeps ==
  ASSUME TablesTyped, LoginInv, NEW t \in Tab, NEW u \in User,
         NEW right \in SUBSET {"local", "ldap"}, Password(t, u, right)
  PROVE  \E w \in TabState : Set(t, w) /\ FreshTab(t, w) /\ w.at \notin {"cookie", "in", "deleting"}
<1> DEFINE r == [at |-> "asking", user |-> u, way |-> "password", since |-> Since(u), right |-> right]
<1>1. Since(u) \in 1..Len(past) /\ Len(past) \in Nat /\ Len(past) \in 1..Len(past)
  <2>1. Len(past) \in Nat
    BY DEF TablesTyped
  <2> QED
    BY <2>1, SinceOfAll DEF LoginInv
<1>2. \A x \in Tab : tabs[x].at \in UnderWay /\ tabs[x].user = u => tabs[x].since = Since(u)
  BY SinceOfAll DEF LoginInv
<1>3. Set(t, r) \/ Answered(t, r, Chain(Answers(u, right, Nothing)))
  BY DEF Password
<1>4. CASE Set(t, r)
  <2>1. r \in TabState
    BY <1>1 DEF TabState, AskingTab
  <2>2. FreshTab(t, r)
    BY <1>1, <1>2 DEF FreshTab
  <2> QED
    BY <1>4, <2>1, <2>2
<1>5. CASE Answered(t, r, Chain(Answers(u, right, Nothing)))
  <2>1. Nothing.groups = {}
    BY DEF Nothing
  <2>2. Chain(Answers(u, right, Nothing)) \in AnswerWith(Possible(u, Nothing.groups))
    BY PasswordAnswer
  <2>3. PICK answer : answer = Chain(Answers(u, right, Nothing))
    OBVIOUS
  <2>4. answer \in AnswerWith(Possible(u, past[Len(past)][u]) \cup Possible(u, {}))
    BY <2>1, <2>2, <2>3 DEF AnswerWith
  <2>5. /\ r.user = u /\ r.way = "password" /\ r.since = Since(u)
        /\ Len(past) >= Since(u) - 1 /\ {} \in {groups[u], {}}
    BY <1>1
  <2>6. Answered(t, r, answer)
    BY <1>5, <2>3
  <2> HIDE DEF r
  <2> QED
    BY <1>1, <1>2, <2>4, <2>5, <2>6, FreshWhenAnswered
<1> QED
  BY <1>3, <1>4, <1>5

\* The directory answers, or fails.
LEMMA AskedKeeps ==
  ASSUME TablesTyped, LoginInv, NEW t \in Tab, Asked(t)
  PROVE  \E w \in TabState : Set(t, w) /\ FreshTab(t, w) /\ w.at \notin {"cookie", "in", "deleting"}
<1> DEFINE r == tabs[t]
<1>1. r.at = "asking" /\ r \in AskingTab
  <2>1. r.at = "asking" /\ r \in TabState
    BY DEF Asked, TablesTyped
  <2> QED
    BY <2>1, TabKinds
<1>2. PICK found : Found(t, found) /\ found.groups \in {groups[r.user], {}}
  <2>1. \/ \E wrong \in BOOLEAN :
             Found(t, IF wrong THEN [fault |-> "rejected", groups |-> {}]
                      ELSE [fault |-> "", groups |-> groups[r.user]])
        \/ \E f : Found(t, [fault |-> f, groups |-> {}])
    BY DEF Asked
  <2> DEFINE nobody(f) == [fault |-> f, groups |-> {}]
             them == [fault |-> "", groups |-> groups[r.user]]
  <2>2. /\ \A f : nobody(f).groups \in {groups[r.user], {}}
        /\ them.groups \in {groups[r.user], {}}
    OBVIOUS
  <2>3. (\E f : Found(t, nobody(f))) \/ Found(t, them)
    BY <2>1
  <2> HIDE DEF nobody, them
  <2> QED
    BY <2>2, <2>3
<1>3. /\ r.user \in User /\ r.since \in 1..Len(past) /\ Len(past) \in Nat
      /\ \A x \in Tab : x # t /\ tabs[x].at \in UnderWay /\ tabs[x].user = r.user =>
           tabs[x].since = r.since
  <2>1. r.at \in UnderWay
    BY <1>1 DEF UnderWay
  <2>2. Len(past) \in Nat
    BY DEF TablesTyped
  <2> QED
    BY <1>1, <2>1, <2>2 DEF LoginInv, SinceIsShared, AskingTab
<1>4. PICK g : g = found.groups
  OBVIOUS
<1>5. CASE r.way = "kerberos"
  <2>1. PICK k \in (r.since - 1)..Len(past) : k > 0 /\ r.sids = past[k][r.user]
    BY <1>1, <1>5 DEF LoginInv, TicketsAreFresh
  <2>2. k \in 1..Len(past) /\ k >= r.since - 1
    BY <1>3, <2>1
  <2>3. PICK answer : answer = BuildUser(Conf.kerberos, r.user, r.sids, found)
    OBVIOUS
  <2>4. answer \in AnswerWith(Possible(r.user, past[k][r.user]) \cup Possible(r.user, g))
    BY <1>3, <1>4, <2>1, <2>3, TicketAnswer
  <2>5. Answered(t, r, answer)
    BY <1>2, <1>5, <2>3 DEF Found
  <2> HIDE DEF r
  <2> QED
    BY <1>2, <1>3, <1>4, <1>5, <2>2, <2>4, <2>5, FreshWhenAnswered
<1>6. CASE r.way # "kerberos"
  <2>1. r.way = "password"
    BY <1>1, <1>6 DEF AskingTab
  <2>2. PICK answer : answer = Chain(Answers(r.user, r.right, found))
    OBVIOUS
  <2>3. answer \in AnswerWith(Possible(r.user, found.groups))
    BY <1>3, <2>2, PasswordAnswer
  <2>4. answer \in AnswerWith(Possible(r.user, past[Len(past)][r.user]) \cup Possible(r.user, g))
    BY <1>4, <2>3 DEF AnswerWith
  <2>5. Answered(t, r, answer)
    BY <1>2, <1>6, <2>2 DEF Found
  <2>6. Len(past) \in 1..Len(past) /\ Len(past) >= r.since - 1
    BY <1>3
  <2> HIDE DEF r
  <2> QED
    BY <1>2, <1>3, <1>4, <2>1, <2>4, <2>5, <2>6, FreshWhenAnswered
<1> QED
  BY <1>5, <1>6

\* A tab that saves its roles, or comes to its cookie.
LEMMA SavingTab ==
  ASSUME TablesTyped, LoginInv, NEW t \in Tab, tabs[t].at = "saving", NEW lost \in BOOLEAN,
         NEW w, w = [tabs[t] EXCEPT !.at = "cookie", !.lost = lost]
  PROVE  /\ tabs[t] \in LoggingTab /\ w \in TabState /\ FreshTab(t, w)
         /\ w.at = "cookie" /\ w.user = tabs[t].user /\ w.since = tabs[t].since
         /\ w.roles = tabs[t].roles /\ w.lost = lost
<1>1. tabs[t] \in LoggingTab
  <2>1. tabs[t] \in TabState
    BY DEF TablesTyped
  <2> QED
    BY <2>1, TabKinds
<1>2. /\ w \in LoggingTab /\ w.at = "cookie" /\ w.user = tabs[t].user /\ w.since = tabs[t].since
      /\ w.roles = tabs[t].roles /\ w.lost = lost
  BY <1>1 DEF LoggingTab
<1>3. Granted(w.user, w.since, w.roles)
  BY <1>2 DEF LoginInv, LoginsAreFresh
<1>4. FreshTab(t, w)
  BY <1>2, <1>3 DEF FreshTab, LoginInv, SinceIsShared, UnderWay
<1> QED
  BY <1>1, <1>2, <1>4 DEF TabState

\* Roles are saved: the logins of the user under way are as old as they.
LEMMA SaveUserKeeps ==
  ASSUME TablesTyped, LoginInv, NEW t \in Tab, SaveUser(t)
  PROVE  LoginInv' /\ tabs' \in [Tab -> TabState] /\ users' \in Seq(UserRow)
<1>1. PICK w : w = [tabs[t] EXCEPT !.at = "cookie"]
  OBVIOUS
<1>2. /\ tabs[t].at = "saving" /\ Set(t, w) /\ UNCHANGED past
      /\ users' = Saved(tabs[t].user, tabs[t].roles)
  BY <1>1 DEF SaveUser, logging, writing
<1>3. tabs[t] \in LoggingTab
  <2>1. tabs[t] \in TabState
    BY DEF TablesTyped
  <2> QED
    BY <1>2, <2>1, TabKinds
<1>4. PICK lost \in BOOLEAN : lost = tabs[t].lost
  BY <1>3 DEF LoggingTab
<1>10. w = [tabs[t] EXCEPT !.at = "cookie", !.lost = lost]
  BY <1>1, <1>3, <1>4 DEF LoggingTab
<1>5. /\ w \in TabState /\ FreshTab(t, w)
      /\ w.at = "cookie" /\ w.user = tabs[t].user /\ w.since = tabs[t].since
      /\ w.roles = tabs[t].roles /\ w.lost = tabs[t].lost
  <2>1. tabs[t].at = "saving" /\ lost \in BOOLEAN
    BY <1>2, <1>4
  <2>2. w \in TabState /\ FreshTab(t, w)
    BY <2>1, <1>10, SavingTab
  <2>3. /\ w.at = "cookie" /\ w.user = tabs[t].user /\ w.since = tabs[t].since
        /\ w.roles = tabs[t].roles /\ w.lost = tabs[t].lost
    BY <1>1, <1>3 DEF LoggingTab
  <2> QED
    BY <2>2, <2>3
<1>6. PICK u \in User, roles \in SUBSET AllRoles : u = tabs[t].user /\ roles = tabs[t].roles
  BY <1>3 DEF LoggingTab
<1>7. /\ users' \in Seq(UserRow) /\ IdOf(u)' # 0 /\ users'[IdOf(u)'].roles = roles
      /\ \A v \in User : v # u /\ IdOf(v) # 0 =>
           IdOf(v)' # 0 /\ users'[IdOf(v)'].roles = users[IdOf(v)].roles
  <2>1. users \in Seq(UserRow) /\ users' = Saved(u, roles)
    BY <1>2, <1>6 DEF TablesTyped
  <2>2. IdOf(u)' \in 1..Len(users') => IdOf(u)' # 0
    OBVIOUS
  <2> QED
    BY <2>1, <2>2, SavedRow
<1>8. \A x \in Tab : tabs'[x] = IF x = t THEN w ELSE tabs[x]
  BY <1>2, OtherTabs
<1>9. RowsAreFresh'
  <2>1. SUFFICES ASSUME NEW x \in Tab, tabs'[x].at = "cookie", ~tabs'[x].lost
                 PROVE  /\ IdOf(tabs[x].user)' # 0
                        /\ Granted(tabs[x].user, tabs[x].since, users[IdOf(tabs[x].user)].roles)'
    BY DEF RowsAreFresh
  <2>2. PICK v \in User : v = tabs'[x].user
    <3>1. tabs'[x] \in TabState
      BY <1>5, <1>8 DEF TablesTyped
    <3>2. tabs'[x] \in LoggingTab
      BY <2>1, <3>1, TabKinds
    <3> QED
      BY <3>2 DEF LoggingTab
  <2>3. IdOf(tabs[x].user)' = IdOf(v)'
    BY <2>2 DEF IdOf, SelectInSeq
  <2>4. IdOf(v)' # 0 /\ Granted(v, tabs'[x].since, users'[IdOf(v)'].roles)
    <3>1. CASE v = u
      <4>1. tabs'[x].since = tabs[t].since
        BY <1>2, <1>5, <1>6, <1>8, <2>1, <2>2, <3>1 DEF LoginInv, SinceIsShared, UnderWay
      <4>2. Granted(u, tabs[t].since, roles)
        BY <1>2, <1>6 DEF LoginInv, LoginsAreFresh
      <4> QED
        BY <1>7, <3>1, <4>1, <4>2
    <3>2. CASE v # u
      <4>1. x # t /\ tabs'[x] = tabs[x]
        BY <1>5, <1>6, <1>8, <2>2, <3>2
      <4>2. IdOf(v) # 0 /\ Granted(v, tabs[x].since, users[IdOf(v)].roles)
        BY <2>1, <2>2, <4>1 DEF LoginInv, RowsAreFresh
      <4> QED
        BY <1>7, <3>2, <4>1, <4>2
    <3> QED
      BY <3>1, <3>2
  <2>5. Granted(v, tabs[x].since, users[IdOf(v)].roles)'
    BY <1>2, <2>4 DEF Granted
  <2> QED
    BY <2>2, <2>3, <2>4, <2>5
<1> QED
  BY <1>2, <1>5, <1>7, <1>9, OneTabSteps, OtherTabs

\* A password that cannot be saved asks for no row, a ticket ends.
LEMMA SaveFailsKeeps ==
  ASSUME TablesTyped, LoginInv, NEW t \in Tab, SaveFails(t)
  PROVE  LoginInv' /\ tabs' \in [Tab -> TabState]
<1>1. tabs[t].at = "saving" /\ UNCHANGED <<past, users>>
  BY DEF SaveFails, writing
<1>2. CASE Set(t, Out)
  <2>1. PICK w \in TabState : w = Out
    BY DEF TabState
  <2>2. FreshTab(t, w) /\ w.at # "cookie" /\ Set(t, w)
    BY <1>2, <2>1 DEF FreshTab, Out, UnderWay
  <2> QED
    BY <1>1, <2>2, OneTabSteps, RowsStay, OtherTabs
<1>3. CASE Set(t, [tabs[t] EXCEPT !.at = "cookie", !.lost = TRUE])
  <2>1. PICK w : w = [tabs[t] EXCEPT !.at = "cookie", !.lost = TRUE]
    OBVIOUS
  <2>2. w \in TabState /\ FreshTab(t, w) /\ w.lost /\ Set(t, w)
    BY <1>1, <1>3, <2>1, SavingTab
  <2> QED
    BY <1>1, <2>2, OneTabSteps, RowsStay, OtherTabs
<1> QED
  BY <1>2, <1>3 DEF SaveFails

\* A session has the roles of the row, which a login that saved them left there.
LEMMA ConnectKeeps ==
  ASSUME TablesTyped, LoginInv, NEW t \in Tab, Connect(t)
  PROVE  /\ LoginInv' /\ tabs' \in [Tab -> TabState] /\ users' \in Seq(UserRow)
         /\ tabs'[t].thread = "none" /\ tabs'[t].at = "in"
         /\ \A x \in Tab : x # t => tabs'[x] = tabs[x]
<1>1. tabs[t].at = "cookie" /\ tabs[t] \in LoggingTab /\ UNCHANGED past
  <2>1. tabs[t] \in TabState /\ tabs[t].at = "cookie"
    BY DEF TablesTyped, Connect
  <2> QED
    BY <2>1, TabKinds DEF Connect
<1>2. PICK u \in User, roles \in SUBSET AllRoles : u = tabs[t].user /\ roles = tabs[t].roles
  BY <1>1 DEF LoggingTab
<1>3. /\ users \in Seq(UserRow)
      /\ users' = IF IdOf(u) = 0 THEN Saved(u, roles) ELSE users
  BY <1>2 DEF TablesTyped, Connect
<1>4. /\ users' \in Seq(UserRow) /\ IdOf(u)' \in 1..Len(users') /\ users'[IdOf(u)'] \in UserRow
      /\ \A v \in User : IdOf(v) # 0 =>
           IdOf(v)' # 0 /\ users'[IdOf(v)'].roles = users[IdOf(v)].roles
  <2>1. CASE IdOf(u) = 0
    <3>1. users' = Saved(u, roles)
      BY <1>3, <2>1
    <3>2. /\ users' \in Seq(UserRow) /\ IdOf(u)' \in 1..Len(users')
          /\ \A v \in User : v # u /\ IdOf(v) # 0 =>
               IdOf(v)' # 0 /\ users'[IdOf(v)'].roles = users[IdOf(v)].roles
      BY <1>3, <3>1, SavedRow
    <3> QED
      BY <2>1, <3>2
  <2>2. CASE IdOf(u) # 0
    <3>1. users' = users /\ \A v : IdOf(v)' = IdOf(v)
      BY <1>3, <2>2 DEF IdOf, SelectInSeq
    <3>2. IdOf(u) \in 1..Len(users)
      BY <1>3, <2>2, RowOfUser
    <3> QED
      BY <1>3, <3>1, <3>2
  <2> QED
    BY <2>1, <2>2
<1>5. PICK id : id = IdOf(u)' /\ id \in Nat \ {0} /\ users'[id] \in UserRow
  BY <1>4
<1>6. PICK got : got = users'[id].roles /\ got \in SUBSET AllRoles
  BY <1>5 DEF UserRow
<1>7. PICK w : w = [at |-> "in", user |-> tabs[t].user, since |-> tabs[t].since, lost |-> tabs[t].lost,
                    id |-> id, roles |-> got, thread |-> "none", chosen |-> {}]
  OBVIOUS
<1>8. Set(t, w)
  <2>1. SelectInSeq(users', LAMBDA x : x.name = tabs[t].user) = IdOf(u)'
    BY <1>2 DEF IdOf, SelectInSeq
  <2> QED
    BY <1>5, <1>6, <1>7, <2>1 DEF Connect
<1>9. w \in TabState /\ w.at = "in" /\ w.thread = "none"
  BY <1>1, <1>5, <1>6, <1>7 DEF LoggingTab, SessionTab, TabState
<1>10. \A x \in Tab : tabs'[x] = IF x = t THEN w ELSE tabs[x]
  BY <1>8, OtherTabs
<1>11. FreshTab(t, w)
  <2>1. ASSUME ~tabs[t].lost PROVE Granted(u, tabs[t].since, got)
    <3>1. IdOf(u) # 0 /\ Granted(u, tabs[t].since, users[IdOf(u)].roles)
      BY <1>1, <1>2, <2>1 DEF LoginInv, RowsAreFresh
    <3>2. users'[IdOf(u)'].roles = users[IdOf(u)].roles
      BY <1>4, <3>1
    <3> QED
      BY <1>5, <1>6, <3>1, <3>2
  <2> QED
    BY <1>2, <1>7, <2>1 DEF FreshTab, UnderWay
<1>12. RowsAreFresh'
  <2>1. SUFFICES ASSUME NEW x \in Tab, tabs'[x].at = "cookie", ~tabs'[x].lost
                 PROVE  /\ IdOf(tabs[x].user)' # 0
                        /\ Granted(tabs[x].user, tabs[x].since, users[IdOf(tabs[x].user)].roles)'
    BY DEF RowsAreFresh
  <2>2. x # t /\ tabs'[x] = tabs[x]
    BY <1>9, <1>10, <2>1
  <2>3. PICK v \in User : v = tabs'[x].user
    <3>1. tabs[x] \in TabState
      BY DEF TablesTyped
    <3>2. tabs[x] \in LoggingTab
      BY <2>1, <2>2, <3>1, TabKinds
    <3> QED
      BY <2>2, <3>2 DEF LoggingTab
  <2>4. IdOf(tabs[x].user)' = IdOf(v)'
    BY <2>3 DEF IdOf, SelectInSeq
  <2>5. IdOf(v) # 0 /\ Granted(v, tabs[x].since, users[IdOf(v)].roles)
    BY <2>1, <2>2, <2>3 DEF LoginInv, RowsAreFresh
  <2>6. Granted(v, tabs[x].since, users[IdOf(v)].roles)'
    BY <1>1, <1>4, <2>2, <2>5 DEF Granted
  <2> QED
    BY <1>4, <2>3, <2>4, <2>5, <2>6
<1>13. LoginInv'
  BY <1>1, <1>8, <1>11, <1>12, OneTabSteps
<1>14. tabs' \in [Tab -> TabState]
  BY <1>8, <1>9, OtherTabs
<1> QED
  BY <1>4, <1>9, <1>10, <1>13, <1>14

\* A session stays its user's, with its roles, whatever it does.
LEMMA SessionKeeps ==
  ASSUME TablesTyped, LoginInv, NEW t \in Tab, tabs[t] \in SessionTab, NEW w, w \in SessionTab,
         w.user = tabs[t].user, w.since = tabs[t].since, w.roles = tabs[t].roles,
         w.lost = tabs[t].lost, Set(t, w), UNCHANGED <<past, users>>
  PROVE  LoginInv' /\ tabs' \in [Tab -> TabState]
<1>1. tabs[t].at \in {"in", "deleting"} /\ w.at \in {"in", "deleting"} /\ w \in TabState
  BY DEF SessionTab, TabState
<1>2. FreshTab(t, w)
  BY <1>1 DEF LoginInv, SessionsAreFresh, FreshTab, UnderWay
<1> QED
  BY <1>1, <1>2, OneTabSteps, RowsStay, OtherTabs

\* A session that ends holds no role.
LEMMA LogoutKeeps ==
  ASSUME TablesTyped, LoginInv, NEW t \in Tab, Logout(t)
  PROVE  LoginInv' /\ tabs' \in [Tab -> TabState]
<1>1. PICK w \in TabState : w = Out
  BY DEF TabState
<1>2. FreshTab(t, w) /\ w.at # "cookie"
  BY <1>1 DEF FreshTab, Out, UnderWay
<1>3. Set(t, w) /\ UNCHANGED <<past, users>>
  BY <1>1 DEF Logout, logging
<1> QED
  BY <1>2, <1>3, OneTabSteps, RowsStay, OtherTabs

\* What some source gave since then it gave, whatever the directory says later.
LEMMA FreshLater ==
  ASSUME TablesTyped, NEW u, NEW since \in Nat, NEW R, Granted(u, since, R),
         NEW g, past' = Append(past, g)
  PROVE  Granted(u, since, R)'
<1>1. Len(past) \in Nat /\ Len(past') = Len(past) + 1
  BY DEF TablesTyped
<1>2. \A k \in 1..Len(past) : past'[k] = past[k]
  BY DEF TablesTyped
<1>3. ASSUME NEW r \in R
      PROVE  \E k \in (since - 1)..Len(past') : k > 0 /\ r \in Possible(u, past'[k][u])
  <2>1. PICK k \in (since - 1)..Len(past) : k > 0 /\ r \in Possible(u, past[k][u])
    BY DEF Granted
  <2>2. k \in 1..Len(past) /\ k \in (since - 1)..Len(past')
    BY <1>1, <2>1
  <2>3. past'[k] = past[k]
    BY <1>2, <2>2
  <2> QED
    BY <2>1, <2>2, <2>3
<1> QED
  BY <1>3 DEF Granted, Possible

\* The age of what a tab does is a number.
LEMMA SinceIsNat ==
  ASSUME TablesTyped, NEW t \in Tab, tabs[t].at # "out" PROVE tabs[t].since \in Nat
<1>1. tabs[t] \in TabState
  BY DEF TablesTyped
<1>2. tabs[t] \in AskingTab \/ tabs[t] \in LoggingTab \/ tabs[t] \in SessionTab
  BY <1>1, TabKinds
<1> QED
  BY <1>2 DEF AskingTab, LoggingTab, SessionTab

\* A change of the directory makes nothing older than it was.
LEMMA ChangeKeeps ==
  ASSUME TablesTyped, LoginInv, NEW u \in User, NEW g \in SUBSET Group, Change(u, g)
  PROVE  LoginInv' /\ past' \in Seq([User -> SUBSET Group]) /\ past' # <<>>
<1>1. PICK h \in [User -> SUBSET Group] : h = [groups EXCEPT ![u] = g]
  <2>1. groups \in [User -> SUBSET Group]
    BY DEF TablesTyped, groups, Last
  <2> QED
    BY <2>1
<1>2. past' = Append(past, h) /\ UNCHANGED <<tabs, users>>
  BY <1>1 DEF Change
<1>3. past' \in Seq([User -> SUBSET Group]) /\ past' # <<>>
  BY <1>1, <1>2 DEF TablesTyped
<1>4. /\ Len(past) \in Nat /\ Len(past') = Len(past) + 1
      /\ \A k \in 1..Len(past) : past'[k] = past[k]
  BY <1>2 DEF TablesTyped
<1>5. SinceIsShared'
  BY <1>2, <1>4 DEF LoginInv, SinceIsShared, UnderWay
<1>6. TicketsAreFresh'
  <2> SUFFICES ASSUME NEW t \in Tab, tabs[t].at = "asking", tabs[t].way = "kerberos"
               PROVE  \E k \in (tabs[t].since - 1)..Len(past') :
                        k > 0 /\ tabs[t].sids = past'[k][tabs[t].user]
    BY <1>2 DEF TicketsAreFresh
  <2>1. PICK k \in (tabs[t].since - 1)..Len(past) : k > 0 /\ tabs[t].sids = past[k][tabs[t].user]
    BY DEF LoginInv, TicketsAreFresh
  <2>2. tabs[t].since \in Nat
    BY SinceIsNat
  <2>3. k \in 1..Len(past) /\ k \in (tabs[t].since - 1)..Len(past')
    BY <1>4, <2>1, <2>2
  <2> QED
    BY <1>4, <2>1, <2>3
<1>7. LoginsAreFresh'
  <2> SUFFICES ASSUME NEW t \in Tab, tabs[t].at \in {"saving", "cookie"}
               PROVE  Granted(tabs[t].user, tabs[t].since, tabs[t].roles)'
    BY <1>2 DEF LoginsAreFresh
  <2>0. tabs[t].since \in Nat
    BY SinceIsNat
  <2>1. PICK v, since, R :
          v = tabs[t].user /\ since = tabs[t].since /\ since \in Nat /\ R = tabs[t].roles
    BY <2>0
  <2>2. Granted(v, since, R)
    BY <2>1 DEF LoginInv, LoginsAreFresh
  <2>3. Granted(v, since, R)'
    BY <1>2, <2>1, <2>2, FreshLater
  <2> QED
    BY <1>2, <2>1, <2>3 DEF Granted
<1>8. RowsAreFresh'
  <2> SUFFICES ASSUME NEW t \in Tab, tabs[t].at = "cookie", ~tabs[t].lost
               PROVE  /\ IdOf(tabs[t].user)' # 0
                      /\ Granted(tabs[t].user, tabs[t].since, users[IdOf(tabs[t].user)].roles)'
    BY <1>2 DEF RowsAreFresh
  <2>0. tabs[t].since \in Nat
    BY SinceIsNat
  <2>1. PICK v, since, R :
          v = tabs[t].user /\ since = tabs[t].since /\ since \in Nat /\ R = users[IdOf(tabs[t].user)].roles
    BY <2>0
  <2>2. IdOf(tabs[t].user) # 0 /\ Granted(v, since, R)
    BY <2>1 DEF LoginInv, RowsAreFresh
  <2>3. Granted(v, since, R)'
    BY <1>2, <2>1, <2>2, FreshLater
  <2>4. IdOf(tabs[t].user)' = IdOf(tabs[t].user)
    BY <1>2 DEF IdOf, SelectInSeq
  <2> QED
    BY <1>2, <2>1, <2>2, <2>3, <2>4 DEF Granted
<1>9. SessionsAreFresh'
  <2> SUFFICES ASSUME NEW t \in Tab, tabs[t].at \in {"in", "deleting"}, ~tabs[t].lost
               PROVE  Granted(tabs[t].user, tabs[t].since, tabs[t].roles)'
    BY <1>2 DEF SessionsAreFresh
  <2>0. tabs[t].since \in Nat
    BY SinceIsNat
  <2>1. PICK v, since, R :
          v = tabs[t].user /\ since = tabs[t].since /\ since \in Nat /\ R = tabs[t].roles
    BY <2>0
  <2>2. Granted(v, since, R)
    BY <2>1 DEF LoginInv, SessionsAreFresh
  <2>3. Granted(v, since, R)'
    BY <1>2, <2>1, <2>2, FreshLater
  <2> QED
    BY <1>2, <2>1, <2>3 DEF Granted
<1> QED
  BY <1>3, <1>5, <1>6, <1>7, <1>8, <1>9 DEF LoginInv

-----------------------------------------------------------------------------
(* Threads                                                                 *)

\* A login that is not yet a session has no thread in hand.
LEMMA LoginTab ==
  ASSUME TablesTyped, NEW t \in Tab,
         \/ \E u \in User, header \in Headers : Sso(t, u, header)
         \/ \E u \in User, right \in SUBSET {"local", "ldap"} : Password(t, u, right)
         \/ Asked(t) \/ SaveUser(t) \/ SaveFails(t) \/ Logout(t)
  PROVE  \A x \in Tab : tabs'[x] = tabs[x] \/ tabs'[x].at \notin {"in", "deleting"}
<1>1. ASSUME NEW w, Set(t, w), w.at \notin {"in", "deleting"}
      PROVE  \A x \in Tab : tabs'[x] = tabs[x] \/ tabs'[x].at \notin {"in", "deleting"}
  BY <1>1, OtherTabs
<1>2. Out.at \notin {"in", "deleting"}
  BY DEF Out
<1>3. ASSUME NEW r, NEW answer, Answered(t, r, answer)
      PROVE  \E w : Set(t, w) /\ w.at \notin {"in", "deleting"}
  BY <1>2, <1>3 DEF Answered
<1>4. ASSUME NEW u \in User, NEW header \in Headers, Sso(t, u, header)
      PROVE  \E w : Set(t, w) /\ w.at \notin {"in", "deleting"}
  BY <1>2, <1>3, <1>4 DEF Sso
<1>5. ASSUME NEW u \in User, NEW right \in SUBSET {"local", "ldap"}, Password(t, u, right)
      PROVE  \E w : Set(t, w) /\ w.at \notin {"in", "deleting"}
  BY <1>3, <1>5 DEF Password
<1>6. ASSUME Asked(t) PROVE \E w : Set(t, w) /\ w.at \notin {"in", "deleting"}
  BY <1>3, <1>6 DEF Asked, Found
<1>7. ASSUME SaveUser(t) \/ SaveFails(t)
      PROVE  \E w : Set(t, w) /\ w.at \notin {"in", "deleting"}
  <2>1. tabs[t] \in LoggingTab
    <3>1. tabs[t] \in TabState /\ tabs[t].at = "saving"
      BY <1>7 DEF TablesTyped, SaveUser, SaveFails
    <3> QED
      BY <3>1, TabKinds
  <2>2. /\ [tabs[t] EXCEPT !.at = "cookie"].at = "cookie"
        /\ [tabs[t] EXCEPT !.at = "cookie", !.lost = TRUE].at = "cookie"
    BY <2>1 DEF LoggingTab
  <2>3. \/ Set(t, Out) \/ Set(t, [tabs[t] EXCEPT !.at = "cookie"])
        \/ Set(t, [tabs[t] EXCEPT !.at = "cookie", !.lost = TRUE])
    BY <1>7 DEF SaveUser, SaveFails
  <2> QED
    BY <1>2, <2>2, <2>3
<1> QED
  BY <1>1, <1>2, <1>4, <1>5, <1>6, <1>7 DEF Logout

\* What the invariant asks of the threads, when one tab gets another thread in
\* hand, or none.
LEMMA TabsInHand ==
  ASSUME ThreadsInv, UNCHANGED <<threads, attached, late, gone>>,
         \A x \in Tab :
           \/ tabs'[x] = tabs[x]
           \/ tabs'[x].at \notin {"in", "deleting"}
           \/ tabs'[x].at = "in" /\ (tabs'[x].thread = "none" \/ threads[tabs'[x].thread].there)
  PROVE  ThreadsInv'
<1>1. OpenOrGone'
  <2> SUFFICES ASSUME NEW x \in Tab
               PROVE  /\ tabs'[x].at = "deleting" => tabs'[x].thread \in gone
                      /\ tabs'[x].at = "in" /\ tabs'[x].thread # "none" =>
                           threads[tabs'[x].thread].there \/ tabs'[x].thread \in gone
    BY DEF OpenOrGone
  <2> QED
    BY DEF ThreadsInv, OpenOrGone
<1>2. ChosenOrLate'
  <2> SUFFICES ASSUME NEW x \in Tab, tabs'[x].at = "deleting", NEW r \in attached,
                      r.thread = tabs'[x].thread
               PROVE  r \in tabs'[x].chosen \/ r.id \in late
    BY DEF ChosenOrLate
  <2> QED
    BY DEF ThreadsInv, ChosenOrLate
<1> QED
  BY <1>1, <1>2 DEF ThreadsInv, ThreadsKeepAuthors, OrphansAreLate

\* What a tab in a session is.
LEMMA InSession ==
  ASSUME TablesTyped, NEW t \in Tab, tabs[t].at \in {"in", "deleting"}
  PROVE  tabs[t] \in SessionTab
<1>1. tabs[t] \in TabState
  BY DEF TablesTyped
<1> QED
  BY <1>1, TabKinds

\* The tables of threads hold rows of their kinds.
ThreadTables ==
  threads \in [Thread -> ThreadRow] /\ attached \subseteq AttachedRow /\ gone \subseteq Thread

\* A thread is written with its author, and reopened by its author.
LEMMA FirstMessageKeeps ==
  ASSUME TablesTyped, ThreadsInv, LoginInv, NEW t \in Tab, NEW h \in Thread, FirstMessage(t, h)
  PROVE  ThreadsInv' /\ LoginInv' /\ tabs' \in [Tab -> TabState] /\ ThreadTables'
<1>1. tabs[t] \in SessionTab
  BY InSession DEF FirstMessage
<1>2. PICK w : w = [tabs[t] EXCEPT !.thread = h]
  OBVIOUS
<1>3. /\ w \in SessionTab /\ w.user = tabs[t].user /\ w.since = tabs[t].since
      /\ w.roles = tabs[t].roles /\ w.lost = tabs[t].lost /\ w.thread = h /\ w.at = tabs[t].at
  BY <1>1, <1>2 DEF SessionTab
<1>4. Set(t, w) /\ UNCHANGED <<past, users, attached, late, gone>>
  BY <1>2 DEF FirstMessage, logging
<1>5. \A x \in Tab : tabs'[x] = IF x = t THEN w ELSE tabs[x]
  BY <1>4, OtherTabs
<1>6. PICK id \in Nat \ {0} : id = tabs[t].id
  BY <1>1 DEF SessionTab
<1>7. threads' = [threads EXCEPT ![h] = [there |-> TRUE, owner |-> id]]
  BY <1>6 DEF FirstMessage, Updated
<1>8. /\ threads'[h] = [there |-> TRUE, owner |-> id]
      /\ \A k \in Thread : k # h => threads'[k] = threads[k]
  BY <1>7 DEF TablesTyped
<1>9. ThreadTables'
  BY <1>4, <1>7 DEF TablesTyped, ThreadTables, ThreadRow
<1>10. OpenOrGone'
  <2> SUFFICES ASSUME NEW x \in Tab
               PROVE  /\ tabs'[x].at = "deleting" => tabs'[x].thread \in gone
                      /\ tabs'[x].at = "in" /\ tabs'[x].thread # "none" =>
                           threads'[tabs'[x].thread].there \/ tabs'[x].thread \in gone
    BY <1>4 DEF OpenOrGone
  <2>1. CASE x = t
    BY <1>3, <1>5, <1>8, <2>1 DEF FirstMessage
  <2>2. CASE x # t
    <3>1. tabs'[x] = tabs[x]
      BY <1>5, <2>2
    <3>2. tabs[x].at = "in" /\ tabs[x].thread # "none" => tabs[x].thread \in Thread
      BY InSession DEF SessionTab
    <3> QED
      BY <1>8, <3>1, <3>2 DEF ThreadsInv, OpenOrGone
  <2> QED
    BY <2>1, <2>2
<1>11. ChosenOrLate'
  <2> SUFFICES ASSUME NEW x \in Tab, tabs'[x].at = "deleting", NEW r \in attached,
                      r.thread = tabs'[x].thread
               PROVE  r \in tabs'[x].chosen \/ r.id \in late
    BY <1>4 DEF ChosenOrLate
  <2>1. tabs'[x] = tabs[x]
    BY <1>3, <1>5 DEF FirstMessage
  <2> QED
    BY <2>1 DEF ThreadsInv, ChosenOrLate
<1>12. ThreadsKeepAuthors'
  BY <1>4, <1>6, <1>8 DEF ThreadsInv, ThreadsKeepAuthors
<1>13. OrphansAreLate'
  BY <1>4, <1>8 DEF ThreadsInv, OrphansAreLate, TablesTyped, AttachedRow
<1>14. LoginInv' /\ tabs' \in [Tab -> TabState]
  BY <1>1, <1>3, <1>4, SessionKeeps
<1> QED
  BY <1>9, <1>10, <1>11, <1>12, <1>13, <1>14 DEF ThreadsInv

\* Reopening changes no table.
LEMMA ResumeKeeps ==
  ASSUME TablesTyped, ThreadsInv, LoginInv, NEW t \in Tab, NEW h \in Thread, Resume(t, h)
  PROVE  ThreadsInv' /\ LoginInv' /\ tabs' \in [Tab -> TabState]
<1>1. tabs[t] \in SessionTab
  BY InSession DEF Resume
<1>2. PICK w : w = [tabs[t] EXCEPT !.thread = h]
  OBVIOUS
<1>3. /\ w \in SessionTab /\ w.user = tabs[t].user /\ w.since = tabs[t].since
      /\ w.roles = tabs[t].roles /\ w.lost = tabs[t].lost /\ w.thread = h /\ w.at = tabs[t].at
  BY <1>1, <1>2 DEF SessionTab
<1>4. Set(t, w) /\ UNCHANGED <<past, users, threads, attached, late, gone>>
  BY <1>2 DEF Resume, logging, writing
<1>5. \A x \in Tab : tabs'[x] = IF x = t THEN w ELSE tabs[x]
  BY <1>4, OtherTabs
<1>6. w.at = "in" /\ threads[w.thread].there
  BY <1>3 DEF Resume, AuthorIs
<1>7. ThreadsInv'
  BY <1>4, <1>5, <1>6, TabsInHand
<1> QED
  BY <1>1, <1>3, <1>4, <1>7, SessionKeeps

\* An update of a thread's metadata leaves its author, or makes a row without one
\* of a thread that is being deleted.
LEMMA KeepMetadataKeeps ==
  ASSUME TablesTyped, ThreadsInv, NEW t \in Tab, KeepMetadata(t)
  PROVE  ThreadsInv' /\ ThreadTables'
<1>1. PICK h \in Thread : h = tabs[t].thread
  BY InSession DEF KeepMetadata, SessionTab
<1>2. PICK owner \in Nat : owner = threads[h].owner
  BY DEF TablesTyped, ThreadRow
<1>3. threads' = [threads EXCEPT ![h] = [there |-> TRUE, owner |-> owner]]
  BY <1>1, <1>2 DEF KeepMetadata, Updated
<1>4. /\ threads'[h] = [there |-> TRUE, owner |-> owner]
      /\ \A k \in Thread : k # h => threads'[k] = threads[k]
  BY <1>3 DEF TablesTyped
<1>5. UNCHANGED <<tabs, attached, late, gone>>
  BY DEF KeepMetadata
<1>6. ThreadTables'
  BY <1>3, <1>5 DEF TablesTyped, ThreadTables, ThreadRow
<1>7. OpenOrGone'
  <2> SUFFICES ASSUME NEW x \in Tab
               PROVE  /\ tabs[x].at = "deleting" => tabs[x].thread \in gone
                      /\ tabs[x].at = "in" /\ tabs[x].thread # "none" =>
                           threads'[tabs[x].thread].there \/ tabs[x].thread \in gone
    BY <1>5 DEF OpenOrGone
  <2>1. tabs[x].at = "in" /\ tabs[x].thread # "none" => tabs[x].thread \in Thread
    BY InSession DEF SessionTab
  <2> QED
    BY <1>4, <2>1 DEF ThreadsInv, OpenOrGone
<1>8. ChosenOrLate'
  BY <1>5 DEF ThreadsInv, ChosenOrLate
<1>9. ThreadsKeepAuthors'
  BY <1>1, <1>2, <1>4, <1>5 DEF ThreadsInv, ThreadsKeepAuthors, OpenOrGone, KeepMetadata
<1>10. OrphansAreLate'
  BY <1>4, <1>5 DEF ThreadsInv, OrphansAreLate, TablesTyped, AttachedRow
<1> QED
  BY <1>6, <1>7, <1>8, <1>9, <1>10 DEF ThreadsInv

\* A row that is written to a thread is late if a deletion of it has begun.
LEMMA AddRowKeeps ==
  ASSUME TablesTyped, ThreadsInv, NEW t \in Tab, NEW k \in RowId, AddRow(t, k)
  PROVE  ThreadsInv' /\ ThreadTables'
<1>1. PICK h \in Thread : h = tabs[t].thread
  BY InSession DEF AddRow, SessionTab
<1>2. PICK new : new = [id |-> k, thread |-> h]
  OBVIOUS
<1>3. /\ attached' = {r \in attached : r.id # k} \cup {new}
      /\ late' = IF h \in gone THEN late \cup {k} ELSE late \ {k}
      /\ UNCHANGED <<tabs, threads, gone>>
  BY <1>1, <1>2 DEF AddRow
<1>4. new \in AttachedRow /\ new.id = k /\ new.thread = h
  BY <1>2 DEF AttachedRow
<1>5. \A r \in attached' : r = new \/ (r \in attached /\ (r.id \in late => r.id \in late'))
  BY <1>3
<1>6. h \in gone => new.id \in late'
  BY <1>3, <1>4
<1>7. threads[h].there \/ h \in gone
  BY <1>1 DEF ThreadsInv, OpenOrGone, AddRow
<1>8. ThreadTables'
  BY <1>3, <1>4 DEF TablesTyped, ThreadTables
<1>9. OpenOrGone' /\ ThreadsKeepAuthors'
  BY <1>3 DEF ThreadsInv, OpenOrGone, ThreadsKeepAuthors
<1>10. ChosenOrLate'
  <2> SUFFICES ASSUME NEW x \in Tab, tabs[x].at = "deleting", NEW r \in attached',
                      r.thread = tabs[x].thread
               PROVE  r \in tabs[x].chosen \/ r.id \in late'
    BY <1>3 DEF ChosenOrLate
  <2>1. tabs[x].thread \in gone
    BY DEF ThreadsInv, OpenOrGone
  <2>2. CASE r = new
    BY <1>4, <1>6, <2>1, <2>2
  <2>3. CASE r \in attached /\ (r.id \in late => r.id \in late')
    BY <2>3 DEF ThreadsInv, ChosenOrLate
  <2> QED
    BY <1>5, <2>2, <2>3
<1>11. OrphansAreLate'
  <2> SUFFICES ASSUME NEW r \in attached', ~threads[r.thread].there PROVE r.id \in late'
    BY <1>3 DEF OrphansAreLate
  <2>1. CASE r = new
    BY <1>4, <1>6, <1>7, <2>1
  <2>2. CASE r \in attached /\ (r.id \in late => r.id \in late')
    BY <2>2 DEF ThreadsInv, OrphansAreLate
  <2> QED
    BY <1>5, <2>1, <2>2
<1> QED
  BY <1>8, <1>9, <1>10, <1>11 DEF ThreadsInv

\* A row that is removed is nobody's any more.
LEMMA RemoveRowKeeps ==
  ASSUME TablesTyped, ThreadsInv, NEW t \in Tab, NEW k \in RowId, RemoveRow(t, k)
  PROVE  ThreadsInv' /\ ThreadTables'
<1>1. attached' \subseteq attached /\ UNCHANGED <<tabs, threads, late, gone>>
  BY DEF RemoveRow
<1> QED
  BY <1>1 DEF TablesTyped, ThreadTables, ThreadsInv, OpenOrGone, ChosenOrLate, ThreadsKeepAuthors,
              OrphansAreLate

\* A deletion begins with all the rows of its thread.
LEMMA BeginDeleteKeeps ==
  ASSUME TablesTyped, ThreadsInv, LoginInv, NEW t \in Tab, NEW h \in Thread, BeginDelete(t, h)
  PROVE  ThreadsInv' /\ LoginInv' /\ tabs' \in [Tab -> TabState] /\ ThreadTables'
<1>1. tabs[t] \in SessionTab
  BY InSession DEF BeginDelete
<1>2. PICK swept : swept = {r \in attached : r.thread = h}
  OBVIOUS
<1>3. PICK w : w = [tabs[t] EXCEPT !.at = "deleting", !.thread = h, !.chosen = swept]
  OBVIOUS
<1>4. swept \in SUBSET AttachedRow
  BY <1>2 DEF TablesTyped
<1>5. /\ w \in SessionTab /\ w.user = tabs[t].user /\ w.since = tabs[t].since
      /\ w.roles = tabs[t].roles /\ w.lost = tabs[t].lost
      /\ w.thread = h /\ w.at = "deleting" /\ w.chosen = swept
  BY <1>1, <1>3, <1>4 DEF SessionTab
<1>6. /\ Set(t, w) /\ UNCHANGED <<past, users, threads, attached, late>>
      /\ gone' = gone \cup {h}
  BY <1>2, <1>3 DEF BeginDelete, logging
<1>7. \A x \in Tab : tabs'[x] = IF x = t THEN w ELSE tabs[x]
  BY <1>6, OtherTabs
<1>8. ThreadTables'
  BY <1>6 DEF TablesTyped, ThreadTables
<1>9. OpenOrGone'
  <2> SUFFICES ASSUME NEW x \in Tab
               PROVE  /\ tabs'[x].at = "deleting" => tabs'[x].thread \in gone'
                      /\ tabs'[x].at = "in" /\ tabs'[x].thread # "none" =>
                           threads[tabs'[x].thread].there \/ tabs'[x].thread \in gone'
    BY <1>6 DEF OpenOrGone
  <2>1. CASE x = t
    BY <1>5, <1>6, <1>7, <2>1
  <2>2. CASE x # t
    BY <1>6, <1>7, <2>2 DEF ThreadsInv, OpenOrGone
  <2> QED
    BY <2>1, <2>2
<1>10. ChosenOrLate'
  <2> SUFFICES ASSUME NEW x \in Tab, tabs'[x].at = "deleting", NEW r \in attached,
                      r.thread = tabs'[x].thread
               PROVE  r \in tabs'[x].chosen \/ r.id \in late
    BY <1>6 DEF ChosenOrLate
  <2>1. CASE x = t
    BY <1>2, <1>5, <1>7, <2>1
  <2>2. CASE x # t
    BY <1>7, <2>2 DEF ThreadsInv, ChosenOrLate
  <2> QED
    BY <2>1, <2>2
<1>11. ThreadsKeepAuthors' /\ OrphansAreLate'
  BY <1>6 DEF ThreadsInv, ThreadsKeepAuthors, OrphansAreLate
<1>12. LoginInv' /\ tabs' \in [Tab -> TabState]
  BY <1>1, <1>5, <1>6, SessionKeeps
<1> QED
  BY <1>8, <1>9, <1>10, <1>11, <1>12 DEF ThreadsInv

\* A deletion that ends leaves its tab with no thread in hand.
LEMMA ClosedTab ==
  ASSUME TablesTyped, LoginInv, NEW t \in Tab, tabs[t].at = "deleting", Closed(t),
         UNCHANGED <<past, users>>
  PROVE  /\ LoginInv' /\ tabs' \in [Tab -> TabState]
         /\ tabs'[t].at = "in" /\ tabs'[t].thread = "none"
         /\ \A x \in Tab : x # t => tabs'[x] = tabs[x]
<1>1. tabs[t] \in SessionTab
  BY InSession
<1>2. PICK w : w = [tabs[t] EXCEPT !.at = "in", !.thread = "none", !.chosen = {}]
  OBVIOUS
<1>3. /\ w \in SessionTab /\ w.user = tabs[t].user /\ w.since = tabs[t].since
      /\ w.roles = tabs[t].roles /\ w.lost = tabs[t].lost
      /\ w.thread = "none" /\ w.at = "in"
  BY <1>1, <1>2 DEF SessionTab
<1>4. Set(t, w)
  BY <1>2 DEF Closed
<1>5. LoginInv' /\ tabs' \in [Tab -> TabState]
  BY <1>1, <1>3, <1>4, SessionKeeps
<1> QED
  BY <1>3, <1>4, <1>5, OtherTabs

\* What a deletion leaves of its thread came after it.
LEMMA CommitDeleteKeeps ==
  ASSUME TablesTyped, ThreadsInv, LoginInv, NEW t \in Tab, CommitDelete(t)
  PROVE  ThreadsInv' /\ LoginInv' /\ tabs' \in [Tab -> TabState] /\ ThreadTables'
<1>1. tabs[t].at = "deleting" /\ Closed(t) /\ UNCHANGED <<past, users, late, gone>>
  BY DEF CommitDelete, logging
<1>2. PICK h \in Thread \cup {"none"} : h = tabs[t].thread
  BY <1>1, InSession DEF SessionTab
<1>3. h \in gone /\ h \in Thread
  BY <1>1, <1>2 DEF ThreadsInv, OpenOrGone, TablesTyped
<1>4. PICK swept : swept = tabs[t].chosen
  OBVIOUS
<1>5. threads' = [threads EXCEPT ![h] = NoRow] /\ attached' = attached \ swept
  BY <1>2, <1>4 DEF CommitDelete
<1>6. threads'[h] = NoRow /\ \A k \in Thread : k # h => threads'[k] = threads[k]
  BY <1>3, <1>5 DEF TablesTyped
<1>7. /\ LoginInv' /\ tabs' \in [Tab -> TabState] /\ tabs'[t].at = "in" /\ tabs'[t].thread = "none"
      /\ \A x \in Tab : x # t => tabs'[x] = tabs[x]
  BY <1>1, ClosedTab
<1>8. ThreadTables'
  BY <1>1, <1>5 DEF TablesTyped, ThreadTables, ThreadRow, NoRow
<1>9. OpenOrGone'
  <2> SUFFICES ASSUME NEW x \in Tab
               PROVE  /\ tabs'[x].at = "deleting" => tabs'[x].thread \in gone
                      /\ tabs'[x].at = "in" /\ tabs'[x].thread # "none" =>
                           threads'[tabs'[x].thread].there \/ tabs'[x].thread \in gone
    BY <1>1 DEF OpenOrGone
  <2>1. CASE x = t
    BY <1>7, <2>1
  <2>2. CASE x # t
    <3>1. tabs'[x] = tabs[x]
      BY <1>7, <2>2
    <3>2. tabs[x].at = "in" /\ tabs[x].thread # "none" => tabs[x].thread \in Thread
      BY InSession DEF SessionTab
    <3> QED
      BY <1>3, <1>6, <3>1, <3>2 DEF ThreadsInv, OpenOrGone
  <2> QED
    BY <2>1, <2>2
<1>10. ChosenOrLate'
  <2> SUFFICES ASSUME NEW x \in Tab, tabs'[x].at = "deleting", NEW r \in attached',
                      r.thread = tabs'[x].thread
               PROVE  r \in tabs'[x].chosen \/ r.id \in late
    BY <1>1 DEF ChosenOrLate
  <2>1. tabs'[x] = tabs[x] /\ r \in attached
    BY <1>5, <1>7
  <2> QED
    BY <2>1 DEF ThreadsInv, ChosenOrLate
<1>11. ThreadsKeepAuthors'
  BY <1>1, <1>6 DEF ThreadsInv, ThreadsKeepAuthors, NoRow
<1>12. OrphansAreLate'
  <2> SUFFICES ASSUME NEW r \in attached, r \notin swept, ~threads'[r.thread].there
               PROVE  r.id \in late
    BY <1>1, <1>5 DEF OrphansAreLate
  <2>1. CASE r.thread = h
    BY <1>1, <1>2, <1>4, <2>1 DEF ThreadsInv, ChosenOrLate
  <2>2. CASE r.thread # h
    <3>1. r.thread \in Thread
      BY DEF TablesTyped, AttachedRow
    <3> QED
      BY <1>6, <2>2, <3>1 DEF ThreadsInv, OrphansAreLate
  <2> QED
    BY <2>1, <2>2
<1> QED
  BY <1>7, <1>8, <1>9, <1>10, <1>11, <1>12 DEF ThreadsInv

\* A deletion that fails changes no table.
LEMMA RollbackDeleteKeeps ==
  ASSUME TablesTyped, ThreadsInv, LoginInv, NEW t \in Tab, RollbackDelete(t)
  PROVE  ThreadsInv' /\ LoginInv' /\ tabs' \in [Tab -> TabState]
<1>1. /\ tabs[t].at = "deleting" /\ Closed(t)
      /\ UNCHANGED <<past, users, threads, attached, late, gone>>
  BY DEF RollbackDelete, writing
<1>2. /\ LoginInv' /\ tabs' \in [Tab -> TabState] /\ tabs'[t].at = "in" /\ tabs'[t].thread = "none"
      /\ \A x \in Tab : x # t => tabs'[x] = tabs[x]
  BY <1>1, ClosedTab
<1> QED
  BY <1>1, <1>2, TabsInHand

-----------------------------------------------------------------------------
(* Every step of every tab                                                 *)

\* At first nobody is logged in and every table is empty.
LEMMA TablesInvInit == TablesInit => TablesInv
<1> SUFFICES ASSUME TablesInit PROVE TablesInv
  OBVIOUS
<1>1. PICK g \in [User -> SUBSET Group] : past = <<g>>
  BY DEF TablesInit
<1>2. past \in Seq([User -> SUBSET Group]) /\ past # <<>>
  BY <1>1
<1>3. \A t \in Tab : tabs[t] = Out /\ tabs[t].at = "out"
  BY DEF TablesInit, Out
<1>4. tabs \in [Tab -> TabState] /\ users \in Seq(UserRow)
  BY DEF TablesInit, TabState
<1>5. /\ threads \in [Thread -> ThreadRow] /\ attached = {} /\ gone = {}
      /\ \A h \in Thread : ~threads[h].there
  BY DEF TablesInit, ThreadRow, NoRow
<1>6. TablesTyped
  BY <1>2, <1>4, <1>5 DEF TablesTyped
<1>7. ThreadsInv
  BY <1>3, <1>5 DEF ThreadsInv, OpenOrGone, ChosenOrLate, ThreadsKeepAuthors, OrphansAreLate
<1>8. LoginInv
  BY <1>3 DEF LoginInv, SinceIsShared, TicketsAreFresh, LoginsAreFresh, RowsAreFresh,
              SessionsAreFresh, UnderWay
<1> QED
  BY <1>6, <1>7, <1>8 DEF TablesInv

\* A tab in the middle of a login keeps its part of the invariant, so the step does.
LEMMA WaitingKeeps ==
  ASSUME TablesTyped, LoginInv, NEW t \in Tab, UNCHANGED <<past, users>>,
         \E w \in TabState : Set(t, w) /\ FreshTab(t, w) /\ w.at \notin {"cookie", "in", "deleting"}
  PROVE  LoginInv' /\ tabs' \in [Tab -> TabState]
<1>1. PICK w \in TabState :
        Set(t, w) /\ FreshTab(t, w) /\ w.at \notin {"cookie", "in", "deleting"}
  OBVIOUS
<1> QED
  BY <1>1, OneTabSteps, RowsStay, OtherTabs

\* A login leaves the tables of threads alone.
LEMMA LoginStepKeeps ==
  ASSUME TablesInv, NEW t \in Tab,
         \/ \E u \in User, header \in Headers : Sso(t, u, header)
         \/ \E u \in User, right \in SUBSET {"local", "ldap"} : Password(t, u, right)
         \/ Asked(t) \/ SaveUser(t) \/ SaveFails(t) \/ Connect(t) \/ Logout(t)
  PROVE  TablesInv'
<1> USE DEF TablesInv
<1>1. UNCHANGED <<past, threads, attached, late, gone>>
  BY DEF Sso, Password, Asked, SaveUser, SaveFails, Connect, Logout, writing, logging
<1>2. LoginInv' /\ tabs' \in [Tab -> TabState] /\ users' \in Seq(UserRow)
  <2>1. CASE \E u \in User, header \in Headers : Sso(t, u, header)
    <3>1. users' = users
      BY <2>1 DEF Sso
    <3>2. \E w \in TabState :
            Set(t, w) /\ FreshTab(t, w) /\ w.at \notin {"cookie", "in", "deleting"}
      BY <2>1, SsoKeeps
    <3> QED
      BY <1>1, <3>1, <3>2, WaitingKeeps DEF TablesTyped
  <2>2. CASE \E u \in User, right \in SUBSET {"local", "ldap"} : Password(t, u, right)
    <3>1. users' = users
      BY <2>2 DEF Password
    <3>2. \E w \in TabState :
            Set(t, w) /\ FreshTab(t, w) /\ w.at \notin {"cookie", "in", "deleting"}
      BY <2>2, PasswordKeeps
    <3> QED
      BY <1>1, <3>1, <3>2, WaitingKeeps DEF TablesTyped
  <2>3. CASE Asked(t)
    <3>1. users' = users
      BY <2>3 DEF Asked
    <3>2. \E w \in TabState :
            Set(t, w) /\ FreshTab(t, w) /\ w.at \notin {"cookie", "in", "deleting"}
      BY <2>3, AskedKeeps
    <3> QED
      BY <1>1, <3>1, <3>2, WaitingKeeps DEF TablesTyped
  <2>4. CASE SaveUser(t)
    BY <2>4, SaveUserKeeps
  <2>5. CASE SaveFails(t)
    <3>1. users' = users
      BY <2>5 DEF SaveFails
    <3> QED
      BY <2>5, <3>1, SaveFailsKeeps DEF TablesTyped
  <2>6. CASE Connect(t)
    BY <2>6, ConnectKeeps
  <2>7. CASE Logout(t)
    <3>1. users' = users
      BY <2>7 DEF Logout, logging
    <3> QED
      BY <2>7, <3>1, LogoutKeeps DEF TablesTyped
  <2> QED
    BY <2>1, <2>2, <2>3, <2>4, <2>5, <2>6, <2>7
<1>3. ThreadsInv'
  <2>1. CASE Connect(t)
    <3>1. /\ tabs'[t].thread = "none" /\ tabs'[t].at = "in"
          /\ \A x \in Tab : x # t => tabs'[x] = tabs[x]
      BY <2>1, ConnectKeeps
    <3> QED
      BY <1>1, <3>1, TabsInHand
  <2>2. CASE ~Connect(t)
    <3>1. \A x \in Tab : tabs'[x] = tabs[x] \/ tabs'[x].at \notin {"in", "deleting"}
      BY <2>2, LoginTab
    <3> QED
      BY <1>1, <3>1, TabsInHand
  <2> QED
    BY <2>1, <2>2
<1>4. TablesTyped'
  BY <1>1, <1>2 DEF TablesTyped
<1> QED
  BY <1>2, <1>3, <1>4

\* What a session does with its threads leaves the users alone.
LEMMA SessionStepKeeps ==
  ASSUME TablesInv, NEW t \in Tab,
         \/ \E h \in Thread : FirstMessage(t, h) \/ Resume(t, h) \/ BeginDelete(t, h)
         \/ \E k \in RowId : AddRow(t, k) \/ RemoveRow(t, k)
         \/ KeepMetadata(t) \/ CommitDelete(t) \/ RollbackDelete(t)
  PROVE  TablesInv'
<1> USE DEF TablesInv
<1>1. UNCHANGED <<past, users>>
  BY DEF FirstMessage, Resume, BeginDelete, AddRow, RemoveRow, KeepMetadata, CommitDelete,
         RollbackDelete, logging
<1>2. ASSUME UNCHANGED tabs PROVE LoginInv' /\ tabs' \in [Tab -> TabState]
  <2>1. \A u : IdOf(u)' = IdOf(u)
    BY <1>1 DEF IdOf, SelectInSeq
  <2>2. UNCHANGED <<past, users, tabs>>
    BY <1>1, <1>2
  <2>3. SinceIsShared' /\ TicketsAreFresh' /\ LoginsAreFresh' /\ SessionsAreFresh'
    BY <2>2 DEF LoginInv, SinceIsShared, TicketsAreFresh, LoginsAreFresh, SessionsAreFresh,
                Granted, UnderWay
  <2>4. RowsAreFresh'
    BY <2>2 DEF LoginInv, RowsAreFresh, Granted, IdOf, SelectInSeq
  <2> QED
    BY <2>2, <2>3, <2>4 DEF LoginInv, TablesTyped
<1>3. ASSUME UNCHANGED <<threads, attached, gone>> PROVE ThreadTables'
  BY <1>3 DEF ThreadTables, TablesTyped
<1>4. ThreadsInv' /\ LoginInv' /\ tabs' \in [Tab -> TabState] /\ ThreadTables'
  <2>1. CASE \E h \in Thread : FirstMessage(t, h) \/ BeginDelete(t, h)
    BY <2>1, FirstMessageKeeps, BeginDeleteKeeps
  <2>2. CASE \E h \in Thread : Resume(t, h)
    <3>1. UNCHANGED <<threads, attached, gone>>
      BY <2>2 DEF Resume, writing
    <3> QED
      BY <1>3, <2>2, <3>1, ResumeKeeps
  <2>3. CASE \E k \in RowId : AddRow(t, k) \/ RemoveRow(t, k)
    <3>1. UNCHANGED tabs
      BY <2>3 DEF AddRow, RemoveRow
    <3> QED
      BY <1>2, <2>3, <3>1, AddRowKeeps, RemoveRowKeeps
  <2>4. CASE KeepMetadata(t)
    <3>1. UNCHANGED tabs
      BY <2>4 DEF KeepMetadata
    <3> QED
      BY <1>2, <2>4, <3>1, KeepMetadataKeeps
  <2>5. CASE CommitDelete(t)
    BY <2>5, CommitDeleteKeeps
  <2>6. CASE RollbackDelete(t)
    <3>1. UNCHANGED <<threads, attached, gone>>
      BY <2>6 DEF RollbackDelete, writing
    <3> QED
      BY <1>3, <2>6, <3>1, RollbackDeleteKeeps
  <2> QED
    BY <2>1, <2>2, <2>3, <2>4, <2>5, <2>6
<1>5. TablesTyped'
  BY <1>1, <1>4 DEF TablesTyped, ThreadTables
<1> QED
  BY <1>4, <1>5

\* So does a change of the directory.
LEMMA ChangeStepKeeps ==
  ASSUME TablesInv, NEW u \in User, NEW g \in SUBSET Group, Change(u, g) PROVE TablesInv'
<1>1. UNCHANGED <<tabs, users, threads, attached, late, gone>>
  BY DEF Change, writing
<1>2. LoginInv' /\ past' \in Seq([User -> SUBSET Group]) /\ past' # <<>>
  BY ChangeKeeps DEF TablesInv
<1>3. ThreadsInv'
  BY <1>1 DEF TablesInv, ThreadsInv, OpenOrGone, ChosenOrLate, ThreadsKeepAuthors, OrphansAreLate
<1> QED
  BY <1>1, <1>2, <1>3 DEF TablesInv, TablesTyped

\* Every step keeps the invariant.
LEMMA TablesInvStep == TablesInv /\ [TablesNext]_tableVars => TablesInv'
<1> SUFFICES ASSUME TablesInv, [TablesNext]_tableVars PROVE TablesInv'
  OBVIOUS
<1>1. CASE UNCHANGED tableVars
  <2>1. UNCHANGED <<past, tabs, users, threads, attached, late, gone>>
    BY <1>1 DEF tableVars, logging, writing
  <2>2. TablesTyped' /\ ThreadsInv'
    BY <2>1 DEF TablesInv, TablesTyped, ThreadsInv, OpenOrGone, ChosenOrLate, ThreadsKeepAuthors,
                OrphansAreLate
  <2>3. SinceIsShared' /\ TicketsAreFresh' /\ LoginsAreFresh' /\ SessionsAreFresh'
    BY <2>1 DEF TablesInv, LoginInv, SinceIsShared, TicketsAreFresh, LoginsAreFresh,
                SessionsAreFresh, Granted, UnderWay
  <2>4. RowsAreFresh'
    BY <2>1 DEF TablesInv, LoginInv, RowsAreFresh, Granted, IdOf, SelectInSeq
  <2> QED
    BY <2>2, <2>3, <2>4 DEF TablesInv, LoginInv
<1>2. CASE \E u \in User, g \in SUBSET Group : Change(u, g)
  BY <1>2, ChangeStepKeeps
<1>3. ASSUME NEW t \in Tab,
             \/ \E u \in User, header \in Headers : Sso(t, u, header)
             \/ \E u \in User, right \in SUBSET {"local", "ldap"} : Password(t, u, right)
             \/ Asked(t) \/ SaveUser(t) \/ SaveFails(t) \/ Connect(t) \/ Logout(t)
      PROVE  TablesInv'
  BY <1>3, LoginStepKeeps
<1>4. ASSUME NEW t \in Tab,
             \/ \E h \in Thread : FirstMessage(t, h) \/ Resume(t, h) \/ BeginDelete(t, h)
             \/ \E k \in RowId : AddRow(t, k) \/ RemoveRow(t, k)
             \/ KeepMetadata(t) \/ CommitDelete(t) \/ RollbackDelete(t)
      PROVE  TablesInv'
  BY <1>4, SessionStepKeeps
<1> QED
  BY <1>1, <1>2, <1>3, <1>4 DEF TablesNext

\* The invariant holds of users, threads and tabs whatever the connections do.
LEMMA TablesAreKept == AccountsSpec => []TablesInv
<1>1. AccountsInit => TablesInv
  BY TablesInvInit DEF AccountsInit
<1>2. TablesInv /\ [AccountsNext]_accountVars => TablesInv'
  <2>1. [AccountsNext]_accountVars => [TablesNext]_tableVars
    BY DEF AccountsNext, accountVars
  <2> QED
    BY <2>1, TablesInvStep
<1> QED
  BY <1>1, <1>2, PTL DEF AccountsSpec

\* Whatever the directory changes into while logins wait for it and for the
\* database, a session has only roles that something gave its user since the
\* oldest login it may have them from.
THEOREM SessionsGetFreshRoles == AccountsSpec => []RolesAreFresh
<1>1. TablesInv => RolesAreFresh
  BY DEF TablesInv, LoginInv, SessionsAreFresh, RolesAreFresh, Granted
<1> QED
  BY <1>1, TablesAreKept, PTL

\* Whoever writes late, a thread that is not being deleted has its author.
THEOREM AuthorsStay == AccountsSpec => []ThreadsKeepAuthors
<1>1. TablesInv => ThreadsKeepAuthors
  BY DEF TablesInv, ThreadsInv
<1> QED
  BY <1>1, TablesAreKept, PTL

\* Whatever is written between the statements of a deletion, it leaves of its
\* thread only what was written after it had begun.
THEOREM DeletionLeavesTheLate == AccountsSpec => []OrphansAreLate
<1>1. TablesInv => OrphansAreLate
  BY DEF TablesInv, ThreadsInv
<1> QED
  BY <1>1, TablesAreKept, PTL

-----------------------------------------------------------------------------
(* Keytab credentials and the environment of the process                   *)

CallStates == {"none", "queued", "credlock", "lifetime", "envlock", "kinit", "over", "failed"}
Places == {"idle", "ensuring", "locking", "connecting", "done", "gone"}

EnvTyped ==
  /\ pc \in [Conn -> Places]
  /\ state \in [Call -> CallStates]
  /\ env \in Cred \cup {Outside}
  /\ previous \in [Call -> Cred \cup {Outside}]
  /\ envLock \in Call \cup {Free}

\* Who has the lock: a thread in kinit, a coroutine in connect, and one that
\* has not come back yet with the lock its thread took.
HolderIs ==
  \A c \in Conn :
    /\ state[<<c, "ensure">>] = "kinit" => envLock = <<c, "ensure">>
    /\ pc[c] = "connecting" => envLock = <<c, "acquire">>
    /\ pc[c] = "locking" /\ state[<<c, "acquire">>] = "over" => envLock = <<c, "acquire">>

EInv == EnvTyped /\ HolderIs /\ OwnEnvironment

\* Calls of different coroutines, or of different kinds, are different.
LEMMA Calls ==
  ASSUME NEW c \in Conn, NEW d \in Conn
  PROVE  /\ <<c, "ensure">> \in Call /\ <<c, "acquire">> \in Call
         /\ <<c, "ensure">> # Free /\ <<c, "acquire">> # Free
         /\ <<c, "ensure">> # <<d, "acquire">>
         /\ <<c, "ensure">> = <<d, "ensure">> => c = d
         /\ <<c, "acquire">> = <<d, "acquire">> => c = d
  BY KerberosAssumption DEF Call

\* No connection is begun with variables of its own in place.
LEMMA EInvInit == Init => EInv
  BY KerberosAssumption
  DEF Init, EInv, EnvTyped, HolderIs, OwnEnvironment, CallStates, Places, Call

\* While one coroutine or its thread has the lock, nobody else has its
\* variables in the environment or is about to put them there.
LEMMA HolderAlone ==
  ASSUME HolderIs, NEW c \in Conn, NEW d \in Conn, c # d,
         envLock \in {Free, <<c, "ensure">>, <<c, "acquire">>}
  PROVE  /\ state[<<d, "ensure">>] # "kinit" /\ pc[d] # "connecting"
         /\ ~(pc[d] = "locking" /\ state[<<d, "acquire">>] = "over")
<1>1. /\ envLock # <<d, "ensure">> /\ envLock # <<d, "acquire">>
  BY Calls
<1> QED
  BY <1>1 DEF HolderIs

\* The lock is for one of the two: the thread of a coroutine, or the coroutine.
LEMMA HolderOnce ==
  ASSUME HolderIs, NEW c \in Conn
  PROVE  /\ envLock = Free => /\ state[<<c, "ensure">>] # "kinit" /\ pc[c] # "connecting"
                              /\ ~(pc[c] = "locking" /\ state[<<c, "acquire">>] = "over")
         /\ envLock = <<c, "ensure">> =>
              /\ pc[c] # "connecting"
              /\ ~(pc[c] = "locking" /\ state[<<c, "acquire">>] = "over")
         /\ envLock = <<c, "acquire">> => state[<<c, "ensure">>] # "kinit"
BY Calls DEF HolderIs

\* What a coroutine and its calls hold is what HolderIs and OwnEnvironment say
\* of it; a coroutine that has nothing to do with the lock says nothing.
Holds(c) ==
  /\ state[<<c, "ensure">>] = "kinit" => envLock = <<c, "ensure">>
  /\ pc[c] = "connecting" => envLock = <<c, "acquire">>
  /\ pc[c] = "locking" /\ state[<<c, "acquire">>] = "over" => envLock = <<c, "acquire">>
  /\ pc[c] = "connecting" \/ state[<<c, "ensure">>] = "kinit" => env = CredOf[c]

-----------------------------------------------------------------------------
\* Every step of the connections keeps the invariant.
LEMMA EInvStep == EInv /\ [Next]_vars => EInv'
<1> SUFFICES ASSUME EInv, [Next]_vars PROVE EInv'
  OBVIOUS
<1>0. ASSUME EnvTyped', \A d \in Conn : Holds(d)' PROVE EInv'
  BY <1>0 DEF EInv, HolderIs, OwnEnvironment, Holds
<1>a. \A d \in Conn : Holds(d)
  BY DEF EInv, HolderIs, OwnEnvironment, Holds
<1>b. HolderIs /\ EnvTyped
  BY DEF EInv
<1>1. CASE UNCHANGED vars
  BY <1>1, <1>0, <1>a, <1>b DEF vars, EnvTyped, Holds
<1>2. CASE TakeCall
  <2>1. EnvTyped'
    BY <1>2, <1>b DEF TakeCall, EnvTyped, coroutines, variables, locks, CallStates
  <2>2. ASSUME NEW d \in Conn PROVE Holds(d)'
    BY <1>2, <1>a, <1>b, Calls
    DEF TakeCall, EnvTyped, coroutines, variables, locks, Holds
  <2> QED
    BY <1>0, <2>1, <2>2
<1>3. ASSUME NEW c \in Conn, Begin(c) PROVE EInv'
  <2>1. EnvTyped'
    BY <1>3, <1>b DEF Begin, Submit, EnvTyped, variables, locks, CallStates, Places
  <2>2. ASSUME NEW d \in Conn PROVE Holds(d)'
    BY <1>3, <1>a, <1>b, Calls
    DEF Begin, Submit, EnvTyped, variables, locks, Holds
  <2> QED
    BY <1>0, <2>1, <2>2
<1>4. ASSUME NEW c \in Conn, LockCredentials(c) PROVE EInv'
  <2>1. EnvTyped'
    BY <1>4, <1>b DEF LockCredentials, EnvTyped, coroutines, variables, CallStates
  <2>2. ASSUME NEW d \in Conn PROVE Holds(d)'
    BY <1>4, <1>a, <1>b, Calls
    DEF LockCredentials, EnvTyped, coroutines, variables, Holds
  <2> QED
    BY <1>0, <2>1, <2>2
<1>5. ASSUME NEW c \in Conn, CheckLifetime(c) PROVE EInv'
  <2>0. \E to \in {"over", "envlock"} :
          state' = [state EXCEPT ![<<c, "ensure">>] = to]
    BY <1>5 DEF CheckLifetime
  <2>1. EnvTyped'
    BY <1>5, <2>0, <1>b DEF CheckLifetime, EnvTyped, coroutines, variables, CallStates
  <2>2. ASSUME NEW d \in Conn PROVE Holds(d)'
    BY <1>5, <2>0, <1>a, <1>b, Calls
    DEF CheckLifetime, EnvTyped, coroutines, variables, Holds
  <2> QED
    BY <1>0, <2>1, <2>2
<1>6. ASSUME NEW c \in Conn, Acquire(c) PROVE EInv'
  <2>0. PICK to \in {"over", "failed"} :
          state' = [state EXCEPT ![<<c, "ensure">>] = to]
    BY <1>6 DEF Acquire
  <2>1. EnvTyped'
    BY <1>6, <2>0, <1>b, Calls DEF Acquire, LeaveEnv, EnvTyped, coroutines, CallStates
  <2>2. envLock = <<c, "ensure">> /\ pc' = pc
    BY <1>6, <1>a DEF Acquire, Holds, coroutines
  <2>3. ASSUME NEW d \in Conn PROVE Holds(d)'
    <3>1. /\ pc'[d] # "connecting"
          /\ ~(pc[d] = "locking" /\ state[<<d, "acquire">>] = "over")
      BY <2>2, <1>b, HolderAlone, HolderOnce
    <3>2. state'[<<d, "acquire">>] = state[<<d, "acquire">>]
      BY <2>0, <1>b, Calls DEF EnvTyped
    <3>3. state'[<<d, "ensure">>] # "kinit"
      <4>1. CASE d = c
        BY <4>1, <2>0, <1>b, Calls DEF EnvTyped
      <4>2. CASE d # c
        <5>1. state[<<d, "ensure">>] # "kinit"
          BY <4>2, <2>2, <1>b, HolderAlone
        <5> QED
          BY <5>1, <4>2, <2>0, <1>b, Calls DEF EnvTyped
      <4> QED
        BY <4>1, <4>2
    <3> QED
      BY <3>1, <3>2, <3>3, <2>2 DEF Holds
  <2> QED
    BY <1>0, <2>1, <2>3
<1>7. ASSUME NEW c \in Conn, NEW kind \in {"ensure", "acquire"}, LockEnv(c, kind)
      PROVE  EInv'
  <2>0. /\ envLock = Free /\ envLock' = <<c, kind>> /\ pc' = pc
        /\ state[<<c, kind>>] = "envlock" /\ <<c, kind>> \in Call
    BY <1>7 DEF LockEnv, coroutines, Call
  <2>a. \A d \in Conn : /\ state[<<d, "ensure">>] # "kinit" /\ pc[d] # "connecting"
                        /\ ~(pc[d] = "locking" /\ state[<<d, "acquire">>] = "over")
    BY <2>0, <1>b, HolderOnce
  <2>1. CASE kind = "ensure"
    <3>1. /\ state' = [state EXCEPT ![<<c, "ensure">>] = "kinit"]
          /\ env' = CredOf[c] /\ previous' = [previous EXCEPT ![<<c, "ensure">>] = env]
      BY <1>7, <2>1 DEF LockEnv, Swap
    <3>2. EnvTyped'
      BY <3>1, <2>0, <1>b, KerberosAssumption DEF EnvTyped, CallStates
    <3>3. ASSUME NEW d \in Conn PROVE Holds(d)'
      <4>1. state'[<<d, "acquire">>] = state[<<d, "acquire">>]
        BY <3>1, <1>b, Calls DEF EnvTyped
      <4>2. state'[<<d, "ensure">>] = "kinit" => d = c
        BY <3>1, <2>a, <1>b, Calls DEF EnvTyped
      <4> QED
        BY <4>1, <4>2, <2>0, <2>1, <2>a, <3>1 DEF Holds
    <3> QED
      BY <1>0, <3>2, <3>3
  <2>2. CASE kind = "acquire"
    <3>1. /\ state' = [state EXCEPT ![<<c, "acquire">>] = "over"]
          /\ UNCHANGED <<env, previous>>
      BY <1>7, <2>2 DEF LockEnv, variables
    <3>2. EnvTyped'
      BY <3>1, <2>0, <1>b DEF EnvTyped, CallStates
    <3>3. ASSUME NEW d \in Conn PROVE Holds(d)'
      <4>1. state'[<<d, "ensure">>] = state[<<d, "ensure">>]
        BY <3>1, <1>b, Calls DEF EnvTyped
      <4>2. d # c => state'[<<d, "acquire">>] = state[<<d, "acquire">>]
        BY <3>1, <1>b, Calls DEF EnvTyped
      <4> QED
        BY <4>1, <4>2, <2>0, <2>2, <2>a DEF Holds
    <3> QED
      BY <1>0, <3>2, <3>3
  <2> QED
    BY <2>1, <2>2
<1>8. ASSUME NEW c \in Conn, Ensured(c) PROVE EInv'
  <2>1. EnvTyped'
    BY <1>8, <1>b DEF Ensured, Submit, EnvTyped, variables, locks, CallStates, Places
  <2>2. ASSUME NEW d \in Conn PROVE Holds(d)'
    BY <1>8, <1>a, <1>b, Calls
    DEF Ensured, Submit, EnvTyped, variables, locks, Holds
  <2> QED
    BY <1>0, <2>1, <2>2
<1>9. ASSUME NEW c \in Conn, EnsureFailed(c) PROVE EInv'
  <2>1. EnvTyped'
    BY <1>9, <1>b DEF EnsureFailed, executor, variables, locks, EnvTyped, Places
  <2>2. ASSUME NEW d \in Conn PROVE Holds(d)'
    BY <1>9, <1>a, <1>b DEF EnsureFailed, executor, variables, locks, EnvTyped, Holds
  <2> QED
    BY <1>0, <2>1, <2>2
<1>10. ASSUME NEW c \in Conn, Enter(c) PROVE EInv'
  <2>0. /\ pc[c] = "locking" /\ state[<<c, "acquire">>] = "over"
        /\ pc' = [pc EXCEPT ![c] = "connecting"]
        /\ env' = CredOf[c] /\ previous' = [previous EXCEPT ![<<c, "acquire">>] = env]
        /\ UNCHANGED <<state, envLock>>
    BY <1>10 DEF Enter, Swap, executor, locks
  <2>1. EnvTyped'
    BY <2>0, <1>b, KerberosAssumption DEF EnvTyped, Places
  <2>2. envLock = <<c, "acquire">> /\ state[<<c, "ensure">>] # "kinit"
    BY <2>0, <1>b, HolderOnce DEF HolderIs
  <2>3. ASSUME NEW d \in Conn PROVE Holds(d)'
    <3>1. CASE d = c
      BY <3>1, <2>0, <2>2, <1>b DEF Holds, EnvTyped
    <3>2. CASE d # c
      <4>1. /\ state[<<d, "ensure">>] # "kinit" /\ pc[d] # "connecting"
            /\ ~(pc[d] = "locking" /\ state[<<d, "acquire">>] = "over")
        BY <3>2, <2>2, <1>b, HolderAlone
      <4>2. pc'[d] = pc[d]
        BY <3>2, <2>0, <1>b DEF EnvTyped
      <4> QED
        BY <4>1, <4>2, <2>0 DEF Holds
    <3> QED
      BY <3>1, <3>2
  <2> QED
    BY <1>0, <2>1, <2>3
<1>11. ASSUME NEW c \in Conn, Leave(c) PROVE EInv'
  <2>0. PICK end \in {"done", "gone"} : pc' = [pc EXCEPT ![c] = end]
    BY <1>11 DEF Leave
  <2>a. /\ pc[c] = "connecting" /\ env' = previous[<<c, "acquire">>] /\ envLock' = Free
        /\ UNCHANGED <<state, previous>>
    BY <1>11 DEF Leave, LeaveEnv, executor
  <2>1. EnvTyped'
    BY <2>0, <2>a, <1>b, Calls DEF EnvTyped, Places
  <2>2. envLock = <<c, "acquire">> /\ state[<<c, "ensure">>] # "kinit"
    BY <2>a, <1>b, HolderOnce DEF HolderIs
  <2>3. ASSUME NEW d \in Conn PROVE Holds(d)'
    <3>1. CASE d = c
      BY <3>1, <2>0, <2>a, <2>2, <1>b DEF Holds, EnvTyped
    <3>2. CASE d # c
      <4>1. /\ state[<<d, "ensure">>] # "kinit" /\ pc[d] # "connecting"
            /\ ~(pc[d] = "locking" /\ state[<<d, "acquire">>] = "over")
        BY <3>2, <2>2, <1>b, HolderAlone
      <4>2. pc'[d] = pc[d]
        BY <3>2, <2>0, <1>b DEF EnvTyped
      <4> QED
        BY <4>1, <4>2, <2>a DEF Holds
    <3> QED
      BY <3>1, <3>2
  <2> QED
    BY <1>0, <2>1, <2>3
<1>12. ASSUME NEW c \in Conn, Cancel(c) PROVE EInv'
  <2>0. /\ pc' = [pc EXCEPT ![c] = "gone"]
        /\ state' = [j \in Call |-> IF j[1] = c /\ state[j] = "queued" THEN "none"
                                                                     ELSE state[j]]
        /\ IF pc[c] = "connecting"
             THEN /\ env' = previous[<<c, "acquire">>] /\ envLock' = Free
                  /\ UNCHANGED previous
             ELSE UNCHANGED <<env, previous, envLock>>
    BY <1>12 DEF Cancel, LeaveEnv, variables
  <2>1. EnvTyped'
    <3>1. state' \in [Call -> CallStates]
      BY <2>0, <1>b DEF EnvTyped, CallStates
    <3> QED
      BY <3>1, <2>0, <1>b, Calls DEF EnvTyped, Places
  <2>2. \A d \in Conn :
          /\ state'[<<d, "ensure">>] = "kinit" => state[<<d, "ensure">>] = "kinit"
          /\ state'[<<d, "acquire">>] = "over" => state[<<d, "acquire">>] = "over"
          /\ pc'[d] = IF d = c THEN "gone" ELSE pc[d]
    BY <2>0, <1>b, Calls DEF EnvTyped
  <2>3. ASSUME pc[c] = "connecting", NEW d \in Conn PROVE Holds(d)'
    <3>1. envLock = <<c, "acquire">> /\ state[<<c, "ensure">>] # "kinit"
      BY <2>3, <1>b, HolderOnce DEF HolderIs
    <3>2. d # c => /\ state[<<d, "ensure">>] # "kinit" /\ pc[d] # "connecting"
                   /\ ~(pc[d] = "locking" /\ state[<<d, "acquire">>] = "over")
      BY <3>1, <1>b, HolderAlone
    <3> QED
      BY <3>1, <3>2, <2>2 DEF Holds
  <2>4. ASSUME pc[c] # "connecting", NEW d \in Conn PROVE Holds(d)'
    BY <2>4, <2>0, <2>2, <1>a DEF Holds
  <2> QED
    BY <1>0, <2>1, <2>3, <2>4
<1>13. ASSUME NEW k \in Cred, Expire(k) PROVE EInv'
  BY <1>13, <1>0, <1>a, <1>b
  DEF Expire, coroutines, executor, variables, locks, EnvTyped, Holds
<1> QED
  BY <1>1, <1>2, <1>3, <1>4, <1>5, <1>6, <1>7, <1>8, <1>9, <1>10, <1>11, <1>12, <1>13
  DEF Next, ThreadStep, CoroutineStep

-----------------------------------------------------------------------------
\* Whoever talks to Kerberos finds its own variables in the environment,
\* whatever is cancelled when: the lock is held from _swapped to its end.
THEOREM EnvironmentIsOwn == KerberosSpec => []OwnEnvironment
<1>1. KerberosInit => EInv
  BY EInvInit DEF KerberosInit
<1>2. EInv /\ [KerberosNext]_<<vars, ticketVars>> => EInv'
  <2>1. [KerberosNext]_<<vars, ticketVars>> => [Next]_vars
    BY DEF KerberosNext
  <2> QED
    BY <2>1, EInvStep
<1>3. EInv => OwnEnvironment
  BY DEF EInv
<1> QED
  BY <1>1, <1>2, <1>3, PTL DEF KerberosSpec

-----------------------------------------------------------------------------
(* Delegated tickets                                                       *)

Stages == {"locking", "s4u", "over", "checking", "ensured", "expired", "renewing", "writing",
           "storing", "initiating"}
Working == [at : Stages, p : Principal, wants : {"token", "renewal", "nothing"},
            with : Nat, has : Nat]

TicketsTyped ==
  /\ cache \in [Principal -> Nat] /\ entry \in [Principal -> Nat]
  /\ seen \in [Principal -> Nat] /\ captured \in [Principal -> Nat]
  /\ behind \in [Principal -> BOOLEAN]
  /\ arriving \in Principal \cup {Nobody} /\ captures \in Nat
  /\ caller \in [Caller -> {Resting} \cup Working]

\* Logins are numbered as they come; the entry of one is known after its ticket
\* has been stored.
LoginsInOrder ==
  /\ \A p \in Principal :
       /\ captured[p] <= captures /\ entry[p] <= captured[p]
       /\ entry[p] # 0 /\ entry[p] = captured[p] => arriving # p
  /\ arriving # Nobody => captured[arriving] = captures /\ captures # 0

\* The ccache has a ticket of an earlier login only after a late renewal.
CacheFollows ==
  \A p \in Principal : ~behind[p] => cache[p] \in {0, captured[p]}

\* The same of what a renewal has read, if it is for the last login.
ReadFollows ==
  \A c \in Caller : caller[c] # Resting =>
    /\ caller[c].with <= captured[caller[c].p]
    /\ /\ caller[c].at \in {"writing", "storing", "expired"} /\ ~behind[caller[c].p]
       /\ caller[c].with = captured[caller[c].p]
       => caller[c].has \in {0, captured[caller[c].p]}

TicketsInv ==
  TicketsTyped /\ LoginsInOrder /\ CacheFollows /\ ReadFollows /\ TicketsFollowLogins

\* Before the first login there is nothing to follow.
LEMMA TicketsInvInit == TicketsInit => TicketsInv
  BY DEF TicketsInit, TicketsInv, TicketsTyped, LoginsInOrder, CacheFollows, ReadFollows,
         TicketsFollowLogins, Resting, Nobody

-----------------------------------------------------------------------------
\* Storing the ticket of a login: it outruns whoever is renewing.
LEMMA StoreKeeps ==
  ASSUME TicketsInv, NEW p \in Principal, NEW token \in Tokens, StoreTicket(p, token)
  PROVE  TicketsInv'
  <1> USE TicketsAssumption
  <1>0. /\ captures' = captures + 1 /\ arriving = Nobody /\ UNCHANGED <<entry, seen, caller>>
        /\ TicketsTyped /\ LoginsInOrder /\ CacheFollows /\ ReadFollows /\ TicketsFollowLogins
    BY DEF StoreTicket, Arrives, registry, TicketsInv
  <1>1. CASE UNCHANGED <<cache, captured, behind, arriving>>
    BY <1>0, <1>1 DEF TicketsInv, TicketsTyped, LoginsInOrder, CacheFollows, ReadFollows,
                      TicketsFollowLogins
  <1>2. CASE /\ cache' = [cache EXCEPT ![p] = captures']
             /\ captured' = [captured EXCEPT ![p] = captures']
             /\ behind' = [behind EXCEPT ![p] = FALSE] /\ arriving' = p
    <2>1. TicketsTyped'
      BY <1>0, <1>2 DEF TicketsTyped
    <2>2. \A q \in Principal :
            /\ captured'[q] = IF q = p THEN captures + 1 ELSE captured[q]
            /\ cache'[q] = IF q = p THEN captures + 1 ELSE cache[q]
            /\ behind'[q] = IF q = p THEN FALSE ELSE behind[q]
            /\ captured[q] \in Nat /\ captured[q] <= captures /\ captures \in Nat
            /\ entry[q] \in Nat /\ entry[q] <= captured[q]
      BY <1>0, <1>2 DEF TicketsTyped, LoginsInOrder
    <2>3. LoginsInOrder'
      <3>0. captures \in Nat /\ captures' = captures + 1 /\ captures' # 0
        BY <1>0 DEF TicketsTyped
      <3>1. captured'[p] = captures' /\ captures' # 0 /\ arriving' = p
        BY <1>2, <2>2, <3>0
      <3>2. ASSUME NEW q \in Principal
            PROVE  captured'[q] <= captures' /\ entry'[q] <= captured'[q]
        <4>1. /\ captured[q] \in Nat /\ captured[q] <= captures /\ captures \in Nat
              /\ entry[q] \in Nat /\ entry[q] <= captured[q]
              /\ captured'[q] = IF q = p THEN captures + 1 ELSE captured[q]
          BY <2>2
        <4>2. captures' = captures + 1 /\ entry'[q] = entry[q]
          BY <1>0
        <4> QED
          BY <4>1, <4>2
      <3>3. ASSUME NEW q \in Principal, entry'[q] = captured'[q] PROVE arriving' # q
        <4>0. /\ captured[p] \in Nat /\ captured[p] <= captures
              /\ entry[p] \in Nat /\ entry[p] <= captured[p]
          BY <2>2
        <4>1. entry[p] <= captures /\ entry[p] \in Nat /\ captures \in Nat
          BY <3>0, <4>0
        <4>2. CASE q = p
          <5>1. entry[p] = captures + 1
            BY <1>0, <3>1, <3>3, <4>2
          <5> QED
            BY <4>1, <5>1
        <4>3. CASE q # p
          BY <3>1, <4>3
        <4> QED
          BY <4>2, <4>3
      <3> QED
        BY <3>1, <3>2, <3>3 DEF LoginsInOrder
    <2>4. CacheFollows'
      BY <1>0, <2>2 DEF CacheFollows
    <2>5. ReadFollows'
      <3> SUFFICES ASSUME NEW c \in Caller, caller[c] # Resting
                   PROVE  /\ caller[c].with <= captured'[caller[c].p]
                          /\ /\ caller[c].at \in {"writing", "storing", "expired"}
                             /\ ~behind'[caller[c].p]
                             /\ caller[c].with = captured'[caller[c].p]
                             => caller[c].has \in {0, captured'[caller[c].p]}
        BY <1>0 DEF ReadFollows
      <3>1. caller[c].p \in Principal /\ caller[c].with \in Nat
        BY <1>0 DEF TicketsTyped, Working
      <3>2. caller[c].with <= captured[caller[c].p]
        BY <1>0 DEF ReadFollows
      <3>3. caller[c].p # p => /\ captured'[caller[c].p] = captured[caller[c].p]
                               /\ behind'[caller[c].p] = behind[caller[c].p]
        BY <2>2, <3>1
      <3>4. /\ caller[c].at \in {"writing", "storing", "expired"} /\ ~behind[caller[c].p]
            /\ caller[c].with = captured[caller[c].p]
            => caller[c].has \in {0, captured[caller[c].p]}
        BY <1>0 DEF ReadFollows
      <3>5. CASE caller[c].p = p
        <4>1. captured'[caller[c].p] = captures + 1 /\ captured[caller[c].p] <= captures
          BY <2>2, <3>5
        <4>2. captures \in Nat /\ captured[caller[c].p] \in Nat
          BY <2>2, <3>1
        <4>3. caller[c].with <= captures /\ caller[c].with # captures + 1
          BY <3>1, <3>2, <4>1, <4>2
        <4> QED
          BY <3>1, <4>1, <4>2, <4>3
      <3>6. CASE caller[c].p # p
        BY <3>2, <3>3, <3>4, <3>6
      <3> QED
        BY <3>5, <3>6
    <2>6. TicketsFollowLogins'
      BY <1>0, <1>2, <2>2 DEF TicketsFollowLogins, Nobody
    <2> QED
      BY <2>1, <2>3, <2>4, <2>5, <2>6 DEF TicketsInv
  <1> QED
    BY <1>1, <1>2 DEF StoreTicket, stored

\* And then its credentials.
LEMMA RegisterKeeps == ASSUME TicketsInv, Register PROVE TicketsInv'
  <1> USE TicketsAssumption
  <1>0. /\ arriving # Nobody /\ arriving' = Nobody
        /\ entry' = [entry EXCEPT ![arriving] = captures]
        /\ UNCHANGED <<cache, seen, caller, captured, behind, captures>>
        /\ TicketsTyped /\ LoginsInOrder /\ CacheFollows /\ ReadFollows /\ TicketsFollowLogins
    BY DEF Register, TicketsInv, stored, ticketBounds
  <1>1. arriving \in Principal /\ captured[arriving] = captures /\ captures # 0
    BY <1>0 DEF TicketsTyped, LoginsInOrder
  <1>2. TicketsTyped'
    BY <1>0, <1>1 DEF TicketsTyped
  <1>3. \A q \in Principal : entry'[q] = IF q = arriving THEN captured[q] ELSE entry[q]
    BY <1>0, <1>1 DEF TicketsTyped
  <1>4. LoginsInOrder'
    BY <1>0, <1>1, <1>3 DEF LoginsInOrder, TicketsTyped, Nobody
  <1>5. CacheFollows' /\ ReadFollows'
    BY <1>0 DEF CacheFollows, ReadFollows
  <1>6. TicketsFollowLogins'
    BY <1>0, <1>1, <1>3 DEF TicketsFollowLogins, CacheFollows
  <1> QED
    BY <1>2, <1>4, <1>5, <1>6 DEF TicketsInv

-----------------------------------------------------------------------------
\* A step of a caller that touches neither the ccache nor the registry: its
\* record is what has to follow.
LEMMA CallerMoves ==
  ASSUME TicketsInv, NEW c \in Caller, NEW rec, caller' = [caller EXCEPT ![c] = rec],
         UNCHANGED <<cache, entry, seen, captured, behind, arriving, captures>>,
         rec \in {Resting} \cup Working,
         rec # Resting =>
           /\ rec.with <= captured[rec.p]
           /\ /\ rec.at \in {"writing", "storing", "expired"} /\ ~behind[rec.p]
              /\ rec.with = captured[rec.p]
              => rec.has \in {0, captured[rec.p]}
  PROVE  TicketsInv'
  <1>1. TicketsTyped'
    BY DEF TicketsInv, TicketsTyped
  <1>2. \A d \in Caller : caller'[d] = IF d = c THEN rec ELSE caller[d]
    BY DEF TicketsInv, TicketsTyped
  <1>3. ReadFollows'
    BY <1>2 DEF TicketsInv, ReadFollows
  <1>4. LoginsInOrder' /\ CacheFollows' /\ TicketsFollowLogins'
    BY DEF TicketsInv, LoginsInOrder, CacheFollows, TicketsFollowLogins
  <1> QED
    BY <1>1, <1>3, <1>4 DEF TicketsInv

\* What is known of a caller at work.
LEMMA AtWork ==
  ASSUME TicketsInv, NEW c \in Caller, caller[c].at # "idle"
  PROVE  /\ caller[c] \in Working /\ caller[c] # Resting
         /\ caller[c].p \in Principal /\ caller[c].with \in Nat /\ caller[c].has \in Nat
         /\ caller[c].with <= captured[caller[c].p]
         /\ /\ caller[c].at \in {"writing", "storing", "expired"} /\ ~behind[caller[c].p]
            /\ caller[c].with = captured[caller[c].p]
            => caller[c].has \in {0, captured[caller[c].p]}
  <1>1. caller[c] # Resting /\ caller[c] \in Working
    BY DEF TicketsInv, TicketsTyped, Resting
  <1> QED
    BY <1>1 DEF TicketsInv, ReadFollows, Working

\* Another stage of the same caller keeps it, except where has is to be read.
LEMMA StageKeeps ==
  ASSUME TicketsInv, NEW c \in Caller, caller[c].at # "idle", NEW at \in Stages,
         at \in {"storing", "expired"} => caller[c].at \in {"writing", "storing", "expired"},
         at # "writing",
         caller' = [caller EXCEPT ![c] = [caller[c] EXCEPT !.at = at]],
         UNCHANGED <<cache, entry, seen, captured, behind, arriving, captures>>
  PROVE  TicketsInv'
  <1> DEFINE rec == [caller[c] EXCEPT !.at = at]
  <1>1. /\ rec \in Working /\ rec.at = at /\ rec.p = caller[c].p /\ rec.with = caller[c].with
        /\ rec.has = caller[c].has
    BY AtWork DEF Working
  <1>2. /\ rec.with <= captured[rec.p]
        /\ /\ rec.at \in {"writing", "storing", "expired"} /\ ~behind[rec.p]
           /\ rec.with = captured[rec.p]
           => rec.has \in {0, captured[rec.p]}
    BY <1>1, AtWork
  <1> HIDE DEF rec
  <1>3. caller' = [caller EXCEPT ![c] = rec]
    BY DEF rec
  <1> QED
    BY <1>1, <1>2, <1>3, CallerMoves

\* Reading the ccache: what is read for the last login is of the last login.
LEMMA ReadKeeps ==
  ASSUME TicketsInv, NEW c \in Caller, caller[c].at # "idle", NEW at \in Stages,
         caller' = [caller EXCEPT ![c] = [caller[c] EXCEPT !.at = at,
                                                           !.has = cache[caller[c].p]]],
         UNCHANGED <<cache, entry, seen, captured, behind, arriving, captures>>
  PROVE  TicketsInv'
  <1> DEFINE rec == [caller[c] EXCEPT !.at = at, !.has = cache[caller[c].p]]
  <1>1. cache[caller[c].p] \in Nat
    BY AtWork DEF TicketsInv, TicketsTyped
  <1>2. /\ rec \in Working /\ rec.p = caller[c].p /\ rec.with = caller[c].with
        /\ rec.has = cache[caller[c].p]
    BY <1>1, AtWork DEF Working
  <1>3. /\ rec.with <= captured[rec.p]
        /\ ~behind[rec.p] => rec.has \in {0, captured[rec.p]}
    BY <1>2, AtWork DEF TicketsInv, CacheFollows
  <1> HIDE DEF rec
  <1>4. caller' = [caller EXCEPT ![c] = rec]
    BY DEF rec
  <1> QED
    BY <1>2, <1>3, <1>4, CallerMoves

-----------------------------------------------------------------------------
\* What a renewal writes, or the entry it drops, is known to be behind when a
\* later login has come.
LEMMA WriteKeeps ==
  ASSUME TicketsInv, NEW c \in Caller, caller[c].at # "idle", NEW at \in Stages,
         NEW t \in {0, caller[c].has},
         caller[c].at \in {"writing", "storing", "expired"},
         caller' = [caller EXCEPT ![c] = [caller[c] EXCEPT !.at = at]],
         cache' = [cache EXCEPT ![caller[c].p] = t],
         behind' = [behind EXCEPT ![caller[c].p] = @ \/ Outrun(c)],
         UNCHANGED <<entry, seen, captured, arriving, captures>>
  PROVE  TicketsInv'
  <1> DEFINE p == caller[c].p
  <1>0. TicketsTyped /\ LoginsInOrder /\ CacheFollows /\ ReadFollows /\ TicketsFollowLogins
    BY DEF TicketsInv
  <1>1. /\ p \in Principal /\ caller[c] \in Working /\ caller[c].with \in Nat
        /\ caller[c].with <= captured[p] /\ t \in Nat /\ captured[p] \in Nat
    BY <1>0, AtWork DEF TicketsTyped
  <1>2. \A q \in Principal :
          /\ cache'[q] = IF q = p THEN t ELSE cache[q]
          /\ behind'[q] \in BOOLEAN
          /\ behind[q] => behind'[q]
    BY <1>0, <1>1 DEF TicketsTyped
  <1>a. behind' = [behind EXCEPT ![p] = behind[p] \/ caller[c].with < captured[p]]
    BY DEF Outrun
  <1>b. behind'[p] <=> (behind[p] \/ caller[c].with < captured[p])
    BY <1>0, <1>1, <1>a DEF TicketsTyped
  <1>3. ~behind'[p] => ~behind[p] /\ caller[c].with = captured[p]
    BY <1>1, <1>b
  <1>4. ~behind'[p] => t \in {0, captured[p]}
    BY <1>3, AtWork
  <1>5. CacheFollows'
    BY <1>0, <1>2, <1>4 DEF CacheFollows
  <1>6. LoginsInOrder'
    BY <1>0 DEF LoginsInOrder
  <1>7. TicketsFollowLogins'
    <2> SUFFICES ASSUME NEW q \in Principal, captured[q] # 0, arriving # q, ~behind'[q]
                 PROVE  /\ entry[q] \in {0, captured[q]}
                        /\ entry[q] = 0 => seen[q] \in {0, captured[q]}
                        /\ cache'[q] \in {0, captured[q]}
      BY DEF TicketsFollowLogins
    <2>1. ~behind[q]
      BY <1>2
    <2>2. cache'[q] \in {0, captured[q]}
      BY <1>5 DEF CacheFollows
    <2> QED
      BY <1>0, <2>1, <2>2 DEF TicketsFollowLogins
  <1> DEFINE rec == [caller[c] EXCEPT !.at = at]
  <1>8. /\ rec \in Working /\ rec.at = at /\ rec.p = p /\ rec.with = caller[c].with
        /\ rec.has = caller[c].has
    BY AtWork DEF Working
  <1>9. \A d \in Caller : caller'[d] = IF d = c THEN rec ELSE caller[d]
    BY <1>0 DEF TicketsTyped
  <1>10. TicketsTyped'
    <2>1. caller' \in [Caller -> {Resting} \cup Working]
      BY <1>0, <1>8 DEF TicketsTyped
    <2>2. cache' \in [Principal -> Nat] /\ behind' \in [Principal -> BOOLEAN]
      BY <1>0, <1>1, <1>a DEF TicketsTyped
    <2> QED
      BY <1>0, <2>1, <2>2 DEF TicketsTyped
  <1>11. ReadFollows'
    <2> SUFFICES ASSUME NEW d \in Caller, caller'[d] # Resting
                 PROVE  /\ caller'[d].with <= captured[caller'[d].p]
                        /\ /\ caller'[d].at \in {"writing", "storing", "expired"}
                           /\ ~behind'[caller'[d].p]
                           /\ caller'[d].with = captured[caller'[d].p]
                           => caller'[d].has \in {0, captured[caller'[d].p]}
      BY DEF ReadFollows
    <2>1. CASE d = c
      <3>1. caller'[d] = rec
        BY <1>9, <2>1
      <3>2. ~behind'[p] => ~behind[p]
        BY <1>3
      <3> HIDE DEF rec
      <3> QED
        BY <1>1, <1>8, <3>1, <3>2, AtWork
    <2>2. CASE d # c
      <3>1. caller'[d] = caller[d] /\ caller[d] # Resting
        BY <1>9, <2>2
      <3>2. caller[d].p \in Principal
        BY <1>0, <3>1 DEF TicketsTyped, Working
      <3>3. ~behind'[caller[d].p] => ~behind[caller[d].p]
        BY <1>2, <3>2
      <3> QED
        BY <1>0, <3>1, <3>3 DEF ReadFollows
    <2> QED
      BY <2>1, <2>2
  <1> QED
    BY <1>5, <1>6, <1>7, <1>10, <1>11 DEF TicketsInv

\* A renewal that failed drops the entry, whosever it is.
LEMMA RaisedKeeps == ASSUME TicketsInv, NEW c \in Caller, Raised(c) PROVE TicketsInv'
  <1> DEFINE p == caller[c].p
             rec == [caller[c] EXCEPT !.at = "over"]
  <1>0. /\ arriving = Nobody /\ caller[c].at = "expired" /\ caller' = [caller EXCEPT ![c] = rec]
        /\ UNCHANGED <<cache, arriving, captured, captures>>
        /\ TicketsTyped /\ LoginsInOrder /\ CacheFollows /\ ReadFollows /\ TicketsFollowLogins
    BY DEF Raised, Is, Now, Goes, stored, ticketBounds, TicketsInv
  <1>1. CASE UNCHANGED <<entry, seen, behind>>
    BY <1>0, <1>1, StageKeeps DEF Stages
  <1>2. CASE /\ entry' = [entry EXCEPT ![p] = 0]
             /\ seen' = [seen EXCEPT ![p] = caller[c].has]
             /\ behind' = [behind EXCEPT ![p] = @ \/ Outrun(c)]
    <2>1. /\ p \in Principal /\ caller[c] \in Working /\ caller[c].with \in Nat
          /\ caller[c].has \in Nat /\ caller[c].with <= captured[p] /\ captured[p] \in Nat
      BY <1>0, AtWork DEF TicketsTyped
    <2>2. behind' = [behind EXCEPT ![p] = behind[p] \/ caller[c].with < captured[p]]
      BY <1>2 DEF Outrun
    <2>3. behind'[p] <=> (behind[p] \/ caller[c].with < captured[p])
      BY <1>0, <2>1, <2>2 DEF TicketsTyped
    <2>4. \A q \in Principal : behind[q] => behind'[q]
      BY <1>0, <2>1, <2>2, <2>3 DEF TicketsTyped
    <2>5. ~behind'[p] => caller[c].has \in {0, captured[p]}
      BY <1>0, <2>1, <2>3, AtWork
    <2>6. \A q \in Principal : /\ entry'[q] = IF q = p THEN 0 ELSE entry[q]
                               /\ seen'[q] = IF q = p THEN caller[c].has ELSE seen[q]
      BY <1>0, <1>2, <2>1 DEF TicketsTyped
    <2>7. rec \in Working /\ rec.p = p /\ rec.with = caller[c].with /\ rec.at = "over"
      BY <2>1 DEF Working, Stages
    <2>8. TicketsTyped'
      <3>1. caller' \in [Caller -> {Resting} \cup Working]
        BY <1>0, <2>7 DEF TicketsTyped
      <3>2. behind' \in [Principal -> BOOLEAN]
        BY <1>0, <2>2 DEF TicketsTyped
      <3>3. entry' \in [Principal -> Nat] /\ seen' \in [Principal -> Nat]
        BY <1>0, <1>2, <2>1 DEF TicketsTyped
      <3> QED
        BY <1>0, <3>1, <3>2, <3>3 DEF TicketsTyped
    <2>9. LoginsInOrder'
      <3>1. \A q \in Principal : captured[q] \in Nat
        BY <1>0 DEF TicketsTyped
      <3> QED
        BY <1>0, <2>6, <3>1 DEF LoginsInOrder, Nobody
    <2>10. CacheFollows'
      BY <1>0, <2>4 DEF CacheFollows
    <2>11. ReadFollows'
      <3> HIDE DEF rec
      <3>1. \A d \in Caller : caller'[d] = IF d = c THEN rec ELSE caller[d]
        BY <1>0 DEF TicketsTyped
      <3>2. \A d \in Caller : caller[d] # Resting => caller[d].p \in Principal
        BY <1>0 DEF TicketsTyped, Working
      <3> QED
        BY <1>0, <2>1, <2>4, <2>7, <3>1, <3>2 DEF ReadFollows
    <2>12. TicketsFollowLogins'
      BY <1>0, <2>4, <2>5, <2>6 DEF TicketsFollowLogins
    <2> QED
      BY <2>8, <2>9, <2>10, <2>11, <2>12 DEF TicketsInv
  <1> QED
    BY <1>1, <1>2 DEF Raised, registry

-----------------------------------------------------------------------------
\* Every step of logins, callers and threads keeps it.
LEMMA TicketsInvStep == TicketsInv /\ [TicketsNext]_ticketVars => TicketsInv'
  <1> SUFFICES ASSUME TicketsInv, [TicketsNext]_ticketVars PROVE TicketsInv'
    OBVIOUS
  <1>1. CASE UNCHANGED ticketVars
    BY <1>1 DEF ticketVars, TicketsInv, TicketsTyped, LoginsInOrder, CacheFollows,
                ReadFollows, TicketsFollowLogins
  <1>2. ASSUME NEW c \in Caller, NEW p \in Principal, NEW wants \in {"token", "renewal"},
               Ask(c, p, wants)
        PROVE  TicketsInv'
    <2>1. PICK at \in {"locking", "s4u", "over"} :
            /\ caller' = [caller EXCEPT ![c] = [at |-> at, p |-> p, wants |-> wants,
                                                with |-> entry[p], has |-> 0]]
            /\ UNCHANGED <<cache, entry, seen, captured, behind, arriving, captures>>
      BY <1>2 DEF Ask, Goes, stored, registry
    <2> DEFINE rec == [at |-> at, p |-> p, wants |-> wants, with |-> entry[p], has |-> 0]
    <2>2. entry[p] \in Nat /\ entry[p] <= captured[p]
      BY DEF TicketsInv, TicketsTyped, LoginsInOrder
    <2>3. rec \in Working /\ rec.with = entry[p] /\ rec.p = p /\ rec.has = 0
      BY <2>2 DEF Working, Stages
    <2> HIDE DEF rec
    <2>4. caller' = [caller EXCEPT ![c] = rec]
      BY <2>1 DEF rec
    <2> QED
      BY <2>1, <2>2, <2>3, <2>4, CallerMoves
  <1>3. ASSUME NEW c \in Caller, Finish(c) PROVE TicketsInv'
    BY <1>3, CallerMoves DEF Finish, Goes, stored, registry, ticketBounds
  <1>4. ASSUME NEW c \in Caller, Forsake(c) PROVE TicketsInv'
    <2> DEFINE rec == [caller[c] EXCEPT !.wants = "nothing"]
    <2>1. /\ caller[c].at # "idle" /\ caller' = [caller EXCEPT ![c] = rec]
          /\ UNCHANGED <<cache, entry, seen, captured, behind, arriving, captures>>
      BY <1>4 DEF Forsake, Goes, stored, registry, ticketBounds
    <2>2. /\ rec \in Working /\ rec.at = caller[c].at /\ rec.p = caller[c].p
          /\ rec.with = caller[c].with /\ rec.has = caller[c].has
      BY <2>1, AtWork DEF Working
    <2> HIDE DEF rec
    <2> QED
      BY <2>1, <2>2, AtWork, CallerMoves
  <1>5. ASSUME NEW c \in Caller,
               TicketEnsured(c) \/ LockCreds(c) \/ S4u(c)
        PROVE  TicketsInv'
    <2>1. /\ caller[c].at # "idle"
          /\ \E at \in {"initiating", "over", "checking"} :
               caller' = [caller EXCEPT ![c] = [caller[c] EXCEPT !.at = at]]
          /\ UNCHANGED <<cache, entry, seen, captured, behind, arriving, captures>>
      BY <1>5 DEF TicketEnsured, LockCreds, S4u, Is, Now, Goes, stored, registry, ticketBounds
    <2> QED
      BY <2>1, StageKeeps DEF Stages
  <1>6. ASSUME NEW c \in Caller, CheckTicket(c) PROVE TicketsInv'
    <2>1. /\ caller[c].at # "idle"
          /\ \/ \E at \in {"ensured", "renewing"} :
                  caller' = [caller EXCEPT ![c] = [caller[c] EXCEPT !.at = at]]
             \/ caller' = [caller EXCEPT ![c] = [caller[c] EXCEPT !.at = "expired",
                                                   !.has = cache[caller[c].p]]]
          /\ UNCHANGED <<cache, entry, seen, captured, behind, arriving, captures>>
      BY <1>6 DEF CheckTicket, Is, Now, Goes, stored, registry, ticketBounds
    <2> QED
      BY <2>1, StageKeeps, ReadKeeps DEF Stages
  <1>7. ASSUME NEW c \in Caller, AskKdc(c) PROVE TicketsInv'
    <2>1. /\ caller[c].at # "idle"
          /\ \E at \in {"writing", "expired"} :
               caller' = [caller EXCEPT ![c] = [caller[c] EXCEPT !.at = at,
                                                   !.has = cache[caller[c].p]]]
          /\ UNCHANGED <<cache, entry, seen, captured, behind, arriving, captures>>
      BY <1>7 DEF AskKdc, Is, Now, Goes, stored, registry, ticketBounds
    <2> QED
      BY <2>1, ReadKeeps DEF Stages
  <1>8. ASSUME NEW c \in Caller, EmptyCache(c) \/ FillCache(c) PROVE TicketsInv'
    <2>1. CASE EmptyCache(c)
      BY <2>1, WriteKeeps DEF EmptyCache, Is, Now, Goes, stored, registry, ticketBounds, Stages
    <2>2. CASE FillCache(c)
      <3>0. /\ caller[c].at = "storing"
            /\ UNCHANGED <<entry, seen, arriving, captured, captures>>
        BY <2>2 DEF FillCache, Is, registry, ticketBounds
      <3>1. CASE /\ cache' = [cache EXCEPT ![caller[c].p] = caller[c].has]
                 /\ behind' = [behind EXCEPT ![caller[c].p] = @ \/ Outrun(c)]
                 /\ Now(c, "ensured")
        BY <3>0, <3>1, WriteKeeps DEF Now, Goes, Stages
      <3>2. CASE Now(c, "expired") /\ UNCHANGED <<stored, behind>>
        BY <3>0, <3>2, StageKeeps DEF Now, Goes, stored, Stages
      <3> QED
        BY <2>2, <3>1, <3>2 DEF FillCache
    <2> QED
      BY <1>8, <2>1, <2>2
  <1>9. ASSUME NEW c \in Caller, Initiate(c) PROVE TicketsInv'
    <2> DEFINE has == IF lives[caller[c].p] THEN cache[caller[c].p] ELSE 0
               rec == [caller[c] EXCEPT !.at = "over", !.has = has]
    <2>1. /\ caller[c].at # "idle" /\ caller' = [caller EXCEPT ![c] = rec]
          /\ UNCHANGED <<cache, entry, seen, captured, behind, arriving, captures>>
      BY <1>9 DEF Initiate, Is, Goes, stored, registry, ticketBounds
    <2>2. has \in Nat
      BY <2>1, AtWork DEF TicketsInv, TicketsTyped
    <2> HIDE DEF has
    <2>3. /\ rec \in Working /\ rec.at = "over" /\ rec.p = caller[c].p
          /\ rec.with = caller[c].with
      BY <2>1, <2>2, AtWork DEF Working, Stages
    <2> HIDE DEF rec
    <2> QED
      BY <2>1, <2>3, AtWork, CallerMoves
  <1>10. ASSUME NEW p \in Principal, Expires(p) PROVE TicketsInv'
    BY <1>10 DEF Expires, registry, TicketsInv, TicketsTyped, LoginsInOrder, CacheFollows,
                 ReadFollows, TicketsFollowLogins
  <1> QED
    BY <1>1, <1>2, <1>3, <1>4, <1>5, <1>6, <1>7, <1>8, <1>9, <1>10,
       StoreKeeps, RegisterKeeps, RaisedKeeps
    DEF TicketsNext

\* However logins, renewals, expiries and cancelled callers mix, the ticket and
\* the credentials of a principal are those of the last login, unless a renewal
\* for an earlier one ended after it.
THEOREM TicketsAreOfTheLastLogin == KerberosSpec => []TicketsFollowLogins
  <1>1. KerberosInit => TicketsInv
    BY TicketsInvInit DEF KerberosInit
  <1>2. TicketsInv /\ [KerberosNext]_<<vars, ticketVars>> => TicketsInv'
    <2>1. [KerberosNext]_<<vars, ticketVars>> => [TicketsNext]_ticketVars
      BY DEF KerberosNext
    <2> QED
      BY <2>1, TicketsInvStep
  <1>3. TicketsInv => TicketsFollowLogins
    BY DEF TicketsInv
  <1> QED
    BY <1>1, <1>2, <1>3, PTL DEF KerberosSpec
=============================================================================
