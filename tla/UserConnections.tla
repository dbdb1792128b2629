--------------------------- MODULE UserConnections ---------------------------
(***************************************************************************)
(* The table of connections and their grants: ConnectionStore.             *)
(*                                                                         *)
(* The pool commits every statement by itself, so an operation of several  *)
(* statements is several steps: delete drops the grants and then the row,  *)
(* grant and revoke by name look the id up first.  A task is one caller of *)
(* the store; it may be cancelled between its statements.  What a profile  *)
(* holds, and the encryption of its secrets, is no part of the model.      *)
(***************************************************************************)
EXTENDS Naturals, FiniteSets, FiniteSetsExt

CONSTANTS Task, Name,
          Target,    \* rows of users and of roles a connection is granted to
          MaxSaves, MaxTasks

ASSUME ConnectionsAssumption ==
  /\ MaxSaves \in Nat /\ MaxTasks \in Nat

VARIABLES
  conns,    \* table connections; born tells rows apart that had one id
  nextId,   \* the identity column
  grants,   \* table grants
  task,     \* what a caller is in the middle of
  asked,    \* grants asked for by name: the row meant, and to whom
  raced,    \* grants written while their connection was being deleted
  saves, begun

connVars == <<conns, nextId, grants, task, asked, raced, saves, begun>>

Idle == [at |-> "idle"]

ConnectionsInit ==
  /\ conns = {} /\ nextId = 1 /\ grants = {}
  /\ task = [a \in Task |-> Idle]
  /\ asked = {} /\ raced = {} /\ saves = 0 /\ begun = 0

Named(n) == {c \in conns : c.name = n}
Ids == {c.id : c \in conns}

-----------------------------------------------------------------------------
(* save: insert, or replace the profile in the row of that name            *)

\* Mutation: the id is the first that is free.
SaveReusesIds(n) ==
  /\ saves < MaxSaves /\ saves' = saves + 1
  /\ \/ /\ Named(n) = {}
        /\ LET id == CHOOSE i \in 1..nextId : i \notin Ids /\ \A j \in 1..(i - 1) : j \in Ids
           IN conns' = conns \cup {[id |-> id, name |-> n, born |-> nextId]}
        /\ nextId' = nextId + 1
     \/ /\ Named(n) # {}
        /\ UNCHANGED <<conns, nextId>>
  /\ UNCHANGED <<grants, task, asked, raced, begun>>

Save(n) ==
  /\ saves < MaxSaves /\ saves' = saves + 1
  /\ \/ /\ Named(n) = {}
        /\ conns' = conns \cup {[id |-> nextId, name |-> n, born |-> nextId]}
        /\ nextId' = nextId + 1
     \/ /\ Named(n) # {}
        /\ UNCHANGED <<conns, nextId>>
  /\ UNCHANGED <<grants, task, asked, raced, begun>>

-----------------------------------------------------------------------------
(* delete: two statements                                                  *)

BeginTask(a, what) ==
  /\ task[a] = Idle /\ begun < MaxTasks /\ begun' = begun + 1
  /\ task' = [task EXCEPT ![a] = what]

\* The grants of the connection of that name are found through its row.
DropGrants(n) ==
  /\ grants' = {g \in grants : \A c \in Named(n) : g.src # c.id}
  /\ UNCHANGED conns

DropRow(n) ==
  /\ conns' = conns \ Named(n)
  /\ UNCHANGED grants

Delete(a, n) ==
  /\ BeginTask(a, [at |-> "deleting", name |-> n])
  /\ DropGrants(n)
  /\ UNCHANGED <<nextId, asked, raced, saves>>

DeleteEnds(a) ==
  /\ task[a].at = "deleting"
  /\ DropRow(task[a].name)
  /\ task' = [task EXCEPT ![a] = Idle]
  /\ UNCHANGED <<nextId, asked, raced, saves, begun>>

-----------------------------------------------------------------------------
(* grant_connection and revoke_connection: look the id up, then write      *)

LookUp(a, n, op, t) ==
  \E c \in Named(n) :
    /\ BeginTask(a, [at |-> op, name |-> n, id |-> c.id, tgt |-> t])
    /\ asked' = IF op = "granting" THEN asked \cup {<<c.born, t>>} ELSE asked
    /\ UNCHANGED <<conns, nextId, grants, raced, saves>>

BeingDeleted(n, id) ==
  \/ id \notin Ids
  \/ \E a \in Task : task[a].at = "deleting" /\ task[a].name = n

Grant(a) ==
  /\ task[a].at = "granting"
  /\ LET g == [src |-> task[a].id, tgt |-> task[a].tgt] IN
     /\ grants' = grants \cup {g}
     /\ raced' = IF BeingDeleted(task[a].name, g.src) THEN raced \cup {g} ELSE raced
  /\ task' = [task EXCEPT ![a] = Idle]
  /\ UNCHANGED <<conns, nextId, asked, saves, begun>>

Revoke(a) ==
  /\ task[a].at = "revoking"
  /\ grants' = grants \ {[src |-> task[a].id, tgt |-> task[a].tgt]}
  /\ task' = [task EXCEPT ![a] = Idle]
  /\ UNCHANGED <<conns, nextId, asked, raced, saves, begun>>

\* The caller is cancelled between its statements.
Abandon(a) ==
  /\ task[a] # Idle
  /\ task' = [task EXCEPT ![a] = Idle]
  /\ UNCHANGED <<conns, nextId, grants, asked, raced, saves, begun>>

ConnectionsNext ==
  \/ \E n \in Name : Save(n)
  \/ \E a \in Task, n \in Name : Delete(a, n)
  \/ \E a \in Task : DeleteEnds(a)
  \/ \E a \in Task, n \in Name, t \in Target, op \in {"granting", "revoking"} : LookUp(a, n, op, t)
  \/ \E a \in Task : Grant(a)
  \/ \E a \in Task : Revoke(a)
  \/ \E a \in Task : Abandon(a)

-----------------------------------------------------------------------------
\* connections_for: the rows a target may use
Visible(t) == {c \in conns : [src |-> c.id, tgt |-> t] \in grants}

(***************************************************************************)
(* Who sees a connection was granted that very row by name, whatever was   *)
(* deleted and saved anew between the lookup and the grant.  A connection  *)
(* deleted takes its grants along, except those written meanwhile.         *)
(***************************************************************************)
GrantsFollowRows ==
  /\ \A t \in Target : \A c \in Visible(t) : <<c.born, t>> \in asked
  /\ \A g \in grants : g.src \in Ids \/ g \in raced
=============================================================================
