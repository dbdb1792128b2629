---------------------------- MODULE KerberosEnv ----------------------------
(***************************************************************************)
(* Kerberos connections of one process: KeytabCredentials.applied_async    *)
(* and the process-wide lock of KerberosEnv around the KRB5* variables.    *)
(*                                                                         *)
(* A coroutine first has its ticket ensured and then takes the lock, each  *)
(* time by a call in a thread of the loop's executor (asyncio.to_thread);  *)
(* it connects with the lock held and its own variables in place.  A call  *)
(* is known by its coroutine and what it does.  Cancelling a coroutine     *)
(* withdraws a call that is still queued; one that a thread has begun goes *)
(* on without it.                                                          *)
(***************************************************************************)
EXTENDS Naturals, Sequences, FiniteSets

CONSTANTS Conn,       \* coroutines that open a connection
          Cred,       \* KeytabCredentials, one per pool
          CredOf,     \* the credentials a coroutine connects with
          Threads,    \* threads of the executor
          Free,       \* nobody holds the lock
          Outside,    \* the environment the process was started with
          CancelAt,   \* awaits at which coroutines are cancelled
          MaxCancels, MaxExpiries  \* bounds

ASSUME KerberosAssumption ==
  /\ CredOf \in [Conn -> Cred]
  /\ Threads \in Nat \ {0}
  /\ CancelAt \subseteq {"ensuring", "locking", "connecting"}
  /\ Outside \notin Cred
  /\ Free \notin Conn \cup (Conn \X {"ensure", "acquire"})
  /\ MaxCancels \in Nat /\ MaxExpiries \in Nat

Call == Conn \X {"ensure", "acquire"}

VARIABLES
  pc,        \* where a coroutine is
  state,     \* where a call is
  queue,     \* calls that wait for a thread
  env,       \* whose values the KRB5* variables have
  previous,  \* what _swapped will put back
  envLock,   \* KerberosEnv._lock: the call that took it
  credLock,  \* KeytabCredentials._lock
  ticket,    \* the ccache holds a TGT that lives long enough
  cancels, expiries

vars == <<pc, state, queue, env, previous, envLock, credLock, ticket, cancels,
          expiries>>
coroutines == <<pc, cancels>>
executor == <<state, queue>>
variables == <<env, previous>>
locks == <<envLock, credLock>>
tickets == <<ticket, expiries>>

Init ==
  /\ pc = [c \in Conn |-> "idle"]
  /\ state = [j \in Call |-> "none"] /\ queue = <<>>
  /\ env = Outside /\ previous = [j \in Call |-> Outside]
  /\ envLock = Free /\ credLock = [k \in Cred |-> Free]
  /\ ticket = [k \in Cred |-> FALSE]
  /\ cancels = 0 /\ expiries = 0

-----------------------------------------------------------------------------
(* The environment: KerberosEnv._swapped and the release of the lock       *)

Swap(c, kind) ==
  /\ previous' = [previous EXCEPT ![<<c, kind>>] = env]
  /\ env' = CredOf[c]

LeaveEnv(c, kind) ==
  /\ env' = previous[<<c, kind>>] /\ UNCHANGED previous
  /\ envLock' = Free

-----------------------------------------------------------------------------
(* asyncio.to_thread                                                       *)

Submit(j) ==
  /\ state' = [state EXCEPT ![j] = "queued"]
  /\ queue' = Append(queue, j)

InThread == {j \in Call : state[j] \in {"credlock", "lifetime", "envlock", "kinit"}}

\* A free thread takes the oldest call.
TakeCall ==
  /\ queue # <<>> /\ Cardinality(InThread) < Threads
  /\ queue' = Tail(queue)
  /\ state' = [state EXCEPT ![Head(queue)] =
                 IF Head(queue)[2] = "ensure" THEN "credlock" ELSE "envlock"]
  /\ UNCHANGED <<coroutines, variables, locks, tickets>>

-----------------------------------------------------------------------------
(* The threads: KeytabCredentials.ensure and KerberosEnv._lock.acquire     *)

LockCredentials(c) ==
  /\ state[<<c, "ensure">>] = "credlock" /\ credLock[CredOf[c]] = Free
  /\ state' = [state EXCEPT ![<<c, "ensure">>] = "lifetime"]
  /\ credLock' = [credLock EXCEPT ![CredOf[c]] = c]
  /\ UNCHANGED <<coroutines, queue, variables, envLock, tickets>>

\* _lifetime() is long enough, or kinit is needed.
CheckLifetime(c) ==
  /\ state[<<c, "ensure">>] = "lifetime"
  /\ IF ticket[CredOf[c]]
       THEN /\ state' = [state EXCEPT ![<<c, "ensure">>] = "over"]
            /\ credLock' = [credLock EXCEPT ![CredOf[c]] = Free]
       ELSE /\ state' = [state EXCEPT ![<<c, "ensure">>] = "envlock"]
            /\ UNCHANGED credLock
  /\ UNCHANGED <<coroutines, queue, variables, envLock, tickets>>

\* Mutation: the lock keeps out only those with the same credentials.
LockEnvPerCred(c, kind) ==
  /\ state[<<c, kind>>] = "envlock"
  /\ envLock # Free => CredOf[envLock[1]] # CredOf[c]
  /\ envLock' = <<c, kind>>
  /\ IF kind = "ensure"
       THEN state' = [state EXCEPT ![<<c, kind>>] = "kinit"] /\ Swap(c, kind)
       ELSE state' = [state EXCEPT ![<<c, kind>>] = "over"] /\ UNCHANGED variables
  /\ UNCHANGED <<coroutines, queue, credLock, tickets>>

\* ensure goes on under the lock; acquire only hands it to its coroutine.
LockEnv(c, kind) ==
  /\ state[<<c, kind>>] = "envlock" /\ envLock = Free
  /\ envLock' = <<c, kind>>
  /\ IF kind = "ensure"
       THEN state' = [state EXCEPT ![<<c, kind>>] = "kinit"] /\ Swap(c, kind)
       ELSE state' = [state EXCEPT ![<<c, kind>>] = "over"] /\ UNCHANGED variables
  /\ UNCHANGED <<coroutines, queue, credLock, tickets>>

\* Mutation: a kinit that fails leaves the credentials locked.
AcquireStaysLocked(c) ==
  /\ state[<<c, "ensure">>] = "kinit"
  /\ \E ok \in BOOLEAN :
       /\ state' = [state EXCEPT ![<<c, "ensure">>] = IF ok THEN "over" ELSE "failed"]
       /\ ticket' = [ticket EXCEPT ![CredOf[c]] = @ \/ ok]
       /\ credLock' = IF ok THEN [credLock EXCEPT ![CredOf[c]] = Free] ELSE credLock
  /\ LeaveEnv(c, "ensure")
  /\ UNCHANGED <<coroutines, queue, expiries>>

\* _acquire, and the way out of ensure: kinit brings a ticket or fails.
Acquire(c) ==
  /\ state[<<c, "ensure">>] = "kinit"
  /\ \E ok \in BOOLEAN :
       /\ state' = [state EXCEPT ![<<c, "ensure">>] = IF ok THEN "over" ELSE "failed"]
       /\ ticket' = [ticket EXCEPT ![CredOf[c]] = @ \/ ok]
  /\ credLock' = [credLock EXCEPT ![CredOf[c]] = Free]
  /\ LeaveEnv(c, "ensure")
  /\ UNCHANGED <<coroutines, queue, expiries>>

-----------------------------------------------------------------------------
(* The coroutines: applied_async around connect                            *)

Begin(c) ==
  /\ pc[c] = "idle"
  /\ pc' = [pc EXCEPT ![c] = "ensuring"]
  /\ Submit(<<c, "ensure">>)
  /\ UNCHANGED <<cancels, variables, locks, tickets>>

Ensured(c) ==
  /\ pc[c] = "ensuring" /\ state[<<c, "ensure">>] = "over"
  /\ pc' = [pc EXCEPT ![c] = "locking"]
  /\ Submit(<<c, "acquire">>)
  /\ UNCHANGED <<cancels, variables, locks, tickets>>

EnsureFailed(c) ==
  /\ pc[c] = "ensuring" /\ state[<<c, "ensure">>] = "failed"
  /\ pc' = [pc EXCEPT ![c] = "gone"]
  /\ UNCHANGED <<cancels, executor, variables, locks, tickets>>

Enter(c) ==
  /\ pc[c] = "locking" /\ state[<<c, "acquire">>] = "over"
  /\ pc' = [pc EXCEPT ![c] = "connecting"]
  /\ Swap(c, "acquire")
  /\ UNCHANGED <<cancels, executor, locks, tickets>>

\* connect() returns or raises.
Leave(c) ==
  /\ pc[c] = "connecting"
  /\ \E end \in {"done", "gone"} : pc' = [pc EXCEPT ![c] = end]
  /\ LeaveEnv(c, "acquire")
  /\ UNCHANGED <<cancels, executor, credLock, tickets>>

\* A coroutine that waits for a call goes at once, and the call with it only
\* if no thread has it yet.
Cancel(c) ==
  /\ pc[c] \in CancelAt /\ cancels < MaxCancels
  /\ cancels' = cancels + 1
  /\ pc' = [pc EXCEPT ![c] = "gone"]
  /\ queue' = SelectSeq(queue, LAMBDA j : j[1] # c)
  /\ state' = [j \in Call |-> IF j[1] = c /\ state[j] = "queued" THEN "none"
                                                             ELSE state[j]]
  /\ IF pc[c] = "connecting" THEN LeaveEnv(c, "acquire")
                             ELSE UNCHANGED <<variables, envLock>>
  /\ UNCHANGED <<credLock, tickets>>

\* A ticket comes within min_lifetime of its end.
Expire(k) ==
  /\ ticket[k] /\ expiries < MaxExpiries
  /\ expiries' = expiries + 1
  /\ ticket' = [ticket EXCEPT ![k] = FALSE]
  /\ UNCHANGED <<coroutines, executor, variables, locks>>

-----------------------------------------------------------------------------
ThreadStep(c) ==
  LockCredentials(c) \/ CheckLifetime(c) \/ Acquire(c)
  \/ \E kind \in {"ensure", "acquire"} : LockEnv(c, kind)
CoroutineStep(c) == Ensured(c) \/ EnsureFailed(c) \/ Enter(c) \/ Leave(c)

Next ==
  \/ TakeCall
  \/ \E c \in Conn : Begin(c) \/ ThreadStep(c) \/ CoroutineStep(c) \/ Cancel(c)
  \/ \E k \in Cred : Expire(k)

Spec == Init /\ [][Next]_vars

-----------------------------------------------------------------------------
(* Properties                                                              *)

\* Whoever talks to Kerberos, a thread in kinit or a coroutine in connect,
\* finds its own variables in the environment of the process.
OwnEnvironment ==
  \A c \in Conn : pc[c] = "connecting" \/ state[<<c, "ensure">>] = "kinit"
                  => env = CredOf[c]

\* Lock order: the credentials' lock, then the environment's.  So nobody
\* waits for ever, and every connection is made or given up.
EveryoneSettles ==
  \A c \in Conn : pc[c] = "ensuring" ~> pc[c] \in {"done", "gone"}
=============================================================================
