----------------------------- MODULE ImageLease -----------------------------
(***************************************************************************)
(* What the launchers promise to whoever keeps files in images: an image   *)
(* is leased to one owner at a time; only the owner changes what it shows, *)
(* by files of his own or by deleting; what was not made durable may be    *)
(* lost, but never after the lease has ended: the next owner finds exactly *)
(* what is on the disk.  How leases are made of locks, processes and       *)
(* daemons, and what a kill leaves of them, is ImageLauncher's subject.    *)
(***************************************************************************)
CONSTANTS Owners, Images

VARIABLES
  owner,    \* whose lease an image is
  content,  \* the file it shows: by whom, and whether it is whole
  durable   \* the file its disk holds

leaseVars == <<owner, content, durable>>

Nobody == "nobody"
Nothing == [by |-> Nobody, whole |-> TRUE]
FilesOf(o) == [by : {o}, whole : BOOLEAN] \cup {Nothing}

LeaseInit ==
  /\ owner = [i \in Images |-> Nobody]
  /\ content = [i \in Images |-> Nothing]
  /\ durable = [i \in Images |-> Nothing]

Take(o, i) ==
  /\ owner[i] = Nobody
  /\ owner' = [owner EXCEPT ![i] = o]
  /\ UNCHANGED <<content, durable>>

\* A file is written or deleted, at once on the disk or only to caches.
Put(o, i) ==
  /\ owner[i] = o
  /\ \E x \in FilesOf(o) :
       /\ content' = [content EXCEPT ![i] = x]
       /\ durable' \in {durable, [durable EXCEPT ![i] = x]}
  /\ UNCHANGED owner

\* All leases of an owner end, with nothing left in caches.
Ends(o) ==
  /\ owner' = [i \in Images |-> IF owner[i] = o THEN Nobody ELSE owner[i]]
  /\ \A i \in Images : owner[i] = o => content'[i] = durable'[i]

\* The caches of an image are written, or lost; it may be the last thing of
\* his that lived.
Settle(o, i) ==
  /\ owner[i] = o
  /\ \E x \in {content[i], durable[i]} :
       /\ content' = [content EXCEPT ![i] = x] /\ durable' = [durable EXCEPT ![i] = x]
  /\ Ends(o) \/ UNCHANGED owner

Leave(o) == Ends(o) /\ UNCHANGED <<content, durable>>

LeaseNext ==
  \E o \in Owners : Leave(o) \/ \E i \in Images : Take(o, i) \/ Put(o, i) \/ Settle(o, i)

LeaseSpec == LeaseInit /\ [][LeaseNext]_leaseVars
=============================================================================
