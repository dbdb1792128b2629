-------------------------- MODULE DelegatedTickets --------------------------
(***************************************************************************)
(* Tickets that users delegate when they log in: SpnegoAcceptor,           *)
(* KerberosDelegation, CcacheRegistry and DelegatedCredentials.            *)
(*                                                                         *)
(* A login writes its ticket into the ccache of the principal and puts a   *)
(* new DelegatedCredentials, with a lock of its own, into the registry.    *)
(* It does both on the event loop without an await; threads that check,    *)
(* renew or use a ticket run between any two statements.  A ticket is      *)
(* known by the number of the login it came with, and so are the           *)
(* credentials; renewing keeps the number.                                 *)
(***************************************************************************)
EXTENDS Naturals, FiniteSets

CONSTANTS Principal,
          Caller,      \* coroutines that renew a ticket or want a token
          Renew,       \* DelegationConfig.renew
          MaxCaptures, MaxAsks, MaxEnds

ASSUME TicketsAssumption ==
  /\ Renew \in BOOLEAN /\ "nobody" \notin Principal
  /\ {MaxCaptures, MaxAsks, MaxEnds} \subseteq Nat

VARIABLES
  cache,     \* ccache of a principal: the login of its ticket, 0 if it has none
  lives,     \* the ticket has not expired
  entry,     \* CcacheRegistry._entries, 0 for none
  creds,     \* DelegatedCredentials._lock: who holds it
  caller,    \* what a coroutine or its thread does
  arriving,  \* the login that has stored its ticket and not registered it yet
  captured,  \* the last login that stored a ticket
  behind,      \* a renewal for an earlier login ended after that one had stored
  seen,      \* the ticket for which a renewal failed when the entry was dropped
  captures, asks, ends

ticketVars == <<cache, lives, entry, creds, caller, arriving, captured, behind, seen,
                captures, asks, ends>>
stored == <<cache, lives>>
registry == <<entry, seen>>
ticketBounds == <<captures, asks, ends>>

Nobody == "nobody"
Resting == [at |-> "idle"]

TicketsInit ==
  /\ cache = [p \in Principal |-> 0] /\ lives = [p \in Principal |-> FALSE]
  /\ entry = [p \in Principal |-> 0] /\ seen = [p \in Principal |-> 0]
  /\ creds = [n \in 1..MaxCaptures |-> Nobody]
  /\ caller = [c \in Caller |-> Resting]
  /\ arriving = Nobody
  /\ captured = [p \in Principal |-> 0] /\ behind = [p \in Principal |-> FALSE]
  /\ captures = 0 /\ asks = 0 /\ ends = 0

-----------------------------------------------------------------------------
(* A login                                                                 *)

\* accept: only a ticket that comes with delegated credentials is captured.
Tokens == {"keytab", "invalid", "incomplete", "bare", "delegated"}
Captures(token) == token = "delegated"

Arrives(p, token) == arriving = Nobody /\ Captures(token) /\ captures < MaxCaptures

\* on_success_authenticated: store, which replaces what the ccache has and
\* may fail, and then register
StoreTicket(p, token) ==
  /\ Arrives(p, token)
  /\ captures' = captures + 1
  /\ \/ /\ cache' = [cache EXCEPT ![p] = captures']
        /\ lives' = [lives EXCEPT ![p] = TRUE]
        /\ captured' = [captured EXCEPT ![p] = captures']
        /\ behind' = [behind EXCEPT ![p] = FALSE]
        /\ arriving' = p
     \/ UNCHANGED <<stored, captured, behind, arriving>>
  /\ UNCHANGED <<registry, creds, caller, asks, ends>>

\* Mutation: the entry of an earlier login stays.
RegisterOnce ==
  /\ arriving # Nobody
  /\ entry' = [entry EXCEPT ![arriving] = IF @ = 0 THEN captures ELSE @]
  /\ arriving' = Nobody
  /\ UNCHANGED <<stored, seen, creds, caller, captured, behind, ticketBounds>>

Register ==
  /\ arriving # Nobody
  /\ entry' = [entry EXCEPT ![arriving] = captures]
  /\ arriving' = Nobody
  /\ UNCHANGED <<stored, seen, creds, caller, captured, behind, ticketBounds>>

-----------------------------------------------------------------------------
(* renew and credentials_for: the coroutine                                *)

Goes(c, rec) == caller' = [caller EXCEPT ![c] = rec]

\* Without an entry, renew answers False and a token comes by S4U.
Ask(c, p, wants) ==
  /\ arriving = Nobody
  /\ caller[c] = Resting /\ asks < MaxAsks /\ asks' = asks + 1
  /\ Goes(c, [at |-> CASE entry[p] # 0 -> "locking"
                       [] entry[p] = 0 /\ wants = "token" -> "s4u"
                       [] OTHER -> "over",
              p |-> p, wants |-> wants, with |-> entry[p], has |-> 0])
  /\ UNCHANGED <<stored, registry, creds, arriving, captured, behind, captures, ends>>

Is(c, at) == caller[c].at = at
Now(c, at) == Goes(c, [caller[c] EXCEPT !.at = at])
Outrun(c) == caller[c].with < captured[caller[c].p]

\* ensure_async has returned: renew is done, a token is asked for.
TicketEnsured(c) ==
  /\ arriving = Nobody /\ Is(c, "ensured")
  /\ Now(c, IF caller[c].wants = "token" THEN "initiating" ELSE "over")
  /\ UNCHANGED <<stored, registry, creds, arriving, captured, behind, ticketBounds>>

\* ensure_async has raised: renew drops whatever entry the principal has now.
Raised(c) ==
  /\ arriving = Nobody /\ Is(c, "expired")
  /\ Now(c, "over")
  /\ LET p == caller[c].p IN
     IF caller[c].wants = "renewal"
       THEN /\ entry' = [entry EXCEPT ![p] = 0]
            /\ seen' = [seen EXCEPT ![p] = caller[c].has]
            /\ behind' = [behind EXCEPT ![p] = @ \/ Outrun(c)]
     ELSE UNCHANGED <<registry, behind>>
  /\ UNCHANGED <<stored, creds, arriving, captured, ticketBounds>>

Finish(c) ==
  /\ arriving = Nobody /\ Is(c, "over")
  /\ Goes(c, Resting)
  /\ UNCHANGED <<stored, registry, creds, arriving, captured, behind, ticketBounds>>

\* A cancelled coroutine leaves its thread behind.
Forsake(c) ==
  /\ arriving = Nobody
  /\ caller[c].at \in {"locking", "checking", "renewing", "writing", "storing"}
  /\ caller[c].wants # "nothing"
  /\ Goes(c, [caller[c] EXCEPT !.wants = "nothing"])
  /\ UNCHANGED <<stored, registry, creds, arriving, captured, behind, ticketBounds>>

-----------------------------------------------------------------------------
(* The threads: DelegatedCredentials.ensure, _init_token and _s4u_token    *)

LockCreds(c) ==
  /\ Is(c, "locking") /\ creds[caller[c].with] = Nobody
  /\ creds' = [creds EXCEPT ![caller[c].with] = c]
  /\ Now(c, "checking")
  /\ UNCHANGED <<stored, registry, arriving, captured, behind, ticketBounds>>

Unlock(c) == creds' = [creds EXCEPT ![caller[c].with] = Nobody]

\* An expired ticket is renewed, if tickets are; an empty ccache has lived 0 s.
CheckTicket(c) ==
  /\ Is(c, "checking")
  /\ LET p == caller[c].p IN
     CASE lives[p] -> Now(c, "ensured") /\ Unlock(c)
       [] ~lives[p] /\ ~Renew ->
            Goes(c, [caller[c] EXCEPT !.at = "expired", !.has = cache[p]]) /\ Unlock(c)
       [] OTHER -> Now(c, "renewing") /\ UNCHANGED creds
  /\ UNCHANGED <<stored, registry, arriving, captured, behind, ticketBounds>>

\* get_renewed_creds reads the ccache and asks the KDC, which may refuse.
AskKdc(c) ==
  /\ Is(c, "renewing")
  /\ LET has == cache[caller[c].p] IN
     \/ /\ has # 0
        /\ Goes(c, [caller[c] EXCEPT !.at = "writing", !.has = has])
        /\ UNCHANGED creds
     \/ /\ Goes(c, [caller[c] EXCEPT !.at = "expired", !.has = has])
        /\ Unlock(c)
  /\ UNCHANGED <<stored, registry, arriving, captured, behind, ticketBounds>>

\* cc_initialize and cc_store_cred; the second may fail and leave it empty.
EmptyCache(c) ==
  /\ Is(c, "writing")
  /\ cache' = [cache EXCEPT ![caller[c].p] = 0]
  /\ lives' = [lives EXCEPT ![caller[c].p] = FALSE]
  /\ behind' = [behind EXCEPT ![caller[c].p] = @ \/ Outrun(c)]
  /\ Now(c, "storing")
  /\ UNCHANGED <<registry, creds, arriving, captured, ticketBounds>>

FillCache(c) ==
  /\ Is(c, "storing")
  /\ \/ /\ cache' = [cache EXCEPT ![caller[c].p] = caller[c].has]
        /\ lives' = [lives EXCEPT ![caller[c].p] = TRUE]
        /\ behind' = [behind EXCEPT ![caller[c].p] = @ \/ Outrun(c)]
        /\ Now(c, "ensured")
     \/ /\ Now(c, "expired")
        /\ UNCHANGED <<stored, behind>>
  /\ Unlock(c)
  /\ UNCHANGED <<registry, arriving, captured, ticketBounds>>

\* A token is made from the ticket that is there then.
Initiate(c) ==
  /\ Is(c, "initiating")
  /\ Goes(c, [caller[c] EXCEPT !.at = "over",
                !.has = IF lives[caller[c].p] THEN cache[caller[c].p] ELSE 0])
  /\ UNCHANGED <<stored, registry, creds, arriving, captured, behind, ticketBounds>>

S4u(c) ==
  /\ Is(c, "s4u")
  /\ Now(c, "over")
  /\ UNCHANGED <<stored, registry, creds, arriving, captured, behind, ticketBounds>>

Expires(p) ==
  /\ lives[p] /\ ends < MaxEnds /\ ends' = ends + 1
  /\ lives' = [lives EXCEPT ![p] = FALSE]
  /\ UNCHANGED <<cache, registry, creds, caller, arriving, captured, behind, captures, asks>>

TicketsNext ==
  \/ \E p \in Principal, token \in Tokens : StoreTicket(p, token)
  \/ Register
  \/ \E c \in Caller, p \in Principal, wants \in {"token", "renewal"} : Ask(c, p, wants)
  \/ \E c \in Caller :
       \/ TicketEnsured(c) \/ Raised(c) \/ Finish(c) \/ Forsake(c)
       \/ LockCreds(c) \/ CheckTicket(c) \/ AskKdc(c) \/ EmptyCache(c) \/ FillCache(c)
       \/ Initiate(c) \/ S4u(c)
  \/ \E p \in Principal : Expires(p)

-----------------------------------------------------------------------------
(***************************************************************************)
(* Tickets follow logins.  After a login the registry has its credentials, *)
(* unless the very ticket of that login could not be renewed, and the      *)
(* ccache has no ticket of an earlier login.  Both may fail only when a    *)
(* renewal for an earlier login ends after this one (credentials.py:339).  *)
(***************************************************************************)
TicketsFollowLogins ==
  \A p \in Principal : captured[p] # 0 /\ arriving # p /\ ~behind[p] =>
    /\ entry[p] \in {0, captured[p]}
    /\ entry[p] = 0 => seen[p] \in {0, captured[p]}
    /\ cache[p] \in {0, captured[p]}
=============================================================================
