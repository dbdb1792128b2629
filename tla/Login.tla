------------------------------- MODULE Login -------------------------------
(***************************************************************************)
(* What a login comes to: SpnegoMiddleware and KerberosAuth._build_user    *)
(* for a ticket, the chain of LocalAuth and LdapAuth for a password, the   *)
(* mapping of attributes to roles and exclusions, and the HTTP answers of  *)
(* the domain errors.                                                      *)
(*                                                                         *)
(* An attribute (login, principal, DN, group, SID) is a name.  A mapper    *)
(* that is not configured maps nothing, an exclusion list that is not      *)
(* configured is empty, which is what the code makes of them.              *)
(***************************************************************************)
EXTENDS Naturals, Sequences, FiniteSets, SequencesExt

CONSTANTS User,    \* people, under the one name all providers know them by
          Group,   \* groups of the directory, as memberOf and as SIDs
          Role

\* What the code tells about the end of a request
Admitted(name, provider, roles) ==
  [status |-> "in", name |-> name, provider |-> provider, roles |-> roles]
Refused(code) == [status |-> code, name |-> "", provider |-> "", roles |-> {}]
IsAdmitted(answer) == answer.status = "in"

Unauthenticated == Refused("401")   \* AuthenticationError, the SPNEGO challenge
Forbidden == Refused("403")         \* AuthorizationError
Internal == Refused("500")          \* InternalServiceError
Unavailable == Refused("503")       \* ExternalServiceError

-----------------------------------------------------------------------------
(* Mappers                                                                 *)

RolesOf(mapper, keys) == UNION {mapper[k] : k \in keys}
Excluded(list, keys) == list \cap keys # {}

\* What one source says of its keys.  A provider asks several and adds up.
SaidBy(mapper, list, keys) ==
  [roles |-> RolesOf(mapper, keys), excluded |-> Excluded(list, keys)]

MergeSaid(said) ==
  [roles |-> UNION {said[i].roles : i \in DOMAIN said},
   excluded |-> \E i \in DOMAIN said : said[i].excluded]

Decide(name, provider, said, requireRoles) ==
  LET all == MergeSaid(said) IN
  CASE all.excluded -> Forbidden
    [] ~all.excluded /\ requireRoles /\ all.roles = {} -> Forbidden
    [] OTHER -> Admitted(name, provider, all.roles)

-----------------------------------------------------------------------------
(* The directory: one bind and one search in a thread                      *)

Faults == {"unavailable", "rejected", "denied", "misconfigured"}

\* entry: what the search finds; NotFound, or one of Faults
NotFound == "notfound"

\* the classes of ldap3 exceptions that ADDirectory tells apart, for a bind
\* of the user himself and for one of the service account
LdapAnswer(fault, own) ==
  CASE fault = NotFound -> Unauthenticated
    [] fault = "unavailable" -> Unavailable
    [] fault = "rejected" /\ own -> Unauthenticated
    [] OTHER -> Internal

DirectorySays(conf, user, groups) ==
  << SaidBy(conf.sam, conf.samEx, {user}),
     SaidBy(conf.memberOf, conf.memberOfEx, groups),
     SaidBy(conf.dn, conf.dnEx, {user}) >>

-----------------------------------------------------------------------------
(* Tickets                                                                 *)

\* What SpnegoMiddleware does with the Authorization header: a ticket that is
\* accepted names the user and his SIDs, which replace what the browser sent.
Headers == {"missing", "scheme", "empty", "base64", "invalid", "keytab", "ticket"}

Accept(header) ==
  CASE header \in {"missing", "scheme", "empty", "base64", "invalid"} -> Unauthenticated
    [] header = "keytab" -> Internal
    [] OTHER -> Refused("passed")

Passed(answer) == answer.status = "passed"

\* _build_user of an accepted ticket; found is what the directory gave.
BuildUser(conf, user, sids, found) ==
  LET own == << SaidBy(conf.principal, conf.principalEx, {user}),
                SaidBy(conf.sid, conf.sidEx, sids) >>
      said == IF conf.ldap THEN own \o DirectorySays(conf, user, found.groups)
              ELSE own
      answer == Decide(user, "kerberos", said, conf.requireRoles)
  IN CASE conf.ldap /\ found.fault # "" -> LdapAnswer(found.fault, FALSE)
       [] (~conf.ldap \/ found.fault = "") /\ IsAdmitted(answer) /\ ~conf.format -> Internal
       [] OTHER -> answer

-----------------------------------------------------------------------------
(* Passwords                                                               *)

\* The answer of one provider: None passes the question on.
None == Refused("none")

LocalSays(conf, user, right) ==
  IF ~right THEN None
  ELSE Decide(user, "local", << SaidBy(conf.local, conf.localEx, {user}) >>, conf.requireRoles)

LdapSays(conf, user, found) ==
  IF found.fault # "" THEN LdapAnswer(found.fault, TRUE)
  ELSE Decide(user, "ldap", DirectorySays(conf, user, found.groups), conf.requireRoles)

\* The first provider that admits, forbids or fails ends the chain; one that
\* does not know the user or his password only leaves its error behind.
Chain(answers) ==
  IF \E i \in DOMAIN answers : answers[i] \notin {None, Unauthenticated}
    THEN answers[SelectInSeq(answers, LAMBDA a : a \notin {None, Unauthenticated})]
  ELSE IF Unauthenticated \in {answers[i] : i \in DOMAIN answers} THEN Unauthenticated
  ELSE None

=============================================================================
