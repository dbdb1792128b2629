------------------------------ MODULE Kerberos ------------------------------
(***************************************************************************)
(* The Kerberos of one process: connections by keytab, and the tickets     *)
(* users delegate.  Their threads are those of one executor, but no lock   *)
(* and no ccache belongs to both.                                          *)
(***************************************************************************)
EXTENDS KerberosEnv, DelegatedTickets

KerberosInit == Init /\ TicketsInit

KerberosNext ==
  \/ Next /\ UNCHANGED ticketVars
  \/ TicketsNext /\ UNCHANGED vars

KerberosSpec ==
  /\ KerberosInit /\ [][KerberosNext]_<<vars, ticketVars>>
  /\ WF_vars(TakeCall)
  /\ \A c \in Conn : WF_vars(ThreadStep(c)) /\ WF_vars(CoroutineStep(c))
=============================================================================
