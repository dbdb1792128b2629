------------------------------ MODULE Accounts ------------------------------
(***************************************************************************)
(* The schema of the application: the tables of users and their threads,   *)
(* and the connections granted to rows of users and roles.  They share a   *)
(* database and nothing else.                                              *)
(***************************************************************************)
EXTENDS UserTables, UserConnections

AccountsInit == TablesInit /\ ConnectionsInit

AccountsNext ==
  \/ TablesNext /\ UNCHANGED connVars
  \/ ConnectionsNext /\ UNCHANGED tableVars

accountVars == <<tableVars, connVars>>
=============================================================================
