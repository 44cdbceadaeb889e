------------------------------ MODULE MCSessions ------------------------------
(***************************************************************************)
(* A small instance of Sessions: the admin and one user, two requests to   *)
(* /auth at a time and one about accounts.                                 *)
(***************************************************************************)
EXTENDS Sessions

\* Sessions do not tell agents from customers: who registers is a customer.
NobodyIsAgent == \A c \in Clerks : clerk[c].op = "register" => clerk[c].role = "CUSTOMER"

\* Nor is the admin's password changed: ana's is.
AdminKeepsPassword == \A c \in Callers : caller[c] # [op |-> "hash", user |-> Admin]

MCSpec ==
  /\ SessionsInit
  /\ [][SessionsNext /\ NobodyIsAgent' /\ AdminKeepsPassword']_sessionsVars
  /\ \A t \in Tokens : WF_sessionsVars(AccessExpires(t))
===============================================================================
