------------------------------- MODULE Accounts -------------------------------
(***************************************************************************)
(* Accounts as the rest of the server reads them: registration             *)
(* (src/src/auth), the review of agents (src/src/agents) and the status    *)
(* that admins give to users (src/src/users).                              *)
(***************************************************************************)
EXTENDS FiniteSets

CONSTANTS
  Emails,      \* the e-mail addresses accounts are registered with
  Admin,       \* the admin that the seed creates
  Clerks       \* slots of requests about accounts in flight

ASSUME AdminAssumption == Admin \in Emails

VARIABLES
  account,      \* tables users and agent_profiles, by e-mail
  accountAudit, \* audit_logs: the actions recorded about each account
  clerk         \* what each slot is about to do

accountTables == <<account, accountAudit>>
accountVars   == <<account, accountAudit, clerk>>

UserRole       == {"CUSTOMER", "AGENT", "ADMIN"}
UserStatus     == {"ACTIVE", "SUSPENDED"}
ApprovalStatus == {"PENDING", "APPROVED", "REJECTED"}

\* approvalStatus of the agent profile; "NONE" where there is no profile.
AccountRow ==
  [role : UserRole, status : UserStatus,
   approvalStatus : ApprovalStatus \cup {"NONE"}]

AccountAuditRow ==
  [action : {"AGENT_APPROVED", "AGENT_REJECTED", "USER_STATUS_CHANGED"},
   entity : Emails]

Agents == {u \in DOMAIN account : account[u].role = "AGENT"}

\* A new account: an agent waits for the review of its profile.
NewAccount(role) ==
  [role |-> role, status |-> "ACTIVE",
   approvalStatus |-> IF role = "AGENT" THEN "PENDING" ELSE "NONE"]

-------------------------------------------------------------------------------
ClerkIdle == [op |-> "idle"]

ClerkState ==
  [op : {"idle"}]
    \cup [op : {"register"}, email : Emails, role : UserRole \ {"ADMIN"}]
    \cup [op : {"review"}, agent : Emails, verdict : {"APPROVED", "REJECTED"}]
    \cup [op : {"status"}, user : Emails, to : UserStatus]

ClerkBegin(c, plan) ==
  /\ clerk[c] = ClerkIdle
  /\ clerk' = [clerk EXCEPT ![c] = plan]
  /\ UNCHANGED accountTables

ClerkFinish(c) == clerk' = [clerk EXCEPT ![c] = ClerkIdle]

-------------------------------------------------------------------------------
(* POST /auth/register and /auth/register/agent: the address is looked up, *)
(* the password hashed, and the rows inserted under a unique index.        *)

RegisterRead(c, email, role) ==
  /\ email \notin DOMAIN account
  /\ ClerkBegin(c, [op |-> "register", email |-> email, role |-> role])

RegisterWrite(c) ==
  /\ clerk[c].op = "register"
  /\ LET email == clerk[c].email
     IN  IF email \in DOMAIN account
         THEN UNCHANGED account
         ELSE account' = [u \in DOMAIN account \cup {email} |->
                            IF u = email THEN NewAccount(clerk[c].role)
                                         ELSE account[u]]
  /\ ClerkFinish(c)
  /\ UNCHANGED accountAudit

-------------------------------------------------------------------------------
(* POST /admin/agents/:id/approve and /reject.                             *)

\* An approved agent is not approved again, but may be rejected.
ReviewRead(c, agent, verdict) ==
  /\ agent \in Agents
  /\ verdict = "APPROVED" => account[agent].approvalStatus # "APPROVED"
  /\ ClerkBegin(c, [op |-> "review", agent |-> agent, verdict |-> verdict])

\* A bug: both verdicts are recorded under one action.
Review_AlwaysApproved(agent, verdict) ==
  /\ account' = [account EXCEPT ![agent].approvalStatus = verdict]
  /\ accountAudit' = accountAudit \cup {[action |-> "AGENT_APPROVED",
                                         entity |-> agent]}

Review(agent, verdict) ==
  /\ account' = [account EXCEPT ![agent].approvalStatus = verdict]
  /\ accountAudit' =
       accountAudit \cup
         {[action |-> IF verdict = "APPROVED" THEN "AGENT_APPROVED"
                                              ELSE "AGENT_REJECTED",
           entity |-> agent]}

ReviewWrite(c) ==
  /\ clerk[c].op = "review"
  /\ Review(clerk[c].agent, clerk[c].verdict)
  /\ ClerkFinish(c)

-------------------------------------------------------------------------------
(* PATCH /admin/users/:id/status, by an admin about someone else.          *)

StatusChangeRead(c, by, user, status) ==
  /\ by \in DOMAIN account
  /\ account[by].role = "ADMIN"
  /\ user \in DOMAIN account \ {by}
  /\ ClerkBegin(c, [op |-> "status", user |-> user, to |-> status])

StatusChangeWrite(c) ==
  /\ clerk[c].op = "status"
  /\ account' = [account EXCEPT ![clerk[c].user].status = clerk[c].to]
  /\ accountAudit' = accountAudit \cup {[action |-> "USER_STATUS_CHANGED",
                                         entity |-> clerk[c].user]}
  /\ ClerkFinish(c)

-------------------------------------------------------------------------------
\* A database error or a crash before the transaction.
ClerkFail(c) ==
  /\ clerk[c] # ClerkIdle
  /\ ClerkFinish(c)
  /\ UNCHANGED accountTables

AccountsInit ==
  /\ account = [u \in {Admin} |-> NewAccount("ADMIN")]
  /\ accountAudit = {}
  /\ clerk = [c \in Clerks |-> ClerkIdle]

ClerkStep(c) ==
  \/ \E email \in Emails, role \in UserRole \ {"ADMIN"} : RegisterRead(c, email, role)
  \/ \E agent \in Emails, verdict \in {"APPROVED", "REJECTED"} :
       ReviewRead(c, agent, verdict)
  \/ \E by, user \in Emails, status \in UserStatus :
       StatusChangeRead(c, by, user, status)
  \/ RegisterWrite(c)
  \/ ReviewWrite(c)
  \/ StatusChangeWrite(c)
  \/ ClerkFail(c)

AccountsNext == \E c \in Clerks : ClerkStep(c)

AccountsSpec == AccountsInit /\ [][AccountsNext]_accountVars
-------------------------------------------------------------------------------
AccountsTypeOK ==
  /\ DOMAIN account \subseteq Emails
  /\ account \in [DOMAIN account -> AccountRow]
  /\ accountAudit \subseteq AccountAuditRow
  /\ clerk \in [Clerks -> ClerkState]

VerdictOnRecord(u) ==
  /\ account[u].role = "AGENT" <=> account[u].approvalStatus # "NONE"
  /\ account[u].approvalStatus = "APPROVED" =>
       [action |-> "AGENT_APPROVED", entity |-> u] \in accountAudit
  /\ account[u].approvalStatus = "REJECTED" =>
       [action |-> "AGENT_REJECTED", entity |-> u] \in accountAudit
  /\ account[u].role # "AGENT" =>
       \A row \in accountAudit :
         row.entity = u => row.action = "USER_STATUS_CHANGED"

\* An agent's profile agrees with the audit trail: who is APPROVED has an
\* AGENT_APPROVED row, who is REJECTED an AGENT_REJECTED row, and nobody is
\* reviewed who is no agent (AgentsService.review, register and registerAgent).
VerdictsAreOnRecord == \A u \in DOMAIN account : VerdictOnRecord(u)
===============================================================================
