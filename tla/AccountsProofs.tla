----------------------------- MODULE AccountsProofs ---------------------------
(***************************************************************************)
(* Accounts, for any addresses and number of overlapping requests: types,  *)
(* and that profiles agree with the audit trail.                           *)
(***************************************************************************)
EXTENDS Accounts, TLAPS

\* What requests under way rely on, and whom the audit trail is about.
AccountsInFlight ==
  /\ \A c \in Clerks :
       /\ clerk[c].op = "review" => clerk[c].agent \in Agents
       /\ clerk[c].op = "status" => clerk[c].user \in DOMAIN account
  /\ \A row \in accountAudit : row.entity \in DOMAIN account

\* What every step preserves.
AccountsInv == AccountsTypeOK /\ VerdictsAreOnRecord /\ AccountsInFlight

-------------------------------------------------------------------------------
\* The initial state satisfies the invariant.
LEMMA AccountsInitInv ==
  ASSUME AccountsInit
  PROVE  AccountsInv
<1>1. NewAccount("ADMIN") \in AccountRow
  BY DEF NewAccount, AccountRow, UserRole, UserStatus, ApprovalStatus
<1>2. AccountsTypeOK
  BY <1>1, AdminAssumption DEF AccountsInit, AccountsTypeOK, ClerkIdle, ClerkState,
     AdminAssumption
<1>3. VerdictsAreOnRecord
  BY DEF AccountsInit, VerdictsAreOnRecord, VerdictOnRecord, NewAccount
<1>4. AccountsInFlight
  BY DEF AccountsInit, AccountsInFlight, ClerkIdle
<1>5. QED
  BY <1>2, <1>3, <1>4 DEF AccountsInv

\* A step of a request changes its slot alone, to a slot.
LEMMA ClerkSlot ==
  ASSUME AccountsTypeOK, NEW c \in Clerks, ClerkStep(c)
  PROVE  /\ clerk' \in [Clerks -> ClerkState]
         /\ \A b \in Clerks \ {c} : clerk'[b] = clerk[b]
<1> USE DEF AccountsTypeOK
<1>1. ASSUME NEW plan \in ClerkState, clerk' = [clerk EXCEPT ![c] = plan]
      PROVE  /\ clerk' \in [Clerks -> ClerkState]
             /\ \A b \in Clerks \ {c} : clerk'[b] = clerk[b]
  BY <1>1
<1>2. ClerkIdle \in ClerkState
  BY DEF ClerkIdle, ClerkState
<1>3. CASE ClerkFinish(c)
  BY <1>1, <1>2, <1>3 DEF ClerkFinish
<1>4. CASE \E email \in Emails, role \in UserRole \ {"ADMIN"} :
             RegisterRead(c, email, role)
  BY <1>1, <1>4 DEF RegisterRead, ClerkBegin, ClerkState
<1>5. CASE \E agent \in Emails, verdict \in {"APPROVED", "REJECTED"} :
             ReviewRead(c, agent, verdict)
  BY <1>1, <1>5 DEF ReviewRead, ClerkBegin, ClerkState
<1>6. CASE \E by, user \in Emails, status \in UserStatus :
             StatusChangeRead(c, by, user, status)
  BY <1>1, <1>6 DEF StatusChangeRead, ClerkBegin, ClerkState
<1>7. QED
  BY <1>3, <1>4, <1>5, <1>6
     DEF ClerkStep, RegisterWrite, ReviewWrite, StatusChangeWrite, ClerkFail

\* A request that has begun relies on what it read.
LEMMA ClerkReads ==
  ASSUME AccountsInv, NEW c \in Clerks,
         \/ \E email \in Emails, role \in UserRole \ {"ADMIN"} :
              RegisterRead(c, email, role)
         \/ \E agent \in Emails, verdict \in {"APPROVED", "REJECTED"} :
              ReviewRead(c, agent, verdict)
         \/ \E by, user \in Emails, status \in UserStatus :
              StatusChangeRead(c, by, user, status)
  PROVE  AccountsInv'
<1>1. ClerkStep(c) /\ UNCHANGED accountTables
  BY DEF ClerkStep, RegisterRead, ReviewRead, StatusChangeRead, ClerkBegin
<1>2. AccountsTypeOK' /\ \A b \in Clerks \ {c} : clerk'[b] = clerk[b]
  BY <1>1, ClerkSlot DEF AccountsInv, AccountsTypeOK, accountTables
<1>3. VerdictsAreOnRecord'
  BY <1>1 DEF AccountsInv, VerdictsAreOnRecord, VerdictOnRecord, accountTables
<1>4. /\ clerk'[c].op = "review" => clerk'[c].agent \in Agents
      /\ clerk'[c].op = "status" => clerk'[c].user \in DOMAIN account
  BY DEF AccountsInv, AccountsTypeOK, RegisterRead, ReviewRead, StatusChangeRead,
     ClerkBegin
<1>5. AccountsInFlight'
  BY <1>1, <1>2, <1>4 DEF AccountsInv, AccountsInFlight, Agents, accountTables
<1>6. QED
  BY <1>2, <1>3, <1>5 DEF AccountsInv

\* A registration adds an account nobody has reviewed, or nothing.
LEMMA RegisterInv ==
  ASSUME AccountsInv, NEW c \in Clerks, RegisterWrite(c)
  PROVE  AccountsInv'
<1> USE DEF AccountsInv
<1> DEFINE email == clerk[c].email
           new   == NewAccount(clerk[c].role)
<1>1. email \in Emails /\ clerk[c].role \in UserRole
  BY DEF RegisterWrite, AccountsTypeOK, ClerkState
<1>2. new \in AccountRow
  BY <1>1 DEF NewAccount, AccountRow, UserStatus, ApprovalStatus
<1>3. /\ clerk' \in [Clerks -> ClerkState]
      /\ \A b \in Clerks \ {c} : clerk'[b] = clerk[b]
      /\ clerk'[c].op = "idle"
  BY ClerkSlot DEF ClerkStep, RegisterWrite, ClerkFinish, ClerkIdle, AccountsTypeOK
<1>4. CASE account' = account
  BY <1>3, <1>4 DEF RegisterWrite, AccountsTypeOK, VerdictsAreOnRecord, VerdictOnRecord,
     AccountsInFlight, Agents
<1>5. CASE account' # account
  <2>1. /\ email \notin DOMAIN account
        /\ account' = [u \in DOMAIN account \cup {email} |->
                         IF u = email THEN new ELSE account[u]]
    BY <1>5 DEF RegisterWrite
  <2> HIDE DEF new
  <2>2. AccountsTypeOK'
    BY <1>1, <1>2, <1>3, <2>1 DEF AccountsTypeOK, RegisterWrite
  <2>3. ~ \E row \in accountAudit : row.entity = email
    BY <2>1 DEF AccountsInFlight
  <2>4. /\ new.role = "AGENT" <=> new.approvalStatus # "NONE"
        /\ new.approvalStatus \notin {"APPROVED", "REJECTED"}
    BY DEF new, NewAccount
  <2>5. VerdictsAreOnRecord'
    BY <2>1, <2>3, <2>4 DEF VerdictsAreOnRecord, VerdictOnRecord, RegisterWrite
  <2>6. AccountsInFlight'
    BY <1>3, <2>1 DEF AccountsInFlight, Agents, RegisterWrite
  <2>7. QED
    BY <2>2, <2>5, <2>6
<1>6. QED
  BY <1>4, <1>5

\* A review changes the profile of an agent and leaves its row.
LEMMA ReviewInv ==
  ASSUME AccountsInv, NEW c \in Clerks, ReviewWrite(c)
  PROVE  AccountsInv'
<1> USE DEF AccountsInv
<1> DEFINE agent   == clerk[c].agent
           verdict == clerk[c].verdict
           row     == [action |-> IF verdict = "APPROVED" THEN "AGENT_APPROVED"
                                                          ELSE "AGENT_REJECTED",
                       entity |-> agent]
<1>1. /\ agent \in Emails
      /\ verdict \in {"APPROVED", "REJECTED"}
  BY DEF ReviewWrite, AccountsTypeOK, ClerkState
<1>2. agent \in DOMAIN account /\ account[agent].role = "AGENT"
  BY DEF ReviewWrite, AccountsInFlight, Agents
<1>3. /\ clerk' \in [Clerks -> ClerkState]
      /\ \A b \in Clerks \ {c} : clerk'[b] = clerk[b]
      /\ clerk'[c].op = "idle"
  BY ClerkSlot DEF ClerkStep, ReviewWrite, ClerkFinish, ClerkIdle, AccountsTypeOK
<1>4. /\ account' = [account EXCEPT ![agent].approvalStatus = verdict]
      /\ accountAudit' = accountAudit \cup {row}
  BY DEF ReviewWrite, Review
<1>5. row \in AccountAuditRow /\ row.entity = agent
  BY <1>1 DEF AccountAuditRow
<1>6. account[agent] \in AccountRow
  BY <1>2 DEF AccountsTypeOK
<1>7. AccountsTypeOK'
  <2>1. [account[agent] EXCEPT !.approvalStatus = verdict] \in AccountRow
    BY <1>1, <1>6 DEF AccountRow, ApprovalStatus
  <2>2. QED
    BY <1>3, <1>4, <1>5, <2>1 DEF AccountsTypeOK
<1>8. VerdictsAreOnRecord'
  <2>1. /\ account'[agent].role = "AGENT"
        /\ account'[agent].approvalStatus = verdict
    BY <1>2, <1>4, <1>6 DEF AccountsTypeOK, AccountRow
  <2>2. \A u \in DOMAIN account \ {agent} : account'[u] = account[u]
    BY <1>4
  <2>3. DOMAIN account' = DOMAIN account
    BY <1>4
  <2>4. /\ verdict = "APPROVED" =>
             [action |-> "AGENT_APPROVED", entity |-> agent] \in accountAudit'
        /\ verdict = "REJECTED" =>
             [action |-> "AGENT_REJECTED", entity |-> agent] \in accountAudit'
    BY <1>4
  <2> HIDE DEF row
  <2>5. ASSUME NEW u \in DOMAIN account
        PROVE  VerdictOnRecord(u)'
    <3>1. account'[u].role = "AGENT" <=> account'[u].approvalStatus # "NONE"
      <4>1. CASE u = agent
        BY <1>1, <2>1, <4>1
      <4>2. CASE u # agent
        BY <2>2, <4>2 DEF VerdictsAreOnRecord, VerdictOnRecord
      <4>3. QED
        BY <4>1, <4>2
    <3>2. /\ account'[u].approvalStatus = "APPROVED" =>
               [action |-> "AGENT_APPROVED", entity |-> u] \in accountAudit'
          /\ account'[u].approvalStatus = "REJECTED" =>
               [action |-> "AGENT_REJECTED", entity |-> u] \in accountAudit'
      BY <1>1, <1>4, <2>1, <2>2, <2>4 DEF VerdictsAreOnRecord, VerdictOnRecord
    <3>3. ASSUME account'[u].role # "AGENT", NEW r \in accountAudit', r.entity = u
          PROVE  r.action = "USER_STATUS_CHANGED"
      BY <1>4, <1>5, <2>1, <2>2, <3>3 DEF VerdictsAreOnRecord, VerdictOnRecord
    <3>4. QED
      BY <3>1, <3>2, <3>3 DEF VerdictOnRecord
  <2>6. QED
    BY <2>3, <2>5 DEF VerdictsAreOnRecord, VerdictOnRecord
<1>9. AccountsInFlight'
  <2>1. Agents' = Agents /\ DOMAIN account' = DOMAIN account
    BY <1>2, <1>4, <1>6 DEF Agents, AccountRow
  <2>2. QED
    BY <1>2, <1>3, <1>4, <1>5, <2>1 DEF AccountsInFlight
<1>10. QED
  BY <1>7, <1>8, <1>9

\* A change of a user's status leaves roles and reviews as they are.
LEMMA StatusChangeInv ==
  ASSUME AccountsInv, NEW c \in Clerks, StatusChangeWrite(c)
  PROVE  AccountsInv'
<1> USE DEF AccountsInv
<1> DEFINE user == clerk[c].user
           row  == [action |-> "USER_STATUS_CHANGED", entity |-> user]
<1>1. user \in Emails /\ clerk[c].to \in UserStatus
  BY DEF StatusChangeWrite, AccountsTypeOK, ClerkState
<1>2. user \in DOMAIN account
  BY DEF StatusChangeWrite, AccountsInFlight
<1>3. /\ clerk' \in [Clerks -> ClerkState]
      /\ \A b \in Clerks \ {c} : clerk'[b] = clerk[b]
      /\ clerk'[c].op = "idle"
  BY ClerkSlot DEF ClerkStep, StatusChangeWrite, ClerkFinish, ClerkIdle,
     AccountsTypeOK
<1>4. /\ account' = [account EXCEPT ![user].status = clerk[c].to]
      /\ accountAudit' = accountAudit \cup {row}
  BY DEF StatusChangeWrite
<1>5. row \in AccountAuditRow /\ row.entity = user
  BY <1>1 DEF AccountAuditRow
<1>6. account[user] \in AccountRow
  BY <1>2 DEF AccountsTypeOK
<1>7. AccountsTypeOK'
  <2>1. [account[user] EXCEPT !.status = clerk[c].to] \in AccountRow
    BY <1>1, <1>6 DEF AccountRow
  <2>2. QED
    BY <1>3, <1>4, <1>5, <2>1 DEF AccountsTypeOK
<1>8. /\ DOMAIN account' = DOMAIN account
      /\ \A u \in DOMAIN account :
           /\ account'[u].role = account[u].role
           /\ account'[u].approvalStatus = account[u].approvalStatus
  BY <1>4, <1>6 DEF AccountsTypeOK, AccountRow
<1>9. VerdictsAreOnRecord'
  <2>1. row.action = "USER_STATUS_CHANGED"
    OBVIOUS
  <2> HIDE DEF row
  <2>2. ASSUME NEW u \in DOMAIN account
        PROVE  VerdictOnRecord(u)'
    <3>1. account'[u].role = "AGENT" <=> account'[u].approvalStatus # "NONE"
      BY <1>8 DEF VerdictsAreOnRecord, VerdictOnRecord
    <3>2. /\ account'[u].approvalStatus = "APPROVED" =>
               [action |-> "AGENT_APPROVED", entity |-> u] \in accountAudit'
          /\ account'[u].approvalStatus = "REJECTED" =>
               [action |-> "AGENT_REJECTED", entity |-> u] \in accountAudit'
      BY <1>4, <1>8 DEF VerdictsAreOnRecord, VerdictOnRecord
    <3>3. ASSUME account'[u].role # "AGENT", NEW r \in accountAudit', r.entity = u
          PROVE  r.action = "USER_STATUS_CHANGED"
      BY <1>4, <1>5, <1>8, <2>1, <3>3 DEF VerdictsAreOnRecord, VerdictOnRecord
    <3>4. QED
      BY <3>1, <3>2, <3>3 DEF VerdictOnRecord
  <2>3. QED
    BY <1>8, <2>2 DEF VerdictsAreOnRecord, VerdictOnRecord
<1>10. AccountsInFlight'
  BY <1>2, <1>3, <1>4, <1>5, <1>8 DEF AccountsInFlight, Agents
<1>11. QED
  BY <1>7, <1>9, <1>10

\* Every step of any request preserves the invariant.
LEMMA AccountsStepInv ==
  ASSUME AccountsInv, AccountsNext
  PROVE  AccountsInv'
<1>1. PICK c \in Clerks : ClerkStep(c)
  BY DEF AccountsNext
<1>2. CASE ClerkFail(c)
  <2>1. clerk' \in [Clerks -> ClerkState] /\ clerk'[c].op = "idle"
        /\ \A b \in Clerks \ {c} : clerk'[b] = clerk[b]
    BY <1>1, <1>2, ClerkSlot DEF ClerkFail, ClerkFinish, ClerkIdle, AccountsInv,
       AccountsTypeOK
  <2>2. QED
    BY <1>2, <2>1 DEF AccountsInv, AccountsTypeOK, VerdictsAreOnRecord, VerdictOnRecord,
       AccountsInFlight, Agents, ClerkFail, accountTables
<1>3. QED
  BY <1>1, <1>2, ClerkReads, RegisterInv, ReviewInv, StatusChangeInv DEF ClerkStep

\* Stuttering does.
LEMMA AccountsStutterInv ==
  ASSUME AccountsInv, UNCHANGED accountVars
  PROVE  AccountsInv'
BY DEF AccountsInv, accountVars, AccountsTypeOK, VerdictsAreOnRecord, VerdictOnRecord,
   AccountsInFlight, Agents

\* An account stays, with its role, and so does what is on record.
LEMMA RolesStay ==
  ASSUME AccountsInv, AccountsNext
  PROVE  /\ DOMAIN account \subseteq DOMAIN account'
         /\ \A u \in DOMAIN account : account'[u].role = account[u].role
         /\ accountAudit \subseteq accountAudit'
<1>1. PICK c \in Clerks : ClerkStep(c)
  BY DEF AccountsNext
<1>2. \A u \in DOMAIN account : account[u] \in AccountRow
  BY DEF AccountsInv, AccountsTypeOK
<1>3. CASE account' = account /\ accountAudit' = accountAudit
  BY <1>3
<1>4. CASE RegisterWrite(c)
  BY <1>4 DEF RegisterWrite
<1>5. CASE ReviewWrite(c)
  BY <1>2, <1>5 DEF ReviewWrite, Review, AccountRow
<1>6. CASE StatusChangeWrite(c)
  BY <1>2, <1>6 DEF StatusChangeWrite, AccountRow
<1>7. QED
  BY <1>1, <1>3, <1>4, <1>5, <1>6 DEF ClerkStep, RegisterRead, ReviewRead,
     StatusChangeRead, ClerkBegin, ClerkFail, accountTables
===============================================================================
