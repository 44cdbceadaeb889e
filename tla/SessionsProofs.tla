---------------------------- MODULE SessionsProofs ----------------------------
(***************************************************************************)
(* Sessions, for any number of requests, tokens and accounts: who can      *)
(* exchange a refresh token, and what a change of password leaves alive.   *)
(***************************************************************************)
EXTENDS Sessions, AccountsProofs, FiniteSetTheorems

\* The plan of a slot is about an account and a token that exist.
SlotFits(c) ==
  /\ caller[c].op \in {"exchange", "issue", "hash", "revokeAll"}
       => caller[c].user \in DOMAIN account
  /\ caller[c].op \in {"exchange", "revoke"} => caller[c].from \in DOMAIN token
  /\ caller[c].op = "issue" => caller[c].from \in DOMAIN token \cup {NoToken}

SessionsInFlight ==
  /\ \A t \in DOMAIN token : token[t].user \in DOMAIN account
  /\ \A c \in Callers : SlotFits(c)

\* Revoked first, exchanged afterwards.
RevokedBeforeExchanged ==
  /\ \A t \in DOMAIN token : token[t].refresh = "live" => token[t].exchanges = 0
  /\ \A c \in Callers :
       caller[c].op = "issue" /\ caller[c].from # NoToken
         => token[caller[c].from].refresh = "dead"

SessionsSound == SessionsTypeOK /\ AccountsInv /\ SessionsInFlight

SessionsInv ==
  /\ SessionsSound
  /\ RevokedBeforeExchanged
  /\ ExchangedByRacersOnly
  /\ OldSessionsAreExplained

-------------------------------------------------------------------------------
\* A step of a slot leaves the others alone, and a token that was issued stays
\* on record, with its user.
SlotStep(c) ==
  /\ caller' \in [Callers -> CallerState]
  /\ \A d \in Callers \ {c} : caller'[d] = caller[d]

LEMMA CallerSlot ==
  ASSUME caller \in [Callers -> CallerState], NEW c \in Callers,
         NEW plan \in CallerState, caller' = [caller EXCEPT ![c] = plan]
  PROVE  SlotStep(c) /\ caller'[c] = plan
BY DEF SlotStep

\* The state of the accounts is not a matter of a request about sessions.
LEMMA AccountsUntouched ==
  ASSUME AccountsInv, UNCHANGED accountVars
  PROVE  AccountsInv' /\ AccountsTypeOK'
BY AccountsStutterInv DEF AccountsInv

LEMMA SessionsInitInv ==
  ASSUME SessionsInit
  PROVE  SessionsInv
<1> USE DEF SessionsInit
<1>1. AccountsInv /\ AccountsTypeOK
  BY AccountsInitInv DEF AccountsInv
<1>2. DOMAIN token = {}
  OBVIOUS
<1>3. DOMAIN account = {Admin}
  BY DEF AccountsInit
<1>4. SessionsTypeOK
  <2>1. token \in [DOMAIN token -> TokenRow]
    BY <1>2
  <2>2. caller \in [Callers -> CallerState]
    BY DEF CallerIdle, CallerState
  <2> QED
    BY <1>1, <1>2, <1>3, <2>1, <2>2 DEF SessionsTypeOK
<1>5. \A c \in Callers : caller[c].op = "idle"
  BY DEF CallerIdle
<1> QED
  BY <1>1, <1>2, <1>4, <1>5
  DEF SessionsInv, SessionsSound, SessionsInFlight, SlotFits,
      RevokedBeforeExchanged, ExchangedByRacersOnly, OldSessionsAreExplained

-------------------------------------------------------------------------------
(* The requests that may still exchange a token.                           *)

LEMMA ExchangingFinite ==
  ASSUME NEW t
  PROVE  /\ IsFiniteSet(Exchanging(t))
         /\ Cardinality(Exchanging(t)) \in Nat
         /\ Cardinality(Callers) \in Nat
         /\ Cardinality(Exchanging(t)) <= Cardinality(Callers)
<1>1. Exchanging(t) \subseteq Callers
  BY DEF Exchanging
<1>2. IsFiniteSet(Exchanging(t)) /\ Cardinality(Exchanging(t)) <= Cardinality(Callers)
  BY <1>1, SessionsAssumption, FS_Subset
<1> QED
  BY <1>2, SessionsAssumption, FS_CardinalityType

\* A step that exchanges nothing and adds no racer.
LEMMA RacersKept ==
  ASSUME SessionsTypeOK, ExchangedByRacersOnly,
         DOMAIN token' = DOMAIN token,
         \A t \in DOMAIN token : token'[t].exchanges = token[t].exchanges,
         \A t \in DOMAIN token : Exchanging(t)' \subseteq Exchanging(t)
  PROVE  ExchangedByRacersOnly'
<1> SUFFICES ASSUME NEW t \in DOMAIN token
             PROVE  token'[t].exchanges + Cardinality(Exchanging(t)') <= Cardinality(Callers)
  BY DEF ExchangedByRacersOnly
<1>1. /\ IsFiniteSet(Exchanging(t)) /\ Cardinality(Exchanging(t)) \in Nat
      /\ Cardinality(Callers) \in Nat
  BY ExchangingFinite
<1>2. /\ Cardinality(Exchanging(t)') \in Nat
      /\ Cardinality(Exchanging(t)') <= Cardinality(Exchanging(t))
  BY <1>1, FS_Subset, FS_CardinalityType
<1>3. token[t].exchanges \in Nat
  BY DEF SessionsTypeOK, TokenRow
<1> QED
  BY <1>1, <1>2, <1>3 DEF ExchangedByRacersOnly

\* The plan of one slot changes to one that exchanges nothing.
LEMMA NoNewRacer ==
  ASSUME NEW c \in Callers, SlotStep(c), caller'[c].op \notin {"exchange", "issue"}, NEW t
  PROVE  Exchanging(t)' \subseteq Exchanging(t)
BY DEF SlotStep, Exchanging

\* Whose sessions the change of a password still has to revoke, or failed to.
Excused(u) == RevocationPending(u) \/ u \in interrupted

NoSession(u) == \A t \in DOMAIN token : token[t].user = u => token[t].refresh = "dead"

\* Steps after which fewer sessions are alive and nobody's password is newer.
LEMMA ExplainedKept ==
  ASSUME OldSessionsAreExplained,
         \A t \in DOMAIN token' :
           token'[t].refresh = "live" =>
             /\ t \in DOMAIN token
             /\ token[t].refresh = "live"
             /\ token'[t].user = token[t].user
             /\ token'[t].under = token[t].under
             /\ token'[t].late = token[t].late
             /\ password'[token[t].user] = password[token[t].user],
         \A u : Excused(u) => Excused(u)' \/ NoSession(u)'
  PROVE  OldSessionsAreExplained'
<1> SUFFICES ASSUME NEW t \in DOMAIN token', token'[t].refresh = "live",
                    token'[t].under # password'[token'[t].user]
             PROVE  token'[t].late \/ Excused(token[t].user)'
  BY DEF OldSessionsAreExplained, Stale, Excused
<1>1. t \in DOMAIN token /\ token[t].refresh = "live" /\ Stale(t)
  BY DEF Stale
<1>2. token[t].late \/ Excused(token[t].user)
  BY <1>1 DEF OldSessionsAreExplained, Excused
<1>3. PICK u : u = token[t].user
  OBVIOUS
<1>4. u = token'[t].user /\ ~NoSession(u)'
  BY <1>3 DEF NoSession
<1>5. token[t].late \/ Excused(u)'
  BY <1>2, <1>3, <1>4
<1> QED
  BY <1>4, <1>5 DEF Excused, RevocationPending

\* Another slot's revocation stays under way.
LEMMA PendingKept ==
  ASSUME NEW c \in Callers, SlotStep(c), caller[c].op # "revokeAll",
         NEW u, RevocationPending(u)
  PROVE  RevocationPending(u)'
<1>1. PICK d \in Callers : caller[d] = [op |-> "revokeAll", user |-> u]
  BY DEF RevocationPending
<1>2. d # c
  BY <1>1
<1> QED
  BY <1>1, <1>2 DEF SlotStep, RevocationPending

-------------------------------------------------------------------------------
(* One lemma for each step of a request.                                   *)

LEMMA SoundKept ==
  ASSUME SessionsSound, UNCHANGED accountVars,
         NEW c \in Callers, SlotStep(c), SlotFits(c)',
         DOMAIN token \subseteq DOMAIN token', DOMAIN token' \subseteq Tokens,
         token' \in [DOMAIN token' -> TokenRow],
         \A t \in DOMAIN token' : token'[t].user \in DOMAIN account,
         password' \in [DOMAIN account -> Nat],
         interrupted' \subseteq Emails
  PROVE  SessionsSound'
<1>1. AccountsInv' /\ AccountsTypeOK' /\ account' = account
  BY AccountsUntouched DEF SessionsSound, accountVars
<1>2. SessionsTypeOK'
  BY <1>1 DEF SessionsTypeOK, SlotStep
<1>3. \A d \in Callers \ {c} : SlotFits(d)'
  BY <1>1 DEF SlotFits, SlotStep, SessionsSound, SessionsInFlight
<1> QED
  BY <1>1, <1>2, <1>3 DEF SessionsSound, SessionsInFlight

\* A slot that starts writes nothing yet.
LEMMA ReadInv ==
  ASSUME SessionsInv, UNCHANGED accountVars, NEW c \in Callers,
         NEW plan \in CallerState, CallerBegin(c, plan),
         plan.op # "issue" \/ plan.from = NoToken,
         plan.op = "exchange" => token[plan.from].refresh = "live",
         SlotFits(c)'
  PROVE  SessionsInv'
<1> USE DEF SessionsInv
<1>1. SlotStep(c) /\ caller'[c] = plan /\ caller[c].op = "idle"
  <2>1. caller \in [Callers -> CallerState]
    BY DEF SessionsSound, SessionsTypeOK
  <2>2. caller' = [caller EXCEPT ![c] = plan] /\ caller[c].op = "idle"
    BY DEF CallerBegin, CallerIdle
  <2> QED
    BY <2>1, <2>2, CallerSlot
<1>2. /\ token' = token /\ password' = password /\ interrupted' = interrupted
      /\ account' = account
  BY DEF CallerBegin, sessionTables, accountVars
<1>3. SessionsSound'
  BY <1>1, <1>2, SoundKept DEF SessionsSound, SessionsTypeOK, SessionsInFlight
<1>4. RevokedBeforeExchanged'
  BY <1>1, <1>2 DEF RevokedBeforeExchanged, SlotStep
<1>5. ExchangedByRacersOnly'
  <2> SUFFICES ASSUME NEW t \in DOMAIN token
               PROVE  token[t].exchanges + Cardinality(Exchanging(t)') <= Cardinality(Callers)
    BY <1>2 DEF ExchangedByRacersOnly
  <2>1. CASE plan.op = "exchange" /\ plan.from = t
    <3>1. token[t].exchanges = 0
      BY <2>1 DEF RevokedBeforeExchanged
    <3>2. Cardinality(Exchanging(t)') <= Cardinality(Callers)
          /\ Cardinality(Exchanging(t)') \in Nat
      <4>1. Exchanging(t)' \subseteq Callers
        BY DEF Exchanging
      <4>2. IsFiniteSet(Exchanging(t)') /\ Cardinality(Exchanging(t)') <= Cardinality(Callers)
        BY <4>1, SessionsAssumption, FS_Subset
      <4> QED
        BY <4>2, FS_CardinalityType
    <3> QED
      BY <3>1, <3>2, SessionsAssumption, FS_CardinalityType
  <2>2. CASE ~(plan.op = "exchange" /\ plan.from = t)
    <3>1. t # NoToken
      BY SessionsAssumption DEF SessionsSound, SessionsTypeOK
    <3>2. Exchanging(t)' \subseteq Exchanging(t)
      BY <1>1, <2>2, <3>1 DEF Exchanging, SlotStep
    <3>3. /\ IsFiniteSet(Exchanging(t)) /\ Cardinality(Exchanging(t)) \in Nat
          /\ Cardinality(Callers) \in Nat
      BY ExchangingFinite
    <3>4. /\ Cardinality(Exchanging(t)') \in Nat
          /\ Cardinality(Exchanging(t)') <= Cardinality(Exchanging(t))
      BY <3>2, <3>3, FS_Subset, FS_CardinalityType
    <3>5. token[t].exchanges \in Nat
      BY DEF SessionsSound, SessionsTypeOK, TokenRow
    <3> QED
      BY <3>3, <3>4, <3>5 DEF ExchangedByRacersOnly
  <2> QED
    BY <2>1, <2>2
<1>6. OldSessionsAreExplained'
  <2>1. \A u : Excused(u) => Excused(u)'
    BY <1>1, <1>2, PendingKept DEF Excused
  <2> QED
    BY <1>2, <2>1, ExplainedKept
<1> QED
  BY <1>3, <1>4, <1>5, <1>6
LEMMA LoginInv ==
  ASSUME SessionsInv, UNCHANGED accountVars, NEW c \in Callers, NEW u \in Emails,
         LoginRead(c, u)
  PROVE  SessionsInv'
<1> DEFINE plan == [op |-> "issue", from |-> NoToken, user |-> u, under |-> password[u]]
<1>1. u \in DOMAIN account /\ CallerBegin(c, plan)
  BY DEF LoginRead
<1>2. plan \in CallerState
  <2>1. password[u] \in Nat
    BY <1>1 DEF SessionsInv, SessionsSound, SessionsTypeOK
  <2> QED
    BY <2>1 DEF CallerState
<1>3. caller'[c] = plan /\ account' = account
  BY <1>1 DEF CallerBegin, accountVars, SessionsInv, SessionsSound, SessionsTypeOK
<1>4. SlotFits(c)'
  BY <1>1, <1>3 DEF SlotFits
<1> QED
  BY <1>1, <1>2, <1>4, ReadInv

LEMMA RefreshInv ==
  ASSUME SessionsInv, UNCHANGED accountVars, NEW c \in Callers, NEW t \in Tokens,
         RefreshRead(c, t) \/ LogoutRead(c, t)
  PROVE  SessionsInv'
<1> DEFINE exchange == [op |-> "exchange", from |-> t, user |-> token[t].user,
                        under |-> token[t].under]
           revoke   == [op |-> "revoke", from |-> t]
<1>1. t \in DOMAIN token /\ token[t].refresh = "live"
  BY DEF RefreshRead, LogoutRead
<1>2. PICK plan \in {exchange, revoke} : CallerBegin(c, plan)
  BY DEF RefreshRead, LogoutRead
<1>3. token[t].user \in Emails /\ token[t].under \in Nat /\ token[t].user \in DOMAIN account
  BY <1>1 DEF SessionsInv, SessionsSound, SessionsTypeOK, SessionsInFlight, TokenRow
<1>4. plan \in CallerState
  BY <1>2, <1>3 DEF CallerState
<1>5. caller'[c] = plan /\ account' = account /\ token' = token
  BY <1>2 DEF CallerBegin, accountVars, sessionTables, SessionsInv, SessionsSound,
              SessionsTypeOK
<1>6. SlotFits(c)'
  BY <1>1, <1>2, <1>3, <1>5 DEF SlotFits
<1>7. plan.op # "issue" /\ (plan.op = "exchange" => token[plan.from].refresh = "live")
  BY <1>1, <1>2
<1> QED
  BY <1>2, <1>4, <1>6, <1>7, ReadInv

LEMMA ChangeInv ==
  ASSUME SessionsInv, UNCHANGED accountVars, NEW c \in Callers, NEW u \in Emails,
         ChangePasswordRead(c, u)
  PROVE  SessionsInv'
<1> DEFINE plan == [op |-> "hash", user |-> u]
<1>1. Admitted(u) /\ CallerBegin(c, plan)
  BY DEF ChangePasswordRead
<1>2. u \in DOMAIN account
  BY <1>1 DEF Admitted, SessionsInv, SessionsSound, SessionsInFlight
<1>3. plan \in CallerState
  BY DEF CallerState
<1>4. caller'[c] = plan /\ account' = account
  BY <1>1 DEF CallerBegin, accountVars, SessionsInv, SessionsSound, SessionsTypeOK
<1>5. SlotFits(c)'
  BY <1>2, <1>4 DEF SlotFits
<1> QED
  BY <1>1, <1>3, <1>5, ReadInv

\* The old token is revoked; the slot remains one that exchanges it.
LEMMA ExchangeInv ==
  ASSUME SessionsInv, UNCHANGED accountVars, NEW c \in Callers, ExchangeWrite(c)
  PROVE  SessionsInv'
<1> USE DEF SessionsInv
<1> DEFINE t0   == caller[c].from
           plan == [caller[c] EXCEPT !.op = "issue"]
<1>1. caller \in [Callers -> CallerState] /\ token \in [DOMAIN token -> TokenRow]
  BY DEF SessionsSound, SessionsTypeOK
<1>2. caller[c] \in [op : {"exchange"}, from : Tokens, user : Emails, under : Nat]
  BY <1>1 DEF ExchangeWrite, CallerState
<1>3. plan \in CallerState /\ plan.op = "issue" /\ plan.from = t0
      /\ plan.user = caller[c].user
  BY <1>2 DEF CallerState
<1>4. caller' = [caller EXCEPT ![c] = plan]
  BY DEF ExchangeWrite
<1>5. SlotStep(c) /\ caller'[c] = plan
  BY <1>1, <1>3, <1>4, CallerSlot
<1>6. t0 \in DOMAIN token /\ caller[c].op = "exchange" /\ caller[c].user \in DOMAIN account
  BY DEF ExchangeWrite, SessionsSound, SessionsInFlight, SlotFits
<1>7. /\ token' = [token EXCEPT ![t0].refresh = "dead"]
      /\ password' = password /\ interrupted' = interrupted /\ account' = account
  BY DEF ExchangeWrite, accountVars
<1>8. /\ token' \in [DOMAIN token -> TokenRow] /\ DOMAIN token' = DOMAIN token
      /\ \A t \in DOMAIN token :
           /\ token'[t].user = token[t].user /\ token'[t].under = token[t].under
           /\ token'[t].late = token[t].late
           /\ token'[t].exchanges = token[t].exchanges
           /\ token'[t].refresh = "live" => token[t].refresh = "live"
           /\ token[t].refresh = "dead" => token'[t].refresh = "dead"
      /\ token'[t0].refresh = "dead"
  BY <1>1, <1>6, <1>7 DEF TokenRow
<1>9. SessionsSound'
  <2>1. SlotFits(c)'
    BY <1>3, <1>5, <1>6, <1>7, <1>8 DEF SlotFits
  <2>2. /\ DOMAIN token' \subseteq Tokens
        /\ \A t \in DOMAIN token' : token'[t].user \in DOMAIN account
        /\ password' \in [DOMAIN account -> Nat] /\ interrupted' \subseteq Emails
    BY <1>7, <1>8 DEF SessionsSound, SessionsTypeOK, SessionsInFlight
  <2> QED
    BY <1>5, <1>8, <2>1, <2>2, SoundKept
<1>10. RevokedBeforeExchanged'
  <2>1. ASSUME NEW t \in DOMAIN token', token'[t].refresh = "live"
        PROVE  token'[t].exchanges = 0
    BY <1>8, <2>1 DEF RevokedBeforeExchanged
  <2>2. ASSUME NEW d \in Callers, caller'[d].op = "issue", caller'[d].from # NoToken
        PROVE  token'[caller'[d].from].refresh = "dead"
    <3>1. CASE d = c
      BY <1>3, <1>5, <1>8, <3>1
    <3>2. CASE d # c
      <4>1. caller'[d] = caller[d]
        BY <1>5, <3>2 DEF SlotStep
      <4>2. caller[d].from \in DOMAIN token
        BY <2>2, <4>1 DEF SessionsSound, SessionsInFlight, SlotFits
      <4>3. token[caller[d].from].refresh = "dead"
        BY <2>2, <4>1 DEF RevokedBeforeExchanged
      <4> QED
        BY <1>8, <4>1, <4>2, <4>3
    <3> QED
      BY <3>1, <3>2
  <2> QED
    BY <2>1, <2>2 DEF RevokedBeforeExchanged
<1>11. ExchangedByRacersOnly'
  <2>1. \A t \in DOMAIN token : Exchanging(t)' \subseteq Exchanging(t)
    BY <1>3, <1>5, <1>6 DEF Exchanging, SlotStep
  <2> QED
    BY <1>8, <2>1, RacersKept DEF SessionsSound
<1>12. OldSessionsAreExplained'
  <2>1. \A u : Excused(u) => Excused(u)'
    BY <1>5, <1>6, <1>7, PendingKept DEF Excused
  <2> QED
    BY <1>7, <1>8, <2>1, ExplainedKept
<1> QED
  BY <1>9, <1>10, <1>11, <1>12
\* A new row: nobody has been about its identifier.
LEMMA IssueInv ==
  ASSUME SessionsInv, UNCHANGED accountVars, NEW c \in Callers, IssueWrite(c)
  PROVE  SessionsInv'
<1> USE DEF SessionsInv
<1> DEFINE plan == caller[c]
           row  == [user |-> plan.user, refresh |-> "live", access |-> "valid",
                    under |-> plan.under,
                    late |-> plan.under # password[plan.user],
                    exchanges |-> 0]
<1>1. PICK t0 \in Fresh :
        token' = [s \in DOMAIN token \cup {t0} |->
                    IF s = t0 THEN row
                    ELSE IF s = plan.from
                         THEN [token[s] EXCEPT !.exchanges = @ + 1]
                         ELSE token[s]]
  BY DEF IssueWrite
<1>2. /\ caller \in [Callers -> CallerState] /\ token \in [DOMAIN token -> TokenRow]
      /\ password \in [DOMAIN account -> Nat] /\ DOMAIN token \subseteq Tokens
  BY DEF SessionsSound, SessionsTypeOK
<1>3. plan \in [op : {"issue"}, from : Tokens \cup {NoToken}, user : Emails, under : Nat]
  BY <1>2 DEF IssueWrite, CallerState
<1>4. /\ plan.op = "issue" /\ plan.user \in DOMAIN account
      /\ plan.from \in DOMAIN token \cup {NoToken}
      /\ plan.user \in Emails /\ plan.under \in Nat
  BY <1>3 DEF SessionsSound, SessionsInFlight, SlotFits
<1>5. caller' = [caller EXCEPT ![c] = CallerIdle] /\ CallerIdle \in CallerState
  BY DEF IssueWrite, CallerFinish, CallerIdle, CallerState
<1>6. SlotStep(c) /\ caller'[c] = CallerIdle
  BY <1>2, <1>5, CallerSlot
<1>7. password' = password /\ interrupted' = interrupted /\ account' = account
  BY DEF IssueWrite, accountVars
<1>8. /\ t0 \in Tokens /\ t0 # NoToken /\ t0 # plan.from
      /\ \A d \in Callers : "from" \in DOMAIN caller[d] => caller[d].from # t0
  <2>1. \A d \in Callers : t0 \notin Held(d)
    BY DEF Fresh
  <2>2. "from" \in DOMAIN plan
    BY <1>3
  <2> QED
    BY <2>1, <2>2, SessionsAssumption DEF Held, Fresh
<1>9. row \in TokenRow
  <2>1. row.late \in BOOLEAN
    OBVIOUS
  <2> QED
    BY <1>4, <2>1 DEF TokenRow
<1>10. DOMAIN token' = DOMAIN token \cup {t0} /\ token'[t0] = row
  BY <1>1
<1>11. ASSUME NEW t \in DOMAIN token \ {t0}
       PROVE  /\ token'[t] \in TokenRow
              /\ token'[t].user = token[t].user /\ token'[t].under = token[t].under
              /\ token'[t].late = token[t].late
              /\ token'[t].refresh = token[t].refresh
              /\ token'[t].exchanges =
                   IF t = plan.from THEN token[t].exchanges + 1 ELSE token[t].exchanges
  <2>1. token'[t] = IF t = plan.from THEN [token[t] EXCEPT !.exchanges = @ + 1]
                                     ELSE token[t]
    BY <1>1, <1>10
  <2>2. token[t] \in TokenRow
    BY <1>2
  <2> QED
    BY <2>1, <2>2 DEF TokenRow
<1>12. token' \in [DOMAIN token' -> TokenRow]
  <2>1. \A t \in DOMAIN token' : token'[t] \in TokenRow
    BY <1>9, <1>10, <1>11
  <2>2. token' = [t \in DOMAIN token' |-> token'[t]]
    BY <1>1
  <2> QED
    BY <2>1, <2>2
<1>13. SessionsSound'
  <2>1. SlotFits(c)'
    BY <1>6 DEF SlotFits, CallerIdle
  <2>2. DOMAIN token \subseteq DOMAIN token' /\ DOMAIN token' \subseteq Tokens
    BY <1>2, <1>8, <1>10
  <2>3. \A t \in DOMAIN token' : token'[t].user \in DOMAIN account
    BY <1>4, <1>10, <1>11 DEF SessionsSound, SessionsInFlight
  <2>4. password' \in [DOMAIN account -> Nat] /\ interrupted' \subseteq Emails
    BY <1>2, <1>7 DEF SessionsSound, SessionsTypeOK
  <2> QED
    BY <1>6, <1>12, <2>1, <2>2, <2>3, <2>4, SoundKept
<1>14. RevokedBeforeExchanged'
  <2>1. ASSUME NEW t \in DOMAIN token', token'[t].refresh = "live"
        PROVE  token'[t].exchanges = 0
    <3>1. CASE t = t0
      BY <1>10, <3>1
    <3>2. CASE t # t0
      <4>1. t \in DOMAIN token \ {t0} /\ token[t].refresh = "live"
        BY <1>10, <1>11, <2>1, <3>2
      <4>2. t # plan.from
        BY <1>2, <1>4, <4>1, SessionsAssumption DEF RevokedBeforeExchanged
      <4> QED
        BY <1>11, <4>1, <4>2 DEF RevokedBeforeExchanged
    <3> QED
      BY <3>1, <3>2
  <2>2. ASSUME NEW d \in Callers, caller'[d].op = "issue", caller'[d].from # NoToken
        PROVE  token'[caller'[d].from].refresh = "dead"
    <3>1. d # c /\ caller'[d] = caller[d]
      BY <1>6, <2>2 DEF SlotStep, CallerIdle
    <3>2. caller[d] \in [op : {"issue"}, from : Tokens \cup {NoToken}, user : Emails, under : Nat]
      BY <1>2, <2>2, <3>1 DEF CallerState
    <3>3. caller[d].from \in DOMAIN token /\ caller[d].from # t0
      BY <1>8, <2>2, <3>1, <3>2 DEF SessionsSound, SessionsInFlight, SlotFits
    <3>4. token[caller[d].from].refresh = "dead"
      BY <2>2, <3>1 DEF RevokedBeforeExchanged
    <3> QED
      BY <1>11, <3>1, <3>3, <3>4
  <2> QED
    BY <2>1, <2>2 DEF RevokedBeforeExchanged
<1>15. ExchangedByRacersOnly'
  <2> SUFFICES ASSUME NEW t \in DOMAIN token'
               PROVE  token'[t].exchanges + Cardinality(Exchanging(t)') <= Cardinality(Callers)
    BY DEF ExchangedByRacersOnly
  <2>1. Exchanging(t)' \subseteq Exchanging(t) \ {c}
    BY <1>6 DEF Exchanging, SlotStep, CallerIdle
  <2>2. /\ IsFiniteSet(Exchanging(t)) /\ Cardinality(Exchanging(t)) \in Nat
        /\ Cardinality(Callers) \in Nat
    BY ExchangingFinite
  <2>3. IsFiniteSet(Exchanging(t) \ {c})
        /\ Cardinality(Exchanging(t) \ {c}) =
             IF c \in Exchanging(t) THEN Cardinality(Exchanging(t)) - 1
                                    ELSE Cardinality(Exchanging(t))
    BY <2>2, FS_RemoveElement
  <2>4. /\ Cardinality(Exchanging(t)') \in Nat
        /\ Cardinality(Exchanging(t)') <= Cardinality(Exchanging(t) \ {c})
    BY <2>1, <2>3, FS_Subset, FS_CardinalityType
  <2>5. CASE t = t0
    <3>1. Exchanging(t) = {}
      <4>1. \A d \in Callers : caller[d].op \in {"exchange", "issue"} =>
              "from" \in DOMAIN caller[d]
        BY <1>2 DEF CallerState
      <4> QED
        BY <1>8, <2>5, <4>1 DEF Exchanging
    <3>2. token'[t].exchanges = 0
      BY <1>10, <2>5
    <3>3. Cardinality(Exchanging(t)') = 0
      <4>1. Exchanging(t)' = {}
        BY <2>1, <3>1
      <4> QED
        BY <4>1, FS_EmptySet
    <3> QED
      BY <2>2, <3>2, <3>3
  <2>6. CASE t # t0
    <3>1. t \in DOMAIN token \ {t0}
      BY <1>10, <2>6
    <3>2. token[t].exchanges \in Nat
          /\ token[t].exchanges + Cardinality(Exchanging(t)) <= Cardinality(Callers)
      BY <1>2, <3>1 DEF ExchangedByRacersOnly, TokenRow
    <3>3. token'[t].exchanges =
            IF t = plan.from THEN token[t].exchanges + 1 ELSE token[t].exchanges
      BY <1>11, <3>1
    <3>4. t = plan.from => c \in Exchanging(t)
      BY <1>4 DEF Exchanging
    <3>5. t # plan.from => c \notin Exchanging(t)
      BY DEF Exchanging
    <3> QED
      BY <2>2, <2>3, <2>4, <3>2, <3>3, <3>4, <3>5
  <2> QED
    BY <2>5, <2>6
<1>16. OldSessionsAreExplained'
  <2>1. \A u : Excused(u) => Excused(u)'
    BY <1>4, <1>6, <1>7, PendingKept DEF Excused
  <2> SUFFICES ASSUME NEW t \in DOMAIN token', token'[t].refresh = "live",
                      token'[t].under # password[token'[t].user]
               PROVE  token'[t].late \/ Excused(token[t].user)'
    BY <1>7 DEF OldSessionsAreExplained, Stale, Excused
  <2>2. CASE t = t0
    <3>1. token'[t].under = plan.under /\ token'[t].user = plan.user
      BY <1>10, <2>2
    <3>2. plan.under # password[plan.user]
      BY <3>1
    <3>3. row.late = TRUE
      BY <3>2
    <3>4. token'[t].late = TRUE
      BY <1>10, <2>2, <3>3
    <3> QED
      BY <3>4
  <2>3. CASE t # t0
    <3>1. t \in DOMAIN token \ {t0} /\ token[t].refresh = "live" /\ Stale(t)
      BY <1>10, <1>11, <2>3 DEF Stale
    <3>2. token'[t].late \/ Excused(token[t].user)
      BY <1>11, <3>1 DEF OldSessionsAreExplained, Excused
    <3>3. PICK u : u = token[t].user /\ u = token'[t].user
      BY <1>11, <3>1
    <3>4. token'[t].late \/ Excused(u)'
      BY <2>1, <3>2, <3>3
    <3> QED
      BY <3>3, <3>4 DEF Excused, RevocationPending
  <2> QED
    BY <2>2, <2>3
<1> QED
  BY <1>13, <1>14, <1>15, <1>16
\* Steps that only revoke, expire or give up.
OnlyDying ==
  /\ DOMAIN token' = DOMAIN token
  /\ token' \in [DOMAIN token -> TokenRow]
  /\ \A t \in DOMAIN token :
       /\ token'[t].user = token[t].user /\ token'[t].under = token[t].under
       /\ token'[t].late = token[t].late /\ token'[t].exchanges = token[t].exchanges
       /\ token'[t].refresh = "live" => token[t].refresh = "live"

LEMMA DyingInv ==
  ASSUME SessionsInv, UNCHANGED accountVars, password' = password, OnlyDying,
         caller' \in [Callers -> CallerState],
         \A d \in Callers : caller'[d] = caller[d] \/ caller'[d].op = "idle",
         interrupted' \subseteq Emails,
         \A u : Excused(u) => Excused(u)' \/ NoSession(u)'
  PROVE  SessionsInv'
<1> USE DEF SessionsInv
<1>1. AccountsInv' /\ AccountsTypeOK' /\ account' = account
  BY AccountsUntouched DEF SessionsSound, accountVars
<1>2. SessionsTypeOK'
  BY <1>1 DEF SessionsSound, SessionsTypeOK, OnlyDying
<1>3. SessionsInFlight'
  <2>1. \A d \in Callers : SlotFits(d)'
    BY <1>1 DEF SessionsSound, SessionsInFlight, SlotFits, OnlyDying
  <2>2. \A t \in DOMAIN token' : token'[t].user \in DOMAIN account'
    BY <1>1 DEF SessionsSound, SessionsInFlight, OnlyDying
  <2> QED
    BY <2>1, <2>2 DEF SessionsInFlight
<1>4. RevokedBeforeExchanged'
  <2>1. ASSUME NEW t \in DOMAIN token', token'[t].refresh = "live"
        PROVE  token'[t].exchanges = 0
    BY <2>1 DEF RevokedBeforeExchanged, OnlyDying
  <2>2. ASSUME NEW d \in Callers, caller'[d].op = "issue", caller'[d].from # NoToken
        PROVE  token'[caller'[d].from].refresh = "dead"
    <3>1. caller'[d] = caller[d]
      BY <2>2
    <3>2. caller[d].from \in DOMAIN token /\ token[caller[d].from].refresh = "dead"
      BY <2>2, <3>1 DEF RevokedBeforeExchanged, SessionsSound, SessionsInFlight, SlotFits
    <3>3. token'[caller[d].from] \in TokenRow /\ token'[caller[d].from].refresh # "live"
      BY <3>2 DEF OnlyDying
    <3> QED
      BY <3>1, <3>3 DEF TokenRow
  <2> QED
    BY <2>1, <2>2 DEF RevokedBeforeExchanged
<1>5. ExchangedByRacersOnly'
  <2>1. \A t \in DOMAIN token : Exchanging(t)' \subseteq Exchanging(t)
    BY DEF Exchanging
  <2> QED
    BY <2>1, RacersKept DEF SessionsSound, OnlyDying
<1>6. OldSessionsAreExplained'
  BY ExplainedKept DEF OnlyDying
<1> QED
  BY <1>1, <1>2, <1>3, <1>4, <1>5, <1>6 DEF SessionsSound

LEMMA RevokeInv ==
  ASSUME SessionsInv, UNCHANGED accountVars, NEW c \in Callers, RevokeWrite(c)
  PROVE  SessionsInv'
<1> USE DEF SessionsInv
<1>1. /\ caller \in [Callers -> CallerState] /\ token \in [DOMAIN token -> TokenRow]
      /\ caller[c].op = "revoke" /\ interrupted' \subseteq Emails
      /\ password' = password
  BY DEF RevokeWrite, SessionsSound, SessionsTypeOK
<1>2. caller[c].from \in DOMAIN token
  BY <1>1 DEF SessionsSound, SessionsInFlight, SlotFits
<1>3. OnlyDying
  BY <1>1, <1>2 DEF RevokeWrite, OnlyDying, TokenRow
<1>4. SlotStep(c) /\ caller'[c] = CallerIdle
  <2>1. caller' = [caller EXCEPT ![c] = CallerIdle] /\ CallerIdle \in CallerState
    BY DEF RevokeWrite, CallerFinish, CallerIdle, CallerState
  <2> QED
    BY <1>1, <2>1, CallerSlot
<1>5. \A u : Excused(u) => Excused(u)'
  BY <1>1, <1>4, PendingKept DEF Excused, RevokeWrite
<1> QED
  BY <1>1, <1>3, <1>4, <1>5, DyingInv DEF SlotStep, CallerIdle

LEMMA RevokeAllInv ==
  ASSUME SessionsInv, UNCHANGED accountVars, NEW c \in Callers, RevokeAllWrite(c)
  PROVE  SessionsInv'
<1> USE DEF SessionsInv
<1> DEFINE user == caller[c].user
<1>1. /\ caller \in [Callers -> CallerState] /\ token \in [DOMAIN token -> TokenRow]
      /\ caller[c].op = "revokeAll" /\ interrupted' \subseteq Emails
      /\ interrupted' = interrupted \ {user} /\ password' = password
  BY DEF RevokeAllWrite, SessionsSound, SessionsTypeOK
<1>2. token' = [t \in DOMAIN token |->
                  IF token[t].user = user THEN [token[t] EXCEPT !.refresh = "dead"]
                                          ELSE token[t]]
  BY DEF RevokeAllWrite
<1>3. OnlyDying
  BY <1>1, <1>2 DEF OnlyDying, TokenRow
<1>4. SlotStep(c) /\ caller'[c] = CallerIdle
  <2>1. caller' = [caller EXCEPT ![c] = CallerIdle] /\ CallerIdle \in CallerState
    BY DEF RevokeAllWrite, CallerFinish, CallerIdle, CallerState
  <2> QED
    BY <1>1, <2>1, CallerSlot
<1>5. ASSUME NEW u, Excused(u)
      PROVE  Excused(u)' \/ NoSession(u)'
  <2>1. CASE u = user
    BY <1>1, <1>2, <2>1 DEF NoSession, TokenRow
  <2>2. CASE u # user
    <3>1. RevocationPending(u) => RevocationPending(u)'
      BY <1>4, <2>2 DEF RevocationPending, SlotStep
    <3> QED
      BY <1>1, <1>5, <2>2, <3>1 DEF Excused
  <2> QED
    BY <2>1, <2>2
<1> QED
  BY <1>1, <1>3, <1>4, <1>5, DyingInv DEF SlotStep, CallerIdle

LEMMA CallerFailInv ==
  ASSUME SessionsInv, UNCHANGED accountVars, NEW c \in Callers, CallerFail(c)
  PROVE  SessionsInv'
<1> USE DEF SessionsInv
<1>1. /\ caller \in [Callers -> CallerState] /\ token \in [DOMAIN token -> TokenRow]
      /\ token' = token /\ password' = password /\ interrupted \subseteq Emails
  BY DEF CallerFail, sessionTables, SessionsSound, SessionsTypeOK
<1>2. OnlyDying
  BY <1>1 DEF OnlyDying
<1>3. SlotStep(c) /\ caller'[c] = CallerIdle
  <2>1. caller' = [caller EXCEPT ![c] = CallerIdle] /\ CallerIdle \in CallerState
    BY DEF CallerFail, CallerFinish, CallerIdle, CallerState
  <2> QED
    BY <1>1, <2>1, CallerSlot
<1>4. interrupted' = interrupted \cup
        (IF caller[c].op = "revokeAll" THEN {caller[c].user} ELSE {})
  BY DEF CallerFail
<1>5. interrupted' \subseteq Emails
  <2>1. caller[c].op = "revokeAll" => caller[c].user \in Emails
    BY <1>1 DEF CallerState
  <2> QED
    BY <1>1, <1>4, <2>1
<1>6. ASSUME NEW u, Excused(u)
      PROVE  Excused(u)'
  <2>1. CASE caller[c] = [op |-> "revokeAll", user |-> u]
    BY <1>4, <2>1 DEF Excused
  <2>2. CASE caller[c] # [op |-> "revokeAll", user |-> u]
    <3>1. RevocationPending(u) => RevocationPending(u)'
      BY <1>3, <2>2 DEF RevocationPending, SlotStep
    <3> QED
      BY <1>4, <1>6, <3>1 DEF Excused
  <2> QED
    BY <2>1, <2>2
<1> QED
  BY <1>1, <1>2, <1>3, <1>5, <1>6, DyingInv DEF SlotStep, CallerIdle

LEMMA ExpiryInv ==
  ASSUME SessionsInv, NEW t \in Tokens, AccessExpires(t) \/ RefreshExpires(t)
  PROVE  SessionsInv'
<1> USE DEF SessionsInv
<1>1. /\ token \in [DOMAIN token -> TokenRow] /\ t \in DOMAIN token
      /\ caller \in [Callers -> CallerState] /\ interrupted \subseteq Emails
  BY DEF AccessExpires, RefreshExpires, SessionsSound, SessionsTypeOK
<1>2. UNCHANGED <<accountVars, password, caller, interrupted>>
  BY DEF AccessExpires, RefreshExpires
<1>3. OnlyDying
  BY <1>1 DEF AccessExpires, RefreshExpires, OnlyDying, TokenRow
<1>4. \A u : Excused(u) => Excused(u)'
  BY <1>2 DEF Excused, RevocationPending
<1> QED
  BY <1>1, <1>2, <1>3, <1>4, DyingInv
\* A new password: the user's sessions are stale, and about to be revoked.
LEMMA PasswordInv ==
  ASSUME SessionsInv, UNCHANGED accountVars, NEW c \in Callers, PasswordWrite(c)
  PROVE  SessionsInv'
<1> USE DEF SessionsInv
<1> DEFINE user == caller[c].user
           plan == [caller[c] EXCEPT !.op = "revokeAll"]
<1>1. /\ caller \in [Callers -> CallerState] /\ token \in [DOMAIN token -> TokenRow]
      /\ password \in [DOMAIN account -> Nat]
      /\ token' = token /\ interrupted' = interrupted /\ account' = account
  BY DEF PasswordWrite, SessionsSound, SessionsTypeOK, accountVars
<1>2. caller[c] \in [op : {"hash", "revokeAll"}, user : Emails] /\ caller[c].op = "hash"
  BY <1>1 DEF PasswordWrite, CallerState
<1>3. /\ plan = [op |-> "revokeAll", user |-> user] /\ plan \in CallerState
      /\ user \in DOMAIN account
  <2>1. user \in DOMAIN account
    BY <1>2 DEF SessionsSound, SessionsInFlight, SlotFits
  <2>2. plan = [op |-> "revokeAll", user |-> user]
    BY <1>2
  <2> QED
    BY <1>2, <2>1, <2>2 DEF CallerState
<1>4. SlotStep(c) /\ caller'[c] = plan
  <2>1. caller' = [caller EXCEPT ![c] = plan]
    BY DEF PasswordWrite
  <2> QED
    BY <1>1, <1>3, <2>1, CallerSlot
<1>5. password' = [password EXCEPT ![user] = @ + 1]
  BY DEF PasswordWrite
<1>6. password' \in [DOMAIN account -> Nat]
      /\ \A u \in DOMAIN account \ {user} : password'[u] = password[u]
  BY <1>1, <1>3, <1>5
<1>7. SessionsSound'
  <2>1. SlotFits(c)'
    BY <1>1, <1>3, <1>4 DEF SlotFits
  <2>2. /\ DOMAIN token' \subseteq Tokens /\ interrupted' \subseteq Emails
        /\ \A t \in DOMAIN token' : token'[t].user \in DOMAIN account
    BY <1>1 DEF SessionsSound, SessionsTypeOK, SessionsInFlight
  <2> QED
    BY <1>1, <1>4, <1>6, <2>1, <2>2, SoundKept
<1>8. RevokedBeforeExchanged'
  BY <1>1, <1>3, <1>4 DEF RevokedBeforeExchanged, SlotStep
<1>9. ExchangedByRacersOnly'
  <2>1. \A t \in DOMAIN token : Exchanging(t)' \subseteq Exchanging(t)
    BY <1>3, <1>4, NoNewRacer
  <2> QED
    BY <1>1, <2>1, RacersKept DEF SessionsSound
<1>10. OldSessionsAreExplained'
  <2>1. \A u : Excused(u) => Excused(u)'
    BY <1>1, <1>2, <1>4, PendingKept DEF Excused
  <2> SUFFICES ASSUME NEW t \in DOMAIN token, token[t].refresh = "live",
                      token[t].under # password'[token[t].user]
               PROVE  token[t].late \/ Excused(token[t].user)'
    BY <1>1 DEF OldSessionsAreExplained, Stale, Excused
  <2>2. PICK u : u = token[t].user
    OBVIOUS
  <2>3. CASE u = user
    <3>1. RevocationPending(u)'
      BY <1>3, <1>4, <2>3 DEF RevocationPending
    <3> QED
      BY <1>1, <2>2, <3>1 DEF Excused, RevocationPending
  <2>4. CASE u # user
    <3>1. u \in DOMAIN account /\ Stale(t)
      BY <1>6, <2>2, <2>4 DEF Stale, SessionsSound, SessionsInFlight
    <3>2. token[t].late \/ Excused(u)
      BY <2>2, <3>1 DEF OldSessionsAreExplained, Excused
    <3>3. token[t].late \/ Excused(u)'
      BY <2>1, <3>2
    <3> QED
      BY <1>1, <2>2, <3>3 DEF Excused, RevocationPending
  <2> QED
    BY <2>3, <2>4
<1> QED
  BY <1>7, <1>8, <1>9, <1>10

-------------------------------------------------------------------------------
LEMMA CallerStepInv ==
  ASSUME SessionsInv, UNCHANGED accountVars, NEW c \in Callers, CallerStep(c)
  PROVE  SessionsInv'
BY LoginInv, RefreshInv, ChangeInv, IssueInv, ExchangeInv, RevokeInv, PasswordInv,
   RevokeAllInv, CallerFailInv
DEF CallerStep

\* Accounts are never removed, and nobody's password is touched from here.
LEMMA AccountStepInv ==
  ASSUME SessionsInv, AccountStep
  PROVE  SessionsInv'
<1> USE DEF SessionsInv
<1>1. AccountsInv' /\ AccountsTypeOK' /\ DOMAIN account \subseteq DOMAIN account'
  BY AccountsStepInv, RolesStay DEF AccountStep, SessionsSound, AccountsInv
<1>2. UNCHANGED <<token, caller, interrupted>>
  BY DEF AccountStep
<1>3. password' \in [DOMAIN account' -> Nat]
      /\ \A u \in DOMAIN account : password'[u] = password[u]
  BY <1>1 DEF AccountStep, SessionsSound, SessionsTypeOK
<1>4. SessionsTypeOK'
  BY <1>1, <1>2, <1>3 DEF SessionsSound, SessionsTypeOK
<1>5. SessionsInFlight'
  BY <1>1, <1>2 DEF SessionsSound, SessionsInFlight, SlotFits
<1>6. RevokedBeforeExchanged'
  BY <1>2 DEF RevokedBeforeExchanged
<1>7. ExchangedByRacersOnly'
  BY <1>2 DEF ExchangedByRacersOnly, Exchanging
<1>8. OldSessionsAreExplained'
  <2>1. \A t \in DOMAIN token : password'[token[t].user] = password[token[t].user]
    BY <1>3 DEF SessionsSound, SessionsInFlight
  <2> QED
    BY <1>2, <2>1 DEF OldSessionsAreExplained, Stale, RevocationPending
<1> QED
  BY <1>1, <1>4, <1>5, <1>6, <1>7, <1>8 DEF SessionsSound

LEMMA SessionsStutterInv ==
  ASSUME SessionsInv, UNCHANGED sessionsVars
  PROVE  SessionsInv'
<1> USE DEF SessionsInv
<1>1. UNCHANGED <<accountVars, password, token, caller, interrupted>> /\ account' = account
  BY DEF sessionsVars, accountVars
<1>2. AccountsInv' /\ AccountsTypeOK'
  BY <1>1, AccountsUntouched DEF SessionsSound
<1>3. SessionsSound'
  BY <1>1, <1>2 DEF SessionsSound, SessionsTypeOK, SessionsInFlight, SlotFits
<1>4. RevokedBeforeExchanged' /\ ExchangedByRacersOnly' /\ OldSessionsAreExplained'
  BY <1>1 DEF RevokedBeforeExchanged, ExchangedByRacersOnly, Exchanging,
              OldSessionsAreExplained, Stale, RevocationPending
<1> QED
  BY <1>3, <1>4

LEMMA SessionsStepInv ==
  ASSUME SessionsInv, [SessionsNext]_sessionsVars
  PROVE  SessionsInv'
BY CallerStepInv, AccountStepInv, ExpiryInv, SessionsStutterInv DEF SessionsNext

\* The inductive invariant holds in every reachable state: rows and plans are
\* well formed, a token is revoked before it is exchanged, and the two properties
\* below (AuthService).
THEOREM SessionsAlwaysSound == SessionsSpec => []SessionsInv
<1>1. SessionsInit => SessionsInv
  BY SessionsInitInv
<1>2. SessionsInv /\ [SessionsNext]_sessionsVars => SessionsInv'
  BY SessionsStepInv
<1> QED
  BY <1>1, <1>2, PTL DEF SessionsSpec

\* Whatever requests overlap, a refresh token is exchanged at most once per request
\* that was already under way (AuthService.refresh).
THEOREM ExchangedByRacersOnlyAlways == SessionsSpec => []ExchangedByRacersOnly
<1>1. SessionsInv => ExchangedByRacersOnly
  BY DEF SessionsInv
<1> QED
  BY <1>1, SessionsAlwaysSound, PTL

\* A session with a former password is one that the change of the password is
\* still about to revoke, failed to revoke, or could not see
\* (AuthService.changePassword).
THEOREM OldSessionsAlwaysExplained == SessionsSpec => []OldSessionsAreExplained
<1>1. SessionsInv => OldSessionsAreExplained
  BY DEF SessionsInv
<1> QED
  BY <1>1, SessionsAlwaysSound, PTL
===============================================================================
