------------------------------- MODULE Sessions -------------------------------
(***************************************************************************)
(* Sessions (src/src/auth): login, the rotation of refresh tokens, logout  *)
(* and the change of a password.  An access token is a claim that nobody   *)
(* looks up again: it lets its bearer in until it expires.                 *)
(*                                                                         *)
(* A request is a slot of Callers; it stops at every await that writes, so *)
(* that what it read before may be out of date when it writes.             *)
(***************************************************************************)
EXTENDS Accounts, Naturals

CONSTANTS
  Callers,     \* slots of requests to /auth in flight
  Tokens,      \* identifiers of token pairs; see Fresh
  MaxChanges,  \* bound: how often one password is changed
  NoToken      \* a login exchanges no token

ASSUME SessionsAssumption ==
  /\ NoToken \notin Tokens
  /\ MaxChanges \in Nat
  /\ IsFiniteSet(Callers)

VARIABLES
  password,    \* users.passwordHash: which password is in force, numbered
  token,       \* table refresh_tokens, each row with the access token issued
               \*   together with it
  caller,      \* what each slot is about to do
  interrupted  \* ghost: users whose change of password broke off before the
               \*   sessions were revoked

sessionTables == <<password, token>>
sessionsVars  == <<accountVars, password, token, caller, interrupted>>

\* refresh is dead once the row is revoked or the token has expired: neither
\* is ever undone.  The ghosts of a row: `under` is the password that its first login gave,
\* `late` says that the password had changed since when the row was inserted,
\* `exchanges` counts the token pairs that were issued for it.
TokenRow ==
  [user : Emails, refresh : {"live", "dead"},
   access : {"valid", "expired"}, under : Nat, late : BOOLEAN,
   exchanges : Nat]

CallerIdle == [op |-> "idle"]

CallerState ==
  [op : {"idle"}]
    \cup [op : {"exchange"}, from : Tokens, user : Emails, under : Nat]
    \cup [op : {"revoke"}, from : Tokens]
    \cup [op : {"issue"}, from : Tokens \cup {NoToken}, user : Emails, under : Nat]
    \cup [op : {"hash", "revokeAll"}, user : Emails]

Held(c) == IF "from" \in DOMAIN caller[c] THEN {caller[c].from} ELSE {}

\* randomUUID: an identifier nobody has.  To keep Tokens finite, a pair that
\* can no longer be used and that no request is about counts as nobody's.
Fresh ==
  {t \in Tokens :
     /\ t \in DOMAIN token =>
          token[t].refresh = "dead" /\ token[t].access = "expired"
     /\ \A c \in Callers : t \notin Held(c)}

CallerBegin(c, plan) ==
  /\ caller[c] = CallerIdle
  /\ caller' = [caller EXCEPT ![c] = plan]
  /\ UNCHANGED <<sessionTables, interrupted>>

CallerFinish(c) == caller' = [caller EXCEPT ![c] = CallerIdle]

\* JwtAuthGuard and JwtStrategy: the bearer of a token that has not expired
\* is let in as its user; the account is not read.
Admitted(u) ==
  \E a \in DOMAIN token : token[a].user = u /\ token[a].access = "valid"

-------------------------------------------------------------------------------
(* POST /auth/login, by someone who knows the password in force.           *)

LoginRead(c, u) ==
  /\ u \in DOMAIN account
  /\ account[u].status # "SUSPENDED"
  /\ CallerBegin(c, [op |-> "issue", from |-> NoToken, user |-> u,
                     under |-> password[u]])

\* issueTokens: both tokens are signed, the refresh token's row is inserted.
IssueWrite(c) ==
  /\ caller[c].op = "issue"
  /\ LET plan == caller[c]
         row  == [user |-> plan.user, refresh |-> "live", access |-> "valid",
                  under |-> plan.under,
                  late |-> plan.under # password[plan.user],
                  exchanges |-> 0]
     IN  \E t \in Fresh :
           token' = [s \in DOMAIN token \cup {t} |->
                       IF s = t THEN row
                       ELSE IF s = plan.from
                            THEN [token[s] EXCEPT !.exchanges = @ + 1]
                            ELSE token[s]]
  /\ CallerFinish(c)
  /\ UNCHANGED <<password, interrupted>>

-------------------------------------------------------------------------------
(* POST /auth/refresh: a token that is neither revoked nor expired is      *)
(* revoked and a new pair issued; a suspended user only loses the token.   *)

\* A bug: whoever holds a refresh token gets a new one, suspended or not.
RefreshRead_Suspended(c, t) ==
  /\ t \in DOMAIN token
  /\ token[t].refresh = "live"
  /\ CallerBegin(c, [op |-> "exchange", from |-> t, user |-> token[t].user,
                     under |-> token[t].under])

RefreshRead(c, t) ==
  /\ t \in DOMAIN token
  /\ token[t].refresh = "live"
  /\ CallerBegin(c,
       IF account[token[t].user].status = "SUSPENDED"
       THEN [op |-> "revoke", from |-> t]
       ELSE [op |-> "exchange", from |-> t, user |-> token[t].user,
             under |-> token[t].under])

\* A bug: the old token stays usable.
ExchangeWrite_Kept(c) ==
  /\ caller[c].op = "exchange"
  /\ caller' = [caller EXCEPT ![c].op = "issue"]
  /\ UNCHANGED <<sessionTables, interrupted>>

\* The revocation of the old token; the insertion of the new one follows.
ExchangeWrite(c) ==
  /\ caller[c].op = "exchange"
  /\ token' = [token EXCEPT ![caller[c].from].refresh = "dead"]
  /\ caller' = [caller EXCEPT ![c].op = "issue"]
  /\ UNCHANGED <<password, interrupted>>

\* revokeRefreshToken, for a logout or a suspended user.
RevokeWrite(c) ==
  /\ caller[c].op = "revoke"
  /\ token' = [token EXCEPT ![caller[c].from].refresh = "dead"]
  /\ CallerFinish(c)
  /\ UNCHANGED <<password, interrupted>>

-------------------------------------------------------------------------------
(* POST /auth/logout: the bearer gives up a refresh token of its own; to   *)
(* revoke one that has expired changes nothing.                            *)

LogoutRead(c, t) ==
  /\ t \in DOMAIN token
  /\ Admitted(token[t].user)
  /\ token[t].refresh = "live"
  /\ CallerBegin(c, [op |-> "revoke", from |-> t])

-------------------------------------------------------------------------------
(* POST /auth/change-password: whoever gives the current password sets     *)
(* another one; then every session of the user is revoked.                 *)

ChangePasswordRead(c, u) ==
  /\ Admitted(u)
  /\ CallerBegin(c, [op |-> "hash", user |-> u])

\* A bug: the sessions are left alone.
PasswordWrite_SessionsKept(c) ==
  /\ caller[c].op = "hash"
  /\ password[caller[c].user] < MaxChanges
  /\ password' = [password EXCEPT ![caller[c].user] = @ + 1]
  /\ CallerFinish(c)
  /\ UNCHANGED <<token, interrupted>>

\* The new password, of which the request only knows that it differs from the
\* one it read: it gets a number of its own.
PasswordWrite(c) ==
  /\ caller[c].op = "hash"
  /\ password[caller[c].user] < MaxChanges
  /\ password' = [password EXCEPT ![caller[c].user] = @ + 1]
  /\ caller' = [caller EXCEPT ![c].op = "revokeAll"]
  /\ UNCHANGED <<token, interrupted>>

\* revokeAllUserRefreshTokens.
RevokeAllWrite(c) ==
  /\ caller[c].op = "revokeAll"
  /\ token' = [t \in DOMAIN token |->
                 IF token[t].user = caller[c].user
                 THEN [token[t] EXCEPT !.refresh = "dead"]
                 ELSE token[t]]
  /\ CallerFinish(c)
  /\ interrupted' = interrupted \ {caller[c].user}
  /\ UNCHANGED password

-------------------------------------------------------------------------------
\* A database error or a crash between two awaits.
CallerFail(c) ==
  /\ caller[c] # CallerIdle
  /\ CallerFinish(c)
  /\ interrupted' = interrupted \cup
       (IF caller[c].op = "revokeAll" THEN {caller[c].user} ELSE {})
  /\ UNCHANGED sessionTables

\* JWT_ACCESS_EXPIRES_IN and JWT_REFRESH_EXPIRES_IN go by.
AccessExpires(t) ==
  /\ t \in DOMAIN token
  /\ token[t].access = "valid"
  /\ token' = [token EXCEPT ![t].access = "expired"]
  /\ UNCHANGED <<accountVars, password, caller, interrupted>>

RefreshExpires(t) ==
  /\ t \in DOMAIN token
  /\ token[t].refresh = "live"
  /\ token' = [token EXCEPT ![t].refresh = "dead"]
  /\ UNCHANGED <<accountVars, password, caller, interrupted>>

-------------------------------------------------------------------------------
SessionsInit ==
  /\ AccountsInit
  /\ password = [u \in {Admin} |-> 0]
  /\ token = << >>
  /\ caller = [c \in Callers |-> CallerIdle]
  /\ interrupted = {}

CallerStep(c) ==
  \/ \E u \in Emails : LoginRead(c, u)
  \/ \E t \in Tokens : RefreshRead(c, t)
  \/ \E t \in Tokens : LogoutRead(c, t)
  \/ \E u \in Emails : ChangePasswordRead(c, u)
  \/ IssueWrite(c)
  \/ ExchangeWrite(c)
  \/ RevokeWrite(c)
  \/ PasswordWrite(c)
  \/ RevokeAllWrite(c)
  \/ CallerFail(c)

\* A step about accounts; who registers brings a password along.
AccountStep ==
  /\ AccountsNext
  /\ password' = [u \in DOMAIN account' |->
                    IF u \in DOMAIN account THEN password[u] ELSE 0]
  /\ UNCHANGED <<token, caller, interrupted>>

SessionsNext ==
  \/ \E c \in Callers : CallerStep(c) /\ UNCHANGED accountVars
  \/ AccountStep
  \/ \E t \in Tokens : AccessExpires(t)
  \/ \E t \in Tokens : RefreshExpires(t)

SessionsSpec == SessionsInit /\ [][SessionsNext]_sessionsVars

\* Time passes: an access token that is not used up expires.
SessionsFairSpec == SessionsSpec /\ \A t \in Tokens : WF_sessionsVars(AccessExpires(t))
-------------------------------------------------------------------------------
SessionsTypeOK ==
  /\ AccountsTypeOK
  /\ password \in [DOMAIN account -> Nat]
  /\ DOMAIN token \subseteq Tokens
  /\ token \in [DOMAIN token -> TokenRow]
  /\ caller \in [Callers -> CallerState]
  /\ interrupted \subseteq Emails

Exchanging(t) ==
  {c \in Callers : caller[c].op \in {"exchange", "issue"} /\ caller[c].from = t}

\* A refresh token is exchanged once for every request that found it usable
\* before the first of them revoked it, and never again: a client that
\* retries, or whoever copied the token, gets nothing after that
\* (AuthService.refresh).
ExchangedByRacersOnly ==
  \A t \in DOMAIN token :
    token[t].exchanges + Cardinality(Exchanging(t)) <= Cardinality(Callers)

Stale(t) == token[t].under # password[token[t].user]

RevocationPending(u) ==
  \E c \in Callers : caller[c] = [op |-> "revokeAll", user |-> u]

\* A session opened with a former password is revoked when the change of the
\* password is done.  The exceptions: a change that broke off half-way, and a
\* row that a login or a refresh inserted after the new password although it
\* had read the user before (AuthService.changePassword, issueTokens).
OldSessionsAreExplained ==
  \A t \in DOMAIN token :
    token[t].refresh = "live" /\ Stale(t) =>
      \/ token[t].late
      \/ RevocationPending(token[t].user)
      \/ token[t].user \in interrupted

\* A user who stays suspended is out for good once the access tokens of the
\* time before have expired: refreshing gives no new ones
\* (AuthService.login, AuthService.refresh, JwtStrategy.validate).
SuspensionEndsSessions ==
  \A u \in Emails :
    <>[](u \in DOMAIN account /\ account[u].status = "SUSPENDED")
      => <>[] ~Admitted(u)
===============================================================================
