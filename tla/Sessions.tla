------------------------------ MODULE Sessions ------------------------------
(***************************************************************************)
(* Signing in, and staying signed in: AuthService (login, refresh, logout, *)
(* resetPassword) with the pages of one browser, which share the tokens in *)
(* its localStorage and refresh them when the access token has expired.    *)
(*                                                                         *)
(* A refresh is three statements: find the row of the token, set its       *)
(* revokedAt, create the row of its successor.  Nothing holds them         *)
(* together, so other refreshes, logouts and resets run between them.      *)
(*                                                                         *)
(* A refresh token is a JWT without an id: its payload names the user and  *)
(* the family, and its time of issue is in seconds.  So a token is a pair  *)
(* of family and second, and a family's second token of one second is the  *)
(* first one again, which the unique index on tokenHash refuses.           *)
(*                                                                         *)
(* There is one user.  Passwords are numbered in the order they are set.   *)
(***************************************************************************)
EXTENDS Naturals

CONSTANTS
    Family,     \* familyId: one for each login
    Query,      \* calls of apiFetchAuth that can be under way at a time
    Shell,      \* those made by bootstrapSession, which clears the tokens
                \* when it is refused
    SignIn,     \* login requests under way
    Link,       \* password reset tokens
    Setter,     \* requests that set a password
    MaxTime     \* bound: the clock stops here

ASSUME TimeAssumption == MaxTime \in Nat
ASSUME ShellAssumption == Shell \subseteq Query

VARIABLES
    now,        \* the clock, in seconds
    row,        \* row[t]: the RefreshToken row of token t: live, or over, which
                \* is revoked or past its expiresAt
    born,       \* history: the password a family was begun with
    password,   \* User.passwordHash
    link,       \* the PasswordReset rows: open, or over (used or expired)
    setter,     \* setter[s]: the reset token s has found valid
    signin,     \* the login requests
    query,      \* the calls of the pages, with the refresh they lead to
    store,      \* cpaas_access and cpaas_refresh in localStorage
    bounced,    \* a tab shows the login page with ?reason=session
    forked,     \* history: families with two refreshes of one token at once
    spared      \* history: families being refreshed while a password was set

vars == <<now, row, born, password, link, setter, signin, query, store,
          bounced, forked, spared>>

serverVars == <<row, born, password, link, setter, spared>>
browserVars == <<store, bounced>>

NoToken == << >>
NoLink == "no link"

Token == Family \X (0..MaxTime)

ASSUME NoTokenAssumption == NoToken \notin Token
ASSUME NoLinkAssumption == NoLink \notin Link

Live(t) == row[t] = "live"

FamilyOf(t) == t[1]

Unused(f) == \A t \in Token : FamilyOf(t) = f => row[t] = "none"

Queries == [at : {"idle", "asked", "sent", "found", "revoked", "got", "failed",
                  "leaving"},
            tok : Token \cup {NoToken}, cut : BOOLEAN]

SignIns == [at : {"idle", "verified", "got"}, with : Nat,
            tok : Token \cup {NoToken}, late : BOOLEAN]

Stores == [access : {"none", "fresh", "stale"}, refresh : Token \cup {NoToken}]

SessionsTypeOK ==
    /\ now \in 0..MaxTime
    /\ row \in [Token -> {"none", "live", "over"}]
    /\ born \in [Family -> Nat]
    /\ password \in Nat
    /\ link \in [Link -> {"none", "open", "over"}]
    /\ setter \in [Setter -> Link \cup {NoLink}]
    /\ signin \in [SignIn -> SignIns]
    /\ query \in [Query -> Queries]
    /\ store \in Stores
    /\ bounced \in BOOLEAN
    /\ forked \subseteq Family
    /\ spared \subseteq Family

Empty == [access |-> "none", refresh |-> NoToken]

Idle == [at |-> "idle", tok |-> NoToken, cut |-> FALSE]

NoSignIn == [at |-> "idle", with |-> 0, tok |-> NoToken, late |-> FALSE]

Init ==
    /\ now = 0
    /\ row = [t \in Token |-> "none"]
    /\ born = [f \in Family |-> 0]
    /\ password = 0
    /\ link = [k \in Link |-> "none"]
    /\ setter = [s \in Setter |-> NoLink]
    /\ signin = [l \in SignIn |-> NoSignIn]
    /\ query = [q \in Query |-> Idle]
    /\ store = Empty
    /\ bounced = FALSE
    /\ forked = {}
    /\ spared = {}

-----------------------------------------------------------------------------
(* Time: seconds pass, the access token in the browser expires after a     *)
(* quarter of an hour, a refresh token or a reset token after its time.    *)
Tick ==
    /\ now < MaxTime
    /\ now' = now + 1
    /\ UNCHANGED <<serverVars, signin, query, browserVars, forked>>

AccessExpires ==
    /\ store.access = "fresh"
    /\ store' = [store EXCEPT !.access = "stale"]
    /\ UNCHANGED <<now, serverVars, signin, query, bounced, forked>>

RefreshExpires(t) ==
    /\ Live(t)
    /\ row' = [row EXCEPT ![t] = "over"]
    /\ UNCHANGED <<now, born, password, link, setter, signin, query,
                   browserVars, forked, spared>>

LinkExpires(k) ==
    /\ link[k] = "open"
    /\ link' = [link EXCEPT ![k] = "over"]
    /\ UNCHANGED <<now, row, born, password, setter, signin, query,
                   browserVars, forked, spared>>

-----------------------------------------------------------------------------
(* Login.  The password is verified against the hash that was read, which  *)
(* takes its time; the update of lastLoginAt and the lookup of the         *)
(* membership follow, and the tokens are issued at the end.                *)
LoginVerify(l) ==
    /\ signin[l].at = "idle"
    /\ signin' = [signin EXCEPT ![l] = [at |-> "verified", with |-> password,
                                        tok |-> NoToken, late |-> FALSE]]
    /\ UNCHANGED <<now, serverVars, query, browserVars, forked>>

(* issueTokens, with a new random family.                                  *)
LoginIssue(l, f) ==
    /\ signin[l].at = "verified"
    /\ Unused(f)
    /\ row' = [row EXCEPT ![<<f, now>>] = "live"]
    /\ born' = [born EXCEPT ![f] = signin[l].with]
    /\ spared' = IF signin[l].late THEN spared \cup {f} ELSE spared
    /\ signin' = [signin EXCEPT ![l].at = "got", ![l].tok = <<f, now>>]
    /\ UNCHANGED <<now, password, link, setter, query, browserVars, forked>>

(* The login page stores what it got and leaves for the dashboard.  It is  *)
(* the page opened with ?reason=session, or one of another tab.            *)
LoginStores(l) ==
    /\ signin[l].at = "got"
    /\ store' = [access |-> "fresh", refresh |-> signin[l].tok]
    /\ bounced' \in {FALSE, bounced}
    /\ signin' = [signin EXCEPT ![l] = NoSignIn]
    /\ UNCHANGED <<now, serverVars, query, forked>>

(* A replica dies, or the answer is lost.                                  *)
LoginDies(l) ==
    /\ signin[l].at # "idle"
    /\ signin' = [signin EXCEPT ![l] = NoSignIn]
    /\ UNCHANGED <<now, serverVars, query, browserVars, forked>>

-----------------------------------------------------------------------------
(* apiFetchAuth.  A call with a fresh access token is answered and changes *)
(* nothing here; with an expired one it is refused, and a refresh follows. *)
Ask(q) ==
    /\ query[q].at = "idle"
    /\ store.access = "stale"
    /\ query' = [query EXCEPT ![q].at = "asked"]
    /\ UNCHANGED <<now, serverVars, signin, browserVars, forked>>

(* tryRefreshAccessToken sends the refresh token it finds by now.          *)
SendRefresh(q) ==
    /\ query[q].at = "asked"
    /\ query' = [query EXCEPT ![q].at = IF store.refresh = NoToken
                                        THEN "failed" ELSE "sent",
                              ![q].tok = store.refresh]
    /\ UNCHANGED <<now, serverVars, signin, browserVars, forked>>

Holding(q) == query[q].at \in {"found", "revoked"}

(* A variant with a bug: whether the token was revoked is not looked at.   *)
FindAnyToken(q) ==
    LET t == query[q].tok
    IN  /\ query[q].at = "sent"
        /\ query' = [query EXCEPT ![q].at = IF row[t] = "none" THEN "failed"
                                            ELSE "found"]
        /\ UNCHANGED forked
        /\ UNCHANGED <<now, serverVars, signin, browserVars>>

(* AuthService.refresh.  The row is found and checked ...                  *)
FindToken(q) ==
    LET t == query[q].tok
    IN  /\ query[q].at = "sent"
        /\ query' = [query EXCEPT ![q].at = IF Live(t) THEN "found"
                                            ELSE "failed"]
        /\ forked' = IF Live(t) /\ \E p \in Query : Holding(p)
                                                    /\ query[p].tok = t
                     THEN forked \cup {FamilyOf(t)} ELSE forked
        /\ UNCHANGED <<now, serverVars, signin, browserVars>>

(* Variants with a bug: the wrong column is written; nothing is written;   *)
(* a token of the running second is refused first.                         *)
RevokeAsSpent(q) ==
    /\ query[q].at = "found"
    /\ query' = [query EXCEPT ![q].at = "revoked"]
    /\ row' = [row EXCEPT ![query[q].tok] = "spent"]
    /\ UNCHANGED <<now, born, password, link, setter, signin, browserVars,
                   forked, spared>>

RevokeNothing(q) ==
    /\ query[q].at = "found"
    /\ query' = [query EXCEPT ![q].at = "revoked"]
    /\ UNCHANGED <<now, serverVars, signin, browserVars, forked>>

RevokeUnlessTooSoon(q) ==
    LET t == query[q].tok
        soon == row[<<FamilyOf(t), now>>] # "none"
    IN  /\ query[q].at = "found"
        /\ query' = [query EXCEPT ![q].at = IF soon THEN "failed" ELSE "revoked"]
        /\ row' = IF soon THEN row ELSE [row EXCEPT ![t] = "over"]
        /\ UNCHANGED <<now, born, password, link, setter, signin, browserVars,
                       forked, spared>>

(* ... revoked, whatever has happened to it since ...                      *)
RevokeToken(q) ==
    /\ query[q].at = "found"
    /\ query' = [query EXCEPT ![q].at = "revoked"]
    /\ row' = [row EXCEPT ![query[q].tok] = "over"]
    /\ UNCHANGED <<now, born, password, link, setter, signin, browserVars,
                   forked, spared>>

(* ... and a token of the same family is issued.  If the family has one of *)
(* this second, the statement throws, and the old token is gone all the    *)
(* same.                                                                   *)
IssueToken(q) ==
    LET t == <<FamilyOf(query[q].tok), now>>
    IN  /\ query[q].at = "revoked"
        /\ IF row[t] = "none"
           THEN /\ row' = [row EXCEPT ![t] = "live"]
                /\ query' = [query EXCEPT ![q].at = "got", ![q].tok = t]
           ELSE /\ query' = [query EXCEPT ![q].at = "failed"]
                /\ UNCHANGED row
        /\ UNCHANGED <<now, born, password, link, setter, signin, browserVars,
                       forked, spared>>

(* The replica dies before the refresh has ended, or its answer, or the    *)
(* request itself, is lost: tryRefreshAccessToken catches every error.     *)
RefreshCut(q) ==
    /\ query[q].at \in {"sent", "found", "revoked", "got"}
    /\ query' = [query EXCEPT ![q].at = "failed", ![q].cut = TRUE]
    /\ UNCHANGED <<now, serverVars, signin, browserVars, forked>>

(* setTokens; the call is repeated with the new access token and answered. *)
StoreTokens(q) ==
    /\ query[q].at = "got"
    /\ store' = [access |-> "fresh", refresh |-> query[q].tok]
    /\ query' = [query EXCEPT ![q] = Idle]
    /\ UNCHANGED <<now, serverVars, signin, bounced, forked>>

(* A page shows the error.                                                 *)
PageFails(q) ==
    /\ q \notin Shell
    /\ query[q].at = "failed"
    /\ query' = [query EXCEPT ![q] = Idle]
    /\ UNCHANGED <<now, serverVars, signin, browserVars, forked>>

(* bootstrapSession clears whatever tokens there are by now.  The shell    *)
(* does so once more when it sees the error, and opens the login page.     *)
ShellClears(q) ==
    /\ q \in Shell
    /\ query[q].at = "failed"
    /\ query' = [query EXCEPT ![q].at = "leaving"]
    /\ store' = Empty
    /\ UNCHANGED <<now, serverVars, signin, bounced, forked>>

ShellLeaves(q) ==
    /\ query[q].at = "leaving"
    /\ query' = [query EXCEPT ![q] = Idle]
    /\ store' = Empty
    /\ bounced' = TRUE
    /\ UNCHANGED <<now, serverVars, signin, forked>>

(* The login page clears the tokens again each time it is loaded with      *)
(* ?reason=session, though another tab may have signed in meanwhile.       *)
LoginPageClears ==
    /\ bounced
    /\ store' = Empty
    /\ UNCHANGED <<now, serverVars, signin, query, bounced, forked>>

(* The dashboard's sign-out clears the browser and tells nobody.           *)
SignOut ==
    /\ store.access # "none"
    /\ store' = Empty
    /\ UNCHANGED <<now, serverVars, signin, query, bounced, forked>>

-----------------------------------------------------------------------------
(* AuthService.logout, which only other clients of the API call.           *)
Logout(t) ==
    /\ Live(t)
    /\ row' = [row EXCEPT ![t] = "over"]
    /\ UNCHANGED <<now, born, password, link, setter, signin, query,
                   browserVars, forked, spared>>

RequestReset(k) ==
    /\ link[k] = "none"
    /\ link' = [link EXCEPT ![k] = "open"]
    /\ UNCHANGED <<now, row, born, password, setter, signin, query,
                   browserVars, forked, spared>>

(* resetPassword finds the token valid and hashes the new password ...     *)
FindLink(s, k) ==
    /\ setter[s] = NoLink
    /\ link[k] = "open"
    /\ setter' = [setter EXCEPT ![s] = k]
    /\ UNCHANGED <<now, row, born, password, link, signin, query,
                   browserVars, forked, spared>>

(* A variant with a bug: the sessions are left alone.                      *)
SetPasswordOnly(s) ==
    /\ setter[s] # NoLink
    /\ password' = password + 1
    /\ link' = [link EXCEPT ![setter[s]] = "over"]
    /\ spared' = spared \cup {FamilyOf(query[q].tok) :
                                q \in {p \in Query : Holding(p)}}
    /\ signin' = [l \in SignIn |-> [signin[l] EXCEPT !.late =
                                      @ \/ signin[l].at = "verified"]]
    /\ setter' = [setter EXCEPT ![s] = NoLink]
    /\ UNCHANGED <<now, row, born, query, browserVars, forked>>

(* ... and sets it in one transaction with revoking all that is not        *)
(* revoked.  Whether the token was used meanwhile is not checked again.    *)
SetPassword(s) ==
    /\ setter[s] # NoLink
    /\ password' = password + 1
    /\ link' = [link EXCEPT ![setter[s]] = "over"]
    /\ row' = [t \in Token |-> IF row[t] = "none" THEN "none" ELSE "over"]
    /\ spared' = spared \cup {FamilyOf(query[q].tok) :
                                q \in {p \in Query : Holding(p)}}
    /\ signin' = [l \in SignIn |-> [signin[l] EXCEPT !.late =
                                      @ \/ signin[l].at = "verified"]]
    /\ setter' = [setter EXCEPT ![s] = NoLink]
    /\ UNCHANGED <<now, born, query, browserVars, forked>>

SetterDies(s) ==
    /\ setter[s] # NoLink
    /\ setter' = [setter EXCEPT ![s] = NoLink]
    /\ UNCHANGED <<now, row, born, password, link, signin, query,
                   browserVars, forked, spared>>

-----------------------------------------------------------------------------
LoginNext(l) ==
    \/ LoginVerify(l)
    \/ \E f \in Family : LoginIssue(l, f)
    \/ LoginStores(l)
    \/ LoginDies(l)

QueryNext(q) ==
    \/ Ask(q) \/ SendRefresh(q) \/ FindToken(q) \/ RevokeToken(q)
    \/ IssueToken(q) \/ RefreshCut(q) \/ StoreTokens(q) \/ PageFails(q)
    \/ ShellClears(q) \/ ShellLeaves(q)

ResetNext ==
    \/ \E k \in Link : RequestReset(k) \/ LinkExpires(k)
    \/ \E s \in Setter, k \in Link : FindLink(s, k)
    \/ \E s \in Setter : SetPassword(s) \/ SetterDies(s)

Next ==
    \/ Tick \/ AccessExpires \/ LoginPageClears \/ SignOut
    \/ \E t \in Token : RefreshExpires(t) \/ Logout(t)
    \/ \E l \in SignIn : LoginNext(l)
    \/ \E q \in Query : QueryNext(q)
    \/ ResetNext

Spec == Init /\ [][Next]_vars

-----------------------------------------------------------------------------
(* Rotation: refresh revokes the token it is given before it issues the    *)
(* next, so a session has one live token at most, unless two refreshes     *)
(* found the same token valid at the same time.                            *)
OneLiveUnlessForked ==
    \A f \in Family \ forked :
        \A t, u \in Token :
            (FamilyOf(t) = f /\ FamilyOf(u) = f /\ Live(t) /\ Live(u)) => t = u

(* resetPassword ends the sessions of the user: what is live was begun     *)
(* with the password of today, or a login or refresh that had passed its   *)
(* check was under way while the password was set.                         *)
ResetEndsSessions ==
    \A t \in Token :
        Live(t) => born[FamilyOf(t)] = password \/ FamilyOf(t) \in spared

(* The end of a session is final: a family without a live token, and with  *)
(* no refresh past its check, never has a live token again.  A logout is   *)
(* undone only by a refresh under way.                                     *)
Over(f) ==
    /\ ~ Unused(f)
    /\ \A t \in Token : FamilyOf(t) = f => ~ Live(t)
    /\ \A q \in Query : Holding(q) => FamilyOf(query[q].tok) # f

OverIsOver == [][\A f \in Family : Over(f) => Over(f)']_vars

(* When the shell throws away a refresh token that is still good, it is    *)
(* not the token its own refresh was refused for (another page or tab has  *)
(* stored it since), or that refresh never got to revoke it.               *)
DroppedIsExplained ==
    [][\A q \in Shell :
         (/\ query[q].at \in {"failed", "leaving"}
          /\ query[q]' # query[q]
          /\ store.refresh # NoToken
          /\ Live(store.refresh))
           => query[q].tok # store.refresh \/ query[q].cut]_vars
=============================================================================
