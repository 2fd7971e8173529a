--------------------------- MODULE SessionsProofs ---------------------------
(***************************************************************************)
(* What holds of sessions for every number of logins, pages and tabs, and  *)
(* however long the clock runs.                                            *)
(***************************************************************************)
EXTENDS Sessions, TLAPS

LEMMA TokensAreTokens ==
  /\ \A f \in Family, n \in 0..MaxTime :
        <<f, n>> \in Token /\ FamilyOf(<<f, n>>) = f
  /\ \A t \in Token : FamilyOf(t) \in Family
  BY DEF Token, FamilyOf

(* A refresh under way has the token it was sent for.                      *)
Carrying ==
  \A q \in Query : query[q].at \in {"sent", "found", "revoked", "got"}
                    => query[q].tok \in Token

LEMMA TypeInit == Init => SessionsTypeOK
<1> SUFFICES ASSUME Init PROVE SessionsTypeOK
  OBVIOUS
<1>1. query \in [Query -> Queries] /\ signin \in [SignIn -> SignIns]
  BY DEF Init, Idle, NoSignIn, Queries, SignIns
<1>2. store \in Stores /\ now \in 0..MaxTime
  BY TimeAssumption DEF Init, Empty, Stores
<1>3. bounced \in BOOLEAN
  BY DEF Init
<1> QED
  BY <1>1, <1>2, <1>3 DEF Init, SessionsTypeOK

LEMMA LoginTypes ==
  ASSUME SessionsTypeOK, NEW l \in SignIn, LoginNext(l)
  PROVE  SessionsTypeOK'
<1>1. CASE LoginVerify(l)
  <2>1. signin' \in [SignIn -> SignIns]
    BY <1>1 DEF LoginVerify, SessionsTypeOK, SignIns
  <2> QED
    BY <1>1, <2>1 DEF LoginVerify, SessionsTypeOK, serverVars, browserVars
<1>2. ASSUME NEW f \in Family, LoginIssue(l, f)
      PROVE  SessionsTypeOK'
  <2>1. <<f, now>> \in Token
    BY TokensAreTokens DEF SessionsTypeOK
  <2>2. signin' \in [SignIn -> SignIns]
    BY <1>2, <2>1 DEF LoginIssue, SessionsTypeOK, SignIns
  <2>3. /\ row' \in [Token -> {"none", "live", "over"}]
        /\ born' \in [Family -> Nat]
        /\ spared' \subseteq Family
    BY <1>2, <2>1 DEF LoginIssue, SessionsTypeOK, SignIns
  <2> QED
    BY <1>2, <2>2, <2>3 DEF LoginIssue, SessionsTypeOK, browserVars
<1>3. CASE LoginStores(l)
  <2>1. signin[l] \in SignIns /\ NoSignIn \in SignIns
    BY DEF SessionsTypeOK, NoSignIn, SignIns
  <2>2. signin' \in [SignIn -> SignIns]
    BY <1>3, <2>1 DEF LoginStores, SessionsTypeOK
  <2>3. store' \in Stores
    BY <1>3, <2>1 DEF LoginStores, Stores, SignIns
  <2>4. bounced' \in BOOLEAN
    BY <1>3 DEF LoginStores, SessionsTypeOK
  <2> QED
    BY <1>3, <2>2, <2>3, <2>4 DEF LoginStores, SessionsTypeOK, serverVars
<1>4. CASE LoginDies(l)
  <2>1. signin' \in [SignIn -> SignIns]
    BY <1>4 DEF LoginDies, SessionsTypeOK, NoSignIn, SignIns
  <2> QED
    BY <1>4, <2>1 DEF LoginDies, SessionsTypeOK, serverVars, browserVars
<1> QED
  BY <1>1, <1>2, <1>3, <1>4 DEF LoginNext

LEMMA QueryTypes ==
  ASSUME SessionsTypeOK, Carrying, NEW q \in Query, QueryNext(q)
  PROVE  SessionsTypeOK'
<1>a. query[q] \in Queries /\ Idle \in Queries
  BY DEF SessionsTypeOK, Queries, Idle
<1>b. Empty \in Stores
  BY DEF Empty, Stores
<1>1. CASE Ask(q) \/ SendRefresh(q) \/ FindToken(q) \/ RefreshCut(q) \/ PageFails(q)
  <2>1. query' \in [Query -> Queries]
    <3>1. CASE Ask(q)
      BY <3>1, <1>a DEF Ask, SessionsTypeOK, Queries
    <3>2. CASE SendRefresh(q)
      BY <3>2, <1>a DEF SendRefresh, SessionsTypeOK, Queries, Stores
    <3>3. CASE FindToken(q)
      BY <3>3, <1>a DEF FindToken, SessionsTypeOK, Queries
    <3>4. CASE RefreshCut(q)
      BY <3>4, <1>a DEF RefreshCut, SessionsTypeOK, Queries
    <3>5. CASE PageFails(q)
      BY <3>5, <1>a DEF PageFails, SessionsTypeOK
    <3> QED
      BY <1>1, <3>1, <3>2, <3>3, <3>4, <3>5
  <2>2. forked' \subseteq Family
    <3>1. CASE FindToken(q) /\ Live(query[q].tok)
      BY <3>1, TokensAreTokens DEF FindToken, SessionsTypeOK, Carrying
    <3> QED
      BY <1>1, <3>1 DEF Ask, SendRefresh, FindToken, RefreshCut, PageFails,
                        SessionsTypeOK
  <2> QED
    BY <1>1, <2>1, <2>2 DEF Ask, SendRefresh, FindToken, RefreshCut, PageFails,
                            SessionsTypeOK, serverVars, browserVars
<1>2. CASE RevokeToken(q)
  <2>1. query' \in [Query -> Queries]
    BY <1>2, <1>a DEF RevokeToken, SessionsTypeOK, Queries
  <2>2. row' \in [Token -> {"none", "live", "over"}]
    BY <1>2 DEF RevokeToken, SessionsTypeOK
  <2> QED
    BY <1>2, <2>1, <2>2 DEF RevokeToken, SessionsTypeOK, browserVars
<1>3. CASE IssueToken(q)
  <2> DEFINE t == <<FamilyOf(query[q].tok), now>>
  <2>t. t \in Token
    BY <1>3, TokensAreTokens DEF IssueToken, SessionsTypeOK, Carrying
  <2>1. CASE row[t] = "none"
    <3>1. query' \in [Query -> Queries]
      BY <1>3, <1>a, <2>t, <2>1 DEF IssueToken, SessionsTypeOK, Queries
    <3>2. row' \in [Token -> {"none", "live", "over"}]
      BY <1>3, <2>t, <2>1 DEF IssueToken, SessionsTypeOK
    <3> QED
      BY <1>3, <3>1, <3>2 DEF IssueToken, SessionsTypeOK, browserVars
  <2>2. CASE row[t] # "none"
    <3>1. query' \in [Query -> Queries]
      BY <1>3, <1>a, <2>2 DEF IssueToken, SessionsTypeOK, Queries
    <3> QED
      BY <1>3, <2>2, <3>1 DEF IssueToken, SessionsTypeOK, browserVars
  <2> QED
    BY <2>1, <2>2
<1>4. CASE StoreTokens(q)
  <2>1. store' \in Stores
    BY <1>4, <1>a DEF StoreTokens, Stores, Queries
  <2>2. query' \in [Query -> Queries]
    BY <1>4, <1>a DEF StoreTokens, SessionsTypeOK
  <2> QED
    BY <1>4, <2>1, <2>2 DEF StoreTokens, SessionsTypeOK, serverVars
<1>5. CASE ShellClears(q) \/ ShellLeaves(q)
  <2>1. query' \in [Query -> Queries]
    BY <1>5, <1>a DEF ShellClears, ShellLeaves, SessionsTypeOK, Queries
  <2>2. bounced' \in BOOLEAN
    BY <1>5 DEF ShellClears, ShellLeaves, SessionsTypeOK
  <2> QED
    BY <1>5, <1>b, <2>1, <2>2 DEF ShellClears, ShellLeaves, SessionsTypeOK,
                                  serverVars
<1> QED
  BY <1>1, <1>2, <1>3, <1>4, <1>5 DEF QueryNext

LEMMA TypeStep == SessionsTypeOK /\ Carrying /\ [Next]_vars => SessionsTypeOK'
<1> SUFFICES ASSUME SessionsTypeOK, Carrying, [Next]_vars PROVE SessionsTypeOK'
  OBVIOUS
<1>1. CASE UNCHANGED vars
  BY <1>1 DEF vars, SessionsTypeOK
<1>2. CASE Tick
  BY <1>2, TimeAssumption DEF Tick, SessionsTypeOK, serverVars, browserVars
<1>3. CASE AccessExpires \/ LoginPageClears \/ SignOut
  <2>1. store' \in Stores
    BY <1>3 DEF AccessExpires, LoginPageClears, SignOut, SessionsTypeOK, Stores,
                Empty
  <2> QED
    BY <1>3, <2>1 DEF AccessExpires, LoginPageClears, SignOut, SessionsTypeOK,
                      serverVars
<1>4. ASSUME NEW t \in Token, RefreshExpires(t) \/ Logout(t)
      PROVE  SessionsTypeOK'
  BY <1>4 DEF RefreshExpires, Logout, SessionsTypeOK, browserVars
<1>5. CASE ResetNext
  <2>1. CASE \E k \in Link : RequestReset(k) \/ LinkExpires(k)
    BY <2>1 DEF RequestReset, LinkExpires, SessionsTypeOK, browserVars
  <2>2. CASE \/ \E s \in Setter, k \in Link : FindLink(s, k)
             \/ \E s \in Setter : SetterDies(s)
    BY <2>2 DEF FindLink, SetterDies, SessionsTypeOK, browserVars
  <2>3. ASSUME NEW s \in Setter, SetPassword(s)
        PROVE  SessionsTypeOK'
    <3>1. signin' \in [SignIn -> SignIns]
      BY <2>3 DEF SetPassword, SessionsTypeOK, SignIns
    <3>2. spared' \subseteq Family
      BY <2>3, TokensAreTokens DEF SetPassword, SessionsTypeOK, Carrying, Holding
    <3>3. row' \in [Token -> {"none", "live", "over"}]
      BY <2>3 DEF SetPassword, SessionsTypeOK
    <3>4. link' \in [Link -> {"none", "open", "over"}] /\ password' \in Nat
      BY <2>3 DEF SetPassword, SessionsTypeOK
    <3> QED
      BY <2>3, <3>1, <3>2, <3>3, <3>4 DEF SetPassword, SessionsTypeOK,
                                          browserVars
  <2> QED
    BY <1>5, <2>1, <2>2, <2>3 DEF ResetNext
<1> QED
  BY <1>1, <1>2, <1>3, <1>4, <1>5, LoginTypes, QueryTypes DEF Next

-----------------------------------------------------------------------------
(* What a step does to sessions: nothing, a token ends, a login or a call  *)
(* goes on, a password is set.                                             *)
Quiet ==
  /\ UNCHANGED <<row, query, signin, password, born, forked, spared>>
  /\ store'.refresh \in {store.refresh, NoToken}

Ends(t) ==
  /\ row' = [row EXCEPT ![t] = "over"]
  /\ UNCHANGED <<query, signin, password, born, forked, spared, store>>

LEMMA Steps ==
  ASSUME SessionsTypeOK, [Next]_vars
  PROVE  \/ Quiet
         \/ \E t \in Token : Ends(t)
         \/ \E l \in SignIn : LoginNext(l)
         \/ \E q \in Query : QueryNext(q)
         \/ \E s \in Setter : SetPassword(s)
<1>1. CASE UNCHANGED vars
  BY <1>1 DEF vars, Quiet
<1>2. CASE Tick \/ AccessExpires \/ LoginPageClears \/ SignOut
  <2>1. UNCHANGED <<row, query, signin, password, born, forked, spared>>
    BY <1>2 DEF Tick, AccessExpires, LoginPageClears, SignOut, serverVars
  <2>2. store'.refresh \in {store.refresh, NoToken}
    BY <1>2 DEF Tick, AccessExpires, LoginPageClears, SignOut, browserVars,
                Empty, SessionsTypeOK, Stores
  <2> QED
    BY <2>1, <2>2 DEF Quiet
<1>3. ASSUME NEW t \in Token, RefreshExpires(t) \/ Logout(t)
      PROVE  Ends(t)
  BY <1>3 DEF RefreshExpires, Logout, Ends, browserVars
<1>4. CASE \/ \E k \in Link : RequestReset(k) \/ LinkExpires(k)
           \/ \E s \in Setter, k \in Link : FindLink(s, k)
           \/ \E s \in Setter : SetterDies(s)
  BY <1>4 DEF RequestReset, LinkExpires, FindLink, SetterDies, Quiet, browserVars
<1> QED
  BY <1>1, <1>2, <1>3, <1>4 DEF Next, ResetNext

(* Rows are never deleted, and a token that is over never lives again.     *)
LEMMA RowsGrow ==
  ASSUME SessionsTypeOK, Carrying, [Next]_vars, NEW t \in Token
  PROVE  /\ row[t] # "none" => row'[t] # "none"
         /\ row[t] = "over" => row'[t] = "over"
<1>1. CASE Quiet \/ \E u \in Token : Ends(u)
  BY <1>1 DEF Quiet, Ends, SessionsTypeOK
<1>2. ASSUME NEW l \in SignIn, LoginNext(l)
      PROVE  /\ row[t] # "none" => row'[t] # "none"
             /\ row[t] = "over" => row'[t] = "over"
  <2>1. ASSUME NEW f \in Family, LoginIssue(l, f)
        PROVE  row' = [row EXCEPT ![<<f, now>>] = "live"] /\ row[<<f, now>>] = "none"
    BY <2>1, TokensAreTokens DEF LoginIssue, Unused, SessionsTypeOK
  <2> QED
    BY <1>2, <2>1 DEF LoginNext, LoginVerify, LoginStores, LoginDies, serverVars,
                      SessionsTypeOK
<1>3. ASSUME NEW q \in Query, QueryNext(q)
      PROVE  /\ row[t] # "none" => row'[t] # "none"
             /\ row[t] = "over" => row'[t] = "over"
  BY <1>3 DEF QueryNext, Ask, SendRefresh, FindToken, RevokeToken, IssueToken,
              RefreshCut, StoreTokens, PageFails, ShellClears, ShellLeaves,
              serverVars, SessionsTypeOK
<1>4. ASSUME NEW s \in Setter, SetPassword(s)
      PROVE  /\ row[t] # "none" => row'[t] # "none"
             /\ row[t] = "over" => row'[t] = "over"
  BY <1>4 DEF SetPassword
<1> QED
  BY Steps, <1>1, <1>2, <1>3, <1>4

-----------------------------------------------------------------------------
(* Whatever token is in anybody's hands has been issued.                   *)
Known ==
  /\ \A q \in Query : query[q].tok # NoToken => row[query[q].tok] # "none"
  /\ \A l \in SignIn : signin[l].tok # NoToken => row[signin[l].tok] # "none"
  /\ \A l \in SignIn : signin[l].at = "got" => signin[l].tok \in Token
  /\ store.refresh # NoToken => row[store.refresh] # "none"

LEMMA KnownInit == Init => Carrying /\ Known
  BY DEF Init, Carrying, Known, Idle, NoSignIn, Empty

LEMMA KnownStep ==
  ASSUME SessionsTypeOK, Carrying, Known, [Next]_vars
  PROVE  Carrying' /\ Known'
<1>a. /\ \A q \in Query : query[q] \in Queries
      /\ \A l \in SignIn : signin[l] \in SignIns
      /\ store \in Stores
  BY DEF SessionsTypeOK
<1>b. \A t \in Token : row[t] # "none" => row'[t] # "none"
  BY RowsGrow
<1>1. CASE Quiet
  BY <1>1 DEF Quiet, Carrying, Known
<1>2. ASSUME NEW t \in Token, Ends(t)
      PROVE  Carrying' /\ Known'
  BY <1>2, <1>a, <1>b DEF Ends, Carrying, Known, Queries, SignIns, Stores
<1>3. ASSUME NEW l \in SignIn, LoginNext(l)
      PROVE  Carrying' /\ Known'
  <2>1. ASSUME NEW f \in Family, LoginIssue(l, f)
        PROVE  Carrying' /\ Known'
    <3>1. <<f, now>> \in Token /\ row'[<<f, now>>] = "live"
      BY <2>1, TokensAreTokens DEF LoginIssue, SessionsTypeOK
    <3>2. \A k \in SignIn : signin'[k].tok \in {signin[k].tok, <<f, now>>}
                            /\ (signin'[k].at = "got" => signin'[k].tok \in Token)
      BY <2>1, <3>1, <1>a DEF LoginIssue, SessionsTypeOK, SignIns, Known
    <3> QED
      BY <2>1, <3>1, <3>2, <1>a, <1>b DEF LoginIssue, Carrying, Known, Queries,
                                          SignIns, Stores, browserVars
  <2>2. CASE LoginVerify(l) \/ LoginDies(l)
    <3>1. \A k \in SignIn : signin'[k].tok \in {signin[k].tok, NoToken}
                            /\ (signin'[k].at = "got" => signin'[k].tok \in Token)
      <4>1. CASE LoginDies(l)
        BY <4>1, <1>a DEF LoginDies, NoSignIn, SessionsTypeOK, SignIns, Known
      <4>2. CASE LoginVerify(l)
        BY <4>2, <1>a DEF LoginVerify, SessionsTypeOK, SignIns, Known
      <4> QED
        BY <2>2, <4>1, <4>2
    <3> QED
      BY <2>2, <3>1 DEF LoginVerify, LoginDies, Carrying, Known, serverVars,
                        browserVars
  <2>3. CASE LoginStores(l)
    <3>1. \A k \in SignIn : signin'[k].tok \in {signin[k].tok, NoToken}
                            /\ (signin'[k].at = "got" => signin'[k].tok \in Token)
      BY <2>3, <1>a DEF LoginStores, NoSignIn, SessionsTypeOK, SignIns, Known
    <3>2. store'.refresh = signin[l].tok
      BY <2>3 DEF LoginStores
    <3> QED
      BY <2>3, <3>1, <3>2 DEF LoginStores, Carrying, Known, serverVars
  <2> QED
    BY <1>3, <2>1, <2>2, <2>3 DEF LoginNext
<1>4. ASSUME NEW q \in Query, QueryNext(q)
      PROVE  Carrying' /\ Known'
  <2>0. signin' = signin
    BY <1>4 DEF QueryNext, Ask, SendRefresh, FindToken, RevokeToken, IssueToken,
              RefreshCut, StoreTokens, PageFails, ShellClears, ShellLeaves
  <2>1. /\ \A p \in Query : p # q => query'[p] = query[p]
        /\ query'[q].tok \in {query[q].tok, NoToken, store.refresh}
             \/ (query'[q].tok \in Token /\ row'[query'[q].tok] = "live")
        /\ query'[q].at \in {"sent", "found", "revoked", "got"}
             => query'[q].tok \in Token
    <3>1. CASE IssueToken(q)
      <4>1. <<FamilyOf(query[q].tok), now>> \in Token
        BY <3>1, TokensAreTokens DEF IssueToken, Carrying, SessionsTypeOK
      <4> QED
        BY <3>1, <4>1, <1>a DEF IssueToken, SessionsTypeOK, Queries, Carrying
    <3>2. CASE Ask(q) \/ SendRefresh(q) \/ FindToken(q) \/ RevokeToken(q)
      BY <3>2, <1>a DEF Ask, SendRefresh, FindToken, RevokeToken, SessionsTypeOK,
                  Queries, Carrying, Stores
    <3>3. CASE RefreshCut(q) \/ StoreTokens(q) \/ PageFails(q) \/ ShellClears(q)
                 \/ ShellLeaves(q)
      BY <3>3, <1>a DEF RefreshCut, StoreTokens, PageFails, ShellClears,
                  ShellLeaves, SessionsTypeOK, Queries, Idle
    <3> QED
      BY <1>4, <3>1, <3>2, <3>3 DEF QueryNext
  <2>2. store'.refresh \in {store.refresh, NoToken, query[q].tok}
    BY <1>4 DEF QueryNext, Ask, SendRefresh, FindToken, RevokeToken, IssueToken,
                RefreshCut, StoreTokens, PageFails, ShellClears, ShellLeaves,
                browserVars, Empty
  <2>3. Carrying'
    BY <2>1 DEF Carrying
  <2> QED
    BY <2>0, <2>1, <2>2, <2>3, <1>a, <1>b DEF Known, Queries, SignIns, Stores
<1>5. ASSUME NEW s \in Setter, SetPassword(s)
      PROVE  Carrying' /\ Known'
  <2>1. \A l \in SignIn : signin'[l].tok = signin[l].tok /\ signin'[l].at = signin[l].at
    BY <1>5, <1>a DEF SetPassword, SignIns
  <2> QED
    BY <1>5, <2>1, <1>a, <1>b DEF SetPassword, Carrying, Known, Queries, SignIns,
                                  Stores, browserVars
<1> QED
  BY Steps, <1>1, <1>2, <1>3, <1>4, <1>5

Inv == SessionsTypeOK /\ Carrying /\ Known

LEMMA InvInit == Init => Inv
  BY TypeInit, KnownInit DEF Inv

LEMMA InvStep == Inv /\ [Next]_vars => Inv'
  BY TypeStep, KnownStep DEF Inv

LEMMA InvHolds == Spec => []Inv
<1> QED
  BY InvInit, InvStep, PTL DEF Spec

(* Every variable keeps its type, whatever the requests and the pages do:  *)
(* no refresh writes a row for something that is not a token.              *)
THEOREM SessionsTypeCorrect == Spec => []SessionsTypeOK
<1>1. Inv => SessionsTypeOK
  BY DEF Inv
<1> QED
  BY <1>1, InvHolds, PTL

-----------------------------------------------------------------------------
(* The steps of a call that touch no row and let nothing past its check.   *)
Apart(q) ==
  /\ UNCHANGED <<row, forked, password, born, spared, signin>>
  /\ \A p \in Query : Holding(p)' => query'[p] = query[p]

LEMMA CallSteps ==
  ASSUME SessionsTypeOK, NEW q \in Query, QueryNext(q)
  PROVE  Apart(q) \/ FindToken(q) \/ RevokeToken(q) \/ IssueToken(q)
<1>1. CASE Ask(q) \/ SendRefresh(q) \/ RefreshCut(q) \/ StoreTokens(q)
             \/ PageFails(q) \/ ShellClears(q) \/ ShellLeaves(q)
  <2>1. UNCHANGED <<row, forked, password, born, spared, signin>>
    BY <1>1 DEF Ask, SendRefresh, RefreshCut, StoreTokens, PageFails,
                ShellClears, ShellLeaves, serverVars
  <2>2. ASSUME NEW p \in Query, Holding(p)' PROVE query'[p] = query[p]
    <3>1. query[q] \in Queries /\ query \in [Query -> Queries]
      BY DEF SessionsTypeOK
    <3>2. CASE Ask(q) \/ SendRefresh(q)
      BY <2>2, <3>1, <3>2 DEF Ask, SendRefresh, Holding, Queries
    <3>3. CASE RefreshCut(q) \/ ShellClears(q)
      BY <2>2, <3>1, <3>3 DEF RefreshCut, ShellClears, Holding, Queries
    <3>4. CASE StoreTokens(q) \/ PageFails(q) \/ ShellLeaves(q)
      BY <2>2, <3>1, <3>4 DEF StoreTokens, PageFails, ShellLeaves, Holding, Idle
    <3> QED
      BY <1>1, <3>2, <3>3, <3>4
  <2> QED
    BY <2>1, <2>2 DEF Apart
<1> QED
  BY <1>1 DEF QueryNext

(* No refresh that passed its check is of a family that is not used.       *)
LEMMA HoldersAreUsed ==
  ASSUME Inv, NEW f \in Family, Unused(f), NEW q \in Query, Holding(q)
  PROVE  FamilyOf(query[q].tok) # f
<1>1. query[q].tok \in Token
  BY DEF Inv, Carrying, Holding
<1>2. query[q].tok # NoToken
  BY <1>1, NoTokenAssumption
<1>3. row[query[q].tok] # "none"
  BY <1>2 DEF Inv, Known
<1> QED
  BY <1>1, <1>3 DEF Unused

-----------------------------------------------------------------------------
(* Why rotation leaves one live token: in a family that was not forked one *)
(* refresh at a time is past its check, and it is the live token, the only *)
(* one, that it found; once it has revoked it there is none.               *)
OneOf(f) ==
  \A t, u \in Token : (FamilyOf(t) = f /\ FamilyOf(u) = f /\ Live(t) /\ Live(u))
                        => t = u

OneHolder(f) ==
  \A p, q \in Query : /\ Holding(p) /\ FamilyOf(query[p].tok) = f
                      /\ Holding(q) /\ FamilyOf(query[q].tok) = f
                      => p = q

HolderHasIt(f) ==
  \A q \in Query, t \in Token :
     (Holding(q) /\ FamilyOf(query[q].tok) = f /\ FamilyOf(t) = f /\ Live(t))
       => query[q].at = "found" /\ query[q].tok = t

Rotation == \A f \in Family \ forked : OneOf(f) /\ OneHolder(f) /\ HolderHasIt(f)

(* A step after which no more tokens live and no more refreshes are past   *)
(* their check.                                                            *)
LEMMA RotationShrinks ==
  ASSUME Rotation, forked \subseteq forked',
         \A t \in Token : row'[t] = "live" => Live(t),
         \A q \in Query : Holding(q)' => query'[q] = query[q]
  PROVE  Rotation'
<1> SUFFICES ASSUME NEW f \in Family \ forked'
             PROVE  (OneOf(f) /\ OneHolder(f) /\ HolderHasIt(f))'
  BY DEF Rotation
<1>1. OneOf(f) /\ OneHolder(f) /\ HolderHasIt(f)
  BY DEF Rotation
<1>2. OneOf(f)'
  BY <1>1 DEF OneOf, Live
<1>3. \A q \in Query : Holding(q)' => Holding(q)
  BY DEF Holding
<1>4. OneHolder(f)'
  BY <1>1, <1>3 DEF OneHolder
<1>5. HolderHasIt(f)'
  BY <1>1, <1>3 DEF HolderHasIt, Live
<1> QED
  BY <1>2, <1>4, <1>5

LEMMA RotationLogin ==
  ASSUME Inv, Rotation, NEW l \in SignIn, LoginNext(l)
  PROVE  Rotation'
<1>0. query' = query /\ forked' = forked
  BY DEF LoginNext, LoginVerify, LoginIssue, LoginStores, LoginDies
<1>1. CASE LoginVerify(l) \/ LoginStores(l) \/ LoginDies(l)
  <2>1. row' = row
    BY <1>1 DEF LoginVerify, LoginStores, LoginDies, serverVars
  <2> QED
    BY <1>0, <2>1, RotationShrinks DEF Live
<1>2. ASSUME NEW g \in Family, LoginIssue(l, g)
      PROVE  Rotation'
  <2>1. /\ <<g, now>> \in Token
        /\ FamilyOf(<<g, now>>) = g
        /\ Unused(g)
        /\ row' = [row EXCEPT ![<<g, now>>] = "live"]
    BY <1>2, TokensAreTokens DEF LoginIssue, Inv, SessionsTypeOK
  <2>2. SUFFICES ASSUME NEW f \in Family \ forked
                 PROVE  (OneOf(f) /\ OneHolder(f) /\ HolderHasIt(f))'
    BY <1>0 DEF Rotation
  <2>3. OneOf(f) /\ OneHolder(f) /\ HolderHasIt(f)
    BY DEF Rotation
  <2>4. \A q \in Query : Holding(q)' <=> Holding(q)
    BY <1>0 DEF Holding
  <2>5. OneHolder(f)'
    BY <1>0, <2>3, <2>4 DEF OneHolder
  <2>6. CASE f = g
    <3>1. \A t \in Token : FamilyOf(t) = f /\ Live(t)' => t = <<g, now>>
      BY <2>1, <2>6 DEF Live, Unused, Inv, SessionsTypeOK
    <3>2. \A q \in Query : Holding(q) => FamilyOf(query[q].tok) # f
      BY <2>1, <2>6, HoldersAreUsed
    <3> QED
      BY <1>0, <2>4, <2>5, <3>1, <3>2 DEF OneOf, HolderHasIt
  <2>7. CASE f # g
    <3>1. \A t \in Token : FamilyOf(t) = f => (Live(t)' <=> Live(t))
      BY <2>1, <2>7 DEF Live, Inv, SessionsTypeOK
    <3> QED
      BY <1>0, <2>3, <2>4, <2>5, <3>1 DEF OneOf, HolderHasIt
  <2> QED
    BY <2>6, <2>7
<1> QED
  BY <1>1, <1>2 DEF LoginNext

LEMMA RotationFinds ==
  ASSUME Inv, Rotation, NEW q \in Query, FindToken(q)
  PROVE  Rotation'
<1> DEFINE t == query[q].tok
<1>0. /\ query \in [Query -> Queries] /\ t \in Token
      /\ row' = row
      /\ query[q].at = "sent"
  BY DEF FindToken, Inv, SessionsTypeOK, Carrying, serverVars
<1>1. CASE ~ Live(t)
  <2>1. forked' = forked
    BY <1>1 DEF FindToken
  <2>2. \A p \in Query : Holding(p)' => query'[p] = query[p]
    BY <1>0, <1>1 DEF FindToken, Holding, Queries
  <2> QED
    BY <1>0, <2>1, <2>2, RotationShrinks DEF Live
<1>2. CASE Live(t)
  <2>1. SUFFICES ASSUME NEW f \in Family \ forked'
                 PROVE  (OneOf(f) /\ OneHolder(f) /\ HolderHasIt(f))'
    BY DEF Rotation
  <2>2. forked \subseteq forked'
    BY DEF FindToken
  <2>3. OneOf(f) /\ OneHolder(f) /\ HolderHasIt(f)
    BY <2>2 DEF Rotation
  <2>4. \A u \in Token : Live(u)' <=> Live(u)
    BY <1>0 DEF Live
  <2>5. /\ query'[q].at = "found" /\ query'[q].tok = t
        /\ \A p \in Query : p # q => query'[p] = query[p]
    BY <1>0, <1>2 DEF FindToken, Queries
  <2>6. /\ \A p \in Query : query'[p].tok = query[p].tok
        /\ \A p \in Query : p # q => (Holding(p)' <=> Holding(p))
    BY <2>5 DEF Holding
  <2>7. OneOf(f)'
    BY <2>3, <2>4 DEF OneOf
  <2>8. FamilyOf(t) = f
           => \A p \in Query : Holding(p) => FamilyOf(query[p].tok) # f
    <3>1. SUFFICES ASSUME FamilyOf(t) = f, NEW p \in Query, Holding(p),
                          FamilyOf(query[p].tok) = f
                   PROVE  FALSE
      OBVIOUS
    <3>2. query[p].tok = t
      BY <1>0, <1>2, <2>3, <3>1 DEF HolderHasIt
    <3>3. f \in forked'
      BY <1>2, <3>1, <3>2 DEF FindToken
    <3> QED
      BY <3>3
  <2>9. OneHolder(f)'
    BY <2>3, <2>6, <2>8 DEF OneHolder
  <2>10. HolderHasIt(f)'
    <3>1. SUFFICES ASSUME NEW p \in Query, NEW u \in Token, Holding(p)',
                          FamilyOf(query[p].tok) = f, FamilyOf(u) = f, Live(u)
                   PROVE  query'[p].at = "found" /\ query[p].tok = u
      BY <2>4, <2>6 DEF HolderHasIt
    <3>2. CASE p = q
      BY <1>0, <1>2, <2>3, <2>5, <3>1, <3>2 DEF OneOf
    <3>3. CASE p # q
      BY <2>3, <2>5, <2>6, <3>1, <3>3 DEF HolderHasIt
    <3> QED
      BY <3>2, <3>3
  <2> QED
    BY <2>7, <2>9, <2>10
<1> QED
  BY <1>1, <1>2

LEMMA RotationRevokes ==
  ASSUME Inv, Rotation, NEW q \in Query, RevokeToken(q)
  PROVE  Rotation'
<1> DEFINE t == query[q].tok
<1>0. /\ query \in [Query -> Queries] /\ t \in Token
      /\ query[q].at = "found" /\ Holding(q)
      /\ forked' = forked
      /\ row' = [row EXCEPT ![t] = "over"] /\ row \in [Token -> {"none", "live", "over"}]
  BY DEF RevokeToken, Inv, SessionsTypeOK, Carrying, Holding
<1>1. SUFFICES ASSUME NEW f \in Family \ forked
               PROVE  (OneOf(f) /\ OneHolder(f) /\ HolderHasIt(f))'
  BY <1>0 DEF Rotation
<1>2. OneOf(f) /\ OneHolder(f) /\ HolderHasIt(f)
  BY DEF Rotation
<1>3. /\ \A u \in Token : Live(u)' => Live(u) /\ u # t
      /\ \A p \in Query : query'[p].tok = query[p].tok /\ (Holding(p)' <=> Holding(p))
      /\ \A p \in Query : p # q => query'[p] = query[p]
  BY <1>0 DEF Live, RevokeToken, Holding, Queries
<1>4. OneOf(f)' /\ OneHolder(f)'
  BY <1>2, <1>3 DEF OneOf, OneHolder
<1>5. HolderHasIt(f)'
  <2>1. SUFFICES ASSUME NEW p \in Query, NEW u \in Token, Holding(p),
                        FamilyOf(query[p].tok) = f, FamilyOf(u) = f, Live(u), u # t
                 PROVE  query'[p].at = "found" /\ query'[p].tok = u
    BY <1>3 DEF HolderHasIt
  <2>2. query[p].at = "found" /\ query[p].tok = u
    BY <1>2, <2>1 DEF HolderHasIt
  <2> QED
    BY <1>3, <2>1, <2>2
<1> QED
  BY <1>4, <1>5

LEMMA RotationIssues ==
  ASSUME Inv, Rotation, NEW q \in Query, IssueToken(q)
  PROVE  Rotation'
<1> DEFINE g == FamilyOf(query[q].tok)
           t == <<g, now>>
<1>0. /\ query \in [Query -> Queries] /\ query[q].tok \in Token
      /\ query[q].at = "revoked" /\ Holding(q)
      /\ forked' = forked
      /\ t \in Token /\ FamilyOf(t) = g
      /\ row \in [Token -> {"none", "live", "over"}]
  BY TokensAreTokens DEF IssueToken, Inv, SessionsTypeOK, Carrying, Holding
<1>1. \A p \in Query : Holding(p)' => query'[p] = query[p] /\ p # q
  BY <1>0 DEF IssueToken, Holding, Queries
<1>2. CASE row[t] # "none"
  BY <1>0, <1>1, <1>2, RotationShrinks DEF IssueToken, Live
<1>3. CASE row[t] = "none"
  <2>1. SUFFICES ASSUME NEW f \in Family \ forked
                 PROVE  (OneOf(f) /\ OneHolder(f) /\ HolderHasIt(f))'
    BY <1>0 DEF Rotation
  <2>2. OneOf(f) /\ OneHolder(f) /\ HolderHasIt(f)
    BY DEF Rotation
  <2>3. \A u \in Token : Live(u)' => Live(u) \/ u = t
    BY <1>0, <1>3 DEF IssueToken, Live
  <2>4. \A p \in Query : Holding(p)' => Holding(p)
    BY <1>1 DEF Holding
  <2>5. OneHolder(f)'
    BY <1>1, <2>2, <2>4 DEF OneHolder
  <2>6. CASE f # g
    BY <1>0, <1>1, <2>2, <2>3, <2>4, <2>5, <2>6 DEF OneOf, HolderHasIt
  <2>7. CASE f = g
    <3>1. \A u \in Token : FamilyOf(u) = f => ~ Live(u)
      BY <1>0, <2>2, <2>7 DEF HolderHasIt
    <3>2. \A p \in Query : Holding(p)' => FamilyOf(query'[p].tok) # f
      BY <1>0, <1>1, <2>2, <2>4, <2>7 DEF OneHolder
    <3> QED
      BY <2>3, <2>5, <3>1, <3>2 DEF OneOf, HolderHasIt
  <2> QED
    BY <2>6, <2>7
<1> QED
  BY <1>2, <1>3

LEMMA RotationStep == Inv /\ Rotation /\ [Next]_vars => Rotation'
<1> SUFFICES ASSUME Inv, Rotation, [Next]_vars PROVE Rotation'
  OBVIOUS
<1>0. SessionsTypeOK
  BY DEF Inv
<1>1. CASE Quiet
  BY <1>1, RotationShrinks DEF Quiet, Live
<1>2. ASSUME NEW t \in Token, Ends(t)
      PROVE  Rotation'
  <2>1. \A u \in Token : row'[u] = "live" => Live(u)
    BY <1>0, <1>2 DEF Ends, Live, SessionsTypeOK
  <2> QED
    BY <1>2, <2>1, RotationShrinks DEF Ends
<1>3. ASSUME NEW q \in Query, Apart(q)
      PROVE  Rotation'
  BY <1>3, RotationShrinks DEF Apart, Live
<1>4. ASSUME NEW s \in Setter, SetPassword(s)
      PROVE  Rotation'
  <2>1. \A u \in Token : row'[u] # "live"
    BY <1>4 DEF SetPassword
  <2> QED
    BY <1>4, <2>1, RotationShrinks DEF SetPassword
<1> QED
  BY <1>0, <1>1, <1>2, <1>3, <1>4, Steps, CallSteps, RotationLogin,
     RotationFinds, RotationRevokes, RotationIssues

(* However many pages, tabs and logins there are, and however they         *)
(* interleave with logouts, resets, lost answers and crashes: rotation     *)
(* leaves a family one live token at most, unless two refreshes found one  *)
(* token valid at the same time.                                           *)
THEOREM OneLiveToken == Spec => []OneLiveUnlessForked
<1>1. Init => Rotation
  <2>1. Init => (\A t \in Token : ~ Live(t)) /\ (\A q \in Query : ~ Holding(q))
    BY DEF Init, Live, Holding, Idle
  <2> QED
    BY <2>1 DEF Rotation, OneOf, OneHolder, HolderHasIt
<1>2. Rotation => OneLiveUnlessForked
  BY DEF Rotation, OneOf, OneLiveUnlessForked
<1> QED
  BY <1>1, <1>2, InvHolds, RotationStep, PTL DEF Spec

-----------------------------------------------------------------------------
(* Why a reset ends sessions: besides the live tokens, a refresh past its  *)
(* check and a login past its are accounted for.                           *)
Accounted(f) == born[f] = password \/ f \in spared

Resets ==
  /\ \A t \in Token : Live(t) => Accounted(FamilyOf(t))
  /\ \A q \in Query : Holding(q) => Accounted(FamilyOf(query[q].tok))
  /\ \A l \in SignIn : signin[l].at = "verified"
                         => signin[l].with = password \/ signin[l].late

LEMMA ResetsKept ==
  ASSUME Resets, UNCHANGED <<born, password, spared, signin>>,
         \A t \in Token : row'[t] = "live" => Live(t),
         \A q \in Query : Holding(q)' => query'[q] = query[q]
  PROVE  Resets'
<1>1. \A q \in Query : Holding(q)' => Holding(q)
  BY DEF Holding
<1> QED
  BY <1>1 DEF Resets, Live, Accounted

LEMMA ResetsLogin ==
  ASSUME Inv, Resets, NEW l \in SignIn, LoginNext(l)
  PROVE  Resets'
<1>0. /\ query' = query /\ password' = password
      /\ signin \in [SignIn -> SignIns]
      /\ \A q \in Query : Holding(q)' <=> Holding(q)
  BY DEF LoginNext, LoginVerify, LoginIssue, LoginStores, LoginDies, serverVars,
         Inv, SessionsTypeOK, Holding
<1>1. CASE LoginVerify(l) \/ LoginStores(l) \/ LoginDies(l)
  <2>1. /\ UNCHANGED <<row, born, spared>>
        /\ \A k \in SignIn : k # l => signin'[k] = signin[k]
    BY <1>0, <1>1 DEF LoginVerify, LoginStores, LoginDies, serverVars
  <2>2. signin'[l].at = "verified" => signin'[l].with = password
    <3>1. CASE LoginVerify(l)
      BY <1>0, <3>1 DEF LoginVerify
    <3>2. CASE LoginStores(l) \/ LoginDies(l)
      <4>1. signin' = [signin EXCEPT ![l] = NoSignIn]
        BY <3>2 DEF LoginStores, LoginDies
      <4> QED
        BY <1>0, <4>1 DEF NoSignIn
    <3> QED
      BY <1>1, <3>1, <3>2
  <2>3. \A f \in Family : Accounted(f) => Accounted(f)'
    BY <1>0, <2>1 DEF Accounted
  <2>4. \A q \in Query : Holding(q) => FamilyOf(query[q].tok) \in Family
    BY TokensAreTokens DEF Inv, Carrying, Holding
  <2> QED
    BY <1>0, <2>1, <2>2, <2>3, <2>4, TokensAreTokens DEF Resets, Live
<1>2. ASSUME NEW f \in Family, LoginIssue(l, f)
      PROVE  Resets'
  <2>1. /\ <<f, now>> \in Token
        /\ FamilyOf(<<f, now>>) = f
        /\ Unused(f)
        /\ row' = [row EXCEPT ![<<f, now>>] = "live"]
    BY <1>2, TokensAreTokens DEF LoginIssue, Inv, SessionsTypeOK
  <2>2. \A g \in Family : g # f /\ Accounted(g) => Accounted(g)'
    BY <1>0, <1>2 DEF LoginIssue, Accounted, Inv, SessionsTypeOK
  <2>3. Accounted(f)'
    BY <1>0, <1>2 DEF LoginIssue, Accounted, Resets, Inv, SessionsTypeOK
  <2>4. \A t \in Token : Live(t)' => Accounted(FamilyOf(t))'
    BY <2>1, <2>2, <2>3, TokensAreTokens DEF Live, Resets, Inv, SessionsTypeOK
  <2>5. \A q \in Query : Holding(q) => /\ FamilyOf(query[q].tok) # f
                                       /\ FamilyOf(query[q].tok) \in Family
    BY <2>1, HoldersAreUsed, TokensAreTokens DEF Inv, Carrying, Holding
  <2>6. \A k \in SignIn : signin'[k].at = "verified" => signin'[k] = signin[k]
    BY <1>0, <1>2 DEF LoginIssue, SignIns
  <2> QED
    BY <1>0, <2>2, <2>4, <2>5, <2>6 DEF Resets
<1> QED
  BY <1>1, <1>2 DEF LoginNext

LEMMA ResetsCall ==
  ASSUME Inv, Resets, NEW q \in Query,
         FindToken(q) \/ RevokeToken(q) \/ IssueToken(q)
  PROVE  Resets'
<1>0. /\ UNCHANGED <<born, password, spared, signin>>
      /\ \A f : Accounted(f) => Accounted(f)'
      /\ query \in [Query -> Queries] /\ query[q] \in Queries
      /\ row \in [Token -> {"none", "live", "over"}]
      /\ query[q].tok \in Token
  BY DEF FindToken, RevokeToken, IssueToken, serverVars, Inv, SessionsTypeOK,
         Accounted, Carrying
<1>1. CASE FindToken(q)
  <2>1. row' = row
    BY <1>1 DEF FindToken, serverVars
  <2>2. \A p \in Query : Holding(p)'
          => /\ query'[p].tok = query[p].tok
             /\ Holding(p) \/ Live(query[p].tok)
    BY <1>0, <1>1 DEF FindToken, Holding, Queries
  <2>3. \A p \in Query : Holding(p)' => Accounted(FamilyOf(query'[p].tok))
    BY <1>0, <1>1, <2>2 DEF Resets, FindToken, Holding, Queries
  <2> QED
    BY <1>0, <2>1, <2>3 DEF Resets, Live
<1>2. CASE RevokeToken(q)
  <2>1. /\ \A t \in Token : Live(t)' => Live(t)
        /\ \A p \in Query : query'[p].tok = query[p].tok
                            /\ (Holding(p)' <=> Holding(p))
    BY <1>0, <1>2 DEF RevokeToken, Live, Holding, Queries
  <2> QED
    BY <1>0, <2>1 DEF Resets
<1>3. CASE IssueToken(q)
  <2>1. /\ \A t \in Token : Live(t)' => Live(t) \/ FamilyOf(t) = FamilyOf(query[q].tok)
        /\ \A p \in Query : Holding(p)' => query'[p] = query[p]
        /\ Holding(q)
    BY <1>0, <1>3, TokensAreTokens DEF IssueToken, Live, Holding, Queries,
       Inv, SessionsTypeOK
  <2>2. \A p \in Query : Holding(p)' => Holding(p)
    BY <2>1 DEF Holding
  <2> QED
    BY <1>0, <2>1, <2>2 DEF Resets
<1> QED
  BY <1>1, <1>2, <1>3

LEMMA ResetsSet ==
  ASSUME Inv, Resets, NEW s \in Setter, SetPassword(s)
  PROVE  Resets'
<1>0. \A l \in SignIn : signin[l] \in SignIns
  BY DEF Inv, SessionsTypeOK
<1>1. \A t \in Token : ~ Live(t)'
  BY DEF SetPassword, Live
<1>2. \A q \in Query : Holding(q)' => Accounted(FamilyOf(query[q].tok))'
  <2>1. query' = query
    BY DEF SetPassword
  <2>2. ASSUME NEW q \in Query, Holding(q)'
        PROVE  FamilyOf(query[q].tok) \in spared'
    <3>1. Holding(q)
      BY <2>1, <2>2 DEF Holding
    <3> QED
      BY <3>1 DEF SetPassword
  <2> QED
    BY <2>1, <2>2 DEF Accounted
<1>3. \A l \in SignIn : signin'[l].at = "verified" => signin'[l].late
  BY <1>0 DEF SetPassword, SignIns
<1> QED
  BY <1>1, <1>2, <1>3 DEF Resets

LEMMA ResetsStep == Inv /\ Resets /\ [Next]_vars => Resets'
<1> SUFFICES ASSUME Inv, Resets, [Next]_vars PROVE Resets'
  OBVIOUS
<1>0. SessionsTypeOK
  BY DEF Inv
<1>1. CASE Quiet
  BY <1>1, ResetsKept DEF Quiet, Live
<1>2. ASSUME NEW t \in Token, Ends(t)
      PROVE  Resets'
  <2>1. \A u \in Token : row'[u] = "live" => Live(u)
    BY <1>0, <1>2 DEF Ends, Live, SessionsTypeOK
  <2> QED
    BY <1>2, <2>1, ResetsKept DEF Ends
<1>3. ASSUME NEW q \in Query, Apart(q)
      PROVE  Resets'
  BY <1>3, ResetsKept DEF Apart, Live
<1> QED
  BY <1>0, <1>1, <1>2, <1>3, Steps, CallSteps, ResetsLogin, ResetsCall, ResetsSet

(* After a password reset no session goes on that was begun with the old   *)
(* password, except for logins and refreshes that had passed their check   *)
(* when the reset was made.                                                *)
THEOREM ResetEnds == Spec => []ResetEndsSessions
<1>1. Init => Resets
  BY DEF Init, Resets, Live, Holding, Idle, NoSignIn
<1>2. Resets => ResetEndsSessions
  BY DEF Resets, Accounted, ResetEndsSessions
<1> QED
  BY <1>1, <1>2, InvHolds, ResetsStep, PTL DEF Spec

-----------------------------------------------------------------------------
(* A family whose tokens are over and which no refresh holds gets no token: *)
(* only a login issues one without holding one, and its family is new.     *)
LEMMA OverStays ==
  ASSUME Inv, [Next]_vars, NEW f \in Family, Over(f)
  PROVE  Over(f)'
<1>0. SessionsTypeOK /\ Carrying
  BY DEF Inv
<1>1. ~ Unused(f)'
  BY <1>0, RowsGrow DEF Over, Unused
<1> SUFFICES /\ \A t \in Token : FamilyOf(t) = f => ~ Live(t)'
             /\ \A q \in Query : Holding(q)' => FamilyOf(query'[q].tok) # f
  BY <1>1 DEF Over
<1> DEFINE Shrinks == /\ \A t \in Token : row'[t] = "live" => Live(t)
                      /\ \A q \in Query : Holding(q)' => query'[q] = query[q]
<1>2. CASE Shrinks
  <2>1. \A q \in Query : Holding(q)' => Holding(q)
    BY <1>2 DEF Holding
  <2> QED
    BY <1>2, <2>1 DEF Over, Live
<1>3. CASE Quiet
  BY <1>2, <1>3 DEF Quiet, Live
<1>4. ASSUME NEW t \in Token, Ends(t)
      PROVE  Shrinks
  BY <1>0, <1>4 DEF Ends, Live, SessionsTypeOK
<1>5. ASSUME NEW s \in Setter, SetPassword(s)
      PROVE  Shrinks
  BY <1>5 DEF SetPassword
<1>6. ASSUME NEW q \in Query, Apart(q)
      PROVE  Shrinks
  BY <1>6 DEF Apart, Live
<1>7. ASSUME NEW l \in SignIn, LoginNext(l)
      PROVE  /\ \A t \in Token : FamilyOf(t) = f => ~ Live(t)'
             /\ \A q \in Query : Holding(q)' => FamilyOf(query'[q].tok) # f
  <2>1. query' = query /\ \A q \in Query : Holding(q)' <=> Holding(q)
    BY <1>7 DEF LoginNext, LoginVerify, LoginIssue, LoginStores, LoginDies, Holding
  <2>2. ASSUME NEW g \in Family, LoginIssue(l, g)
        PROVE  \A t \in Token : FamilyOf(t) = f => ~ Live(t)'
    <3>1. g # f
      BY <2>2 DEF LoginIssue, Over
    <3>2. FamilyOf(<<g, now>>) = g /\ <<g, now>> \in Token
      BY <1>0, TokensAreTokens DEF SessionsTypeOK
    <3> QED
      BY <1>0, <2>2, <3>1, <3>2 DEF LoginIssue, Over, Live, SessionsTypeOK
  <2>3. CASE LoginVerify(l) \/ LoginStores(l) \/ LoginDies(l)
    <3>1. row' = row
      BY <2>3 DEF LoginVerify, LoginStores, LoginDies, serverVars
    <3> QED
      BY <2>1, <3>1 DEF Over, Live
  <2> QED
    BY <1>7, <2>1, <2>2, <2>3 DEF LoginNext, Over
<1>8. ASSUME NEW q \in Query, FindToken(q) \/ RevokeToken(q) \/ IssueToken(q)
      PROVE  /\ \A t \in Token : FamilyOf(t) = f => ~ Live(t)'
             /\ \A p \in Query : Holding(p)' => FamilyOf(query'[p].tok) # f
  <2>0. /\ query \in [Query -> Queries] /\ query[q] \in Queries
        /\ query[q].tok \in Token
        /\ row \in [Token -> {"none", "live", "over"}]
    BY <1>0, <1>8 DEF SessionsTypeOK, Carrying, FindToken, RevokeToken, IssueToken
  <2>1. CASE FindToken(q)
    <3>1. row' = row
      BY <2>1 DEF FindToken, serverVars
    <3>2. \A p \in Query : p # q => query'[p] = query[p]
      BY <2>0, <2>1 DEF FindToken
    <3>3. query'[q].tok = query[q].tok /\ (Holding(q)' => Live(query[q].tok))
      BY <2>0, <2>1 DEF FindToken, Holding, Queries
    <3> QED
      BY <2>0, <3>1, <3>2, <3>3 DEF Over, Live, Holding
  <2>2. CASE RevokeToken(q)
    <3>1. /\ \A t \in Token : Live(t)' => Live(t)
          /\ \A p \in Query : query'[p].tok = query[p].tok
                              /\ (Holding(p)' <=> Holding(p))
      BY <2>0, <2>2 DEF RevokeToken, Live, Holding, Queries
    <3> QED
      BY <3>1 DEF Over
  <2>3. CASE IssueToken(q)
    <3>1. /\ Holding(q)
          /\ \A t \in Token : Live(t)' => Live(t) \/ FamilyOf(t) = FamilyOf(query[q].tok)
          /\ \A p \in Query : Holding(p)' => query'[p] = query[p]
      BY <1>0, <2>0, <2>3, TokensAreTokens DEF IssueToken, Live, Holding, Queries,
         SessionsTypeOK
    <3>2. \A p \in Query : Holding(p)' => Holding(p)
      BY <3>1 DEF Holding
    <3> QED
      BY <3>1, <3>2 DEF Over
  <2> QED
    BY <1>8, <2>1, <2>2, <2>3
<1> QED
  BY <1>0, <1>2, <1>3, <1>4, <1>5, <1>6, <1>7, <1>8, Steps, CallSteps

(* A session that is over is over for good, for any number of refreshes,   *)
(* logins and resets that are under way.                                   *)
THEOREM OverForGood == Spec => OverIsOver
<1>1. Inv /\ [Next]_vars => [\A f \in Family : Over(f) => Over(f)']_vars
  BY OverStays
<1> QED
  BY <1>1, InvHolds, PTL DEF Spec, OverIsOver

-----------------------------------------------------------------------------
(* Why a refused token is a dead one: a refresh ends refused because it    *)
(* found its token over, or had revoked it itself.                         *)
RefusedIsOver(q) ==
  /\ query[q].at = "revoked" => row[query[q].tok] = "over"
  /\ (query[q].at \in {"failed", "leaving"} /\ ~ query[q].cut
        /\ query[q].tok # NoToken) => row[query[q].tok] = "over"

Refusals == \A q \in Query : RefusedIsOver(q)

LEMMA RefusalsOthers ==
  ASSUME Inv, Refusals, [Next]_vars, NEW p \in Query, query'[p] = query[p]
  PROVE  RefusedIsOver(p)'
<1>1. query[p] \in Queries /\ \A t \in Token : row[t] = "over" => row'[t] = "over"
  BY RowsGrow DEF Inv, SessionsTypeOK
<1>2. query[p].at = "revoked" => query[p].tok \in Token
  BY DEF Inv, Carrying
<1> QED
  BY <1>1, <1>2 DEF Refusals, RefusedIsOver, Queries

LEMMA RefusalsCall ==
  ASSUME Inv, Refusals, NEW q \in Query, QueryNext(q)
  PROVE  RefusedIsOver(q)'
<1>0. /\ query \in [Query -> Queries] /\ query[q] \in Queries
      /\ row \in [Token -> {"none", "live", "over"}]
      /\ RefusedIsOver(q)
      /\ query[q].at \in {"sent", "found", "revoked", "got"} => query[q].tok \in Token
      /\ query[q].tok # NoToken => row[query[q].tok] # "none"
  BY DEF Inv, SessionsTypeOK, Carrying, Known, Refusals
<1>1. CASE Ask(q)
  BY <1>0, <1>1 DEF Ask, RefusedIsOver, Queries
<1>2. CASE SendRefresh(q)
  <2>1. query'[q] = [query[q] EXCEPT !.at = IF store.refresh = NoToken
                                            THEN "failed" ELSE "sent",
                                     !.tok = store.refresh]
    BY <1>0, <1>2 DEF SendRefresh
  <2>2. /\ query'[q].at = IF store.refresh = NoToken THEN "failed" ELSE "sent"
        /\ query'[q].tok = store.refresh
    BY <1>0, <2>1 DEF Queries
  <2> QED
    BY <2>2 DEF RefusedIsOver
<1>3. CASE FindToken(q)
  <2>1. /\ query'[q].at = IF Live(query[q].tok) THEN "found" ELSE "failed"
        /\ query'[q].tok = query[q].tok
        /\ row' = row
    BY <1>0, <1>3 DEF FindToken, Queries, serverVars
  <2>2. query[q].tok \in Token /\ query[q].tok # NoToken
    BY <1>0, <1>3, NoTokenAssumption DEF FindToken
  <2> QED
    BY <1>0, <2>1, <2>2 DEF RefusedIsOver, Live
<1>4. CASE RevokeToken(q)
  BY <1>0, <1>4 DEF RevokeToken, RefusedIsOver, Queries
<1>5. CASE IssueToken(q)
  BY <1>0, <1>5 DEF IssueToken, RefusedIsOver, Queries
<1>6. CASE RefreshCut(q)
  BY <1>0, <1>6 DEF RefreshCut, RefusedIsOver, Queries
<1>7. CASE StoreTokens(q) \/ PageFails(q) \/ ShellLeaves(q)
  BY <1>0, <1>7 DEF StoreTokens, PageFails, ShellLeaves, RefusedIsOver, Idle
<1>8. CASE ShellClears(q)
  BY <1>0, <1>8 DEF ShellClears, RefusedIsOver, Queries, serverVars
<1> QED
  BY <1>1, <1>2, <1>3, <1>4, <1>5, <1>6, <1>7, <1>8 DEF QueryNext

LEMMA RefusalsStep == Inv /\ Refusals /\ [Next]_vars => Refusals'
<1> SUFFICES ASSUME Inv, Refusals, [Next]_vars, NEW p \in Query
             PROVE  RefusedIsOver(p)'
  BY DEF Refusals
<1>0. SessionsTypeOK
  BY DEF Inv
<1>1. CASE query'[p] = query[p]
  BY <1>1, RefusalsOthers
<1>2. ASSUME NEW q \in Query, QueryNext(q)
      PROVE  q = p \/ query'[p] = query[p]
  <2>1. query \in [Query -> Queries]
    BY <1>0 DEF SessionsTypeOK
  <2> QED
    BY <1>2, <2>1 DEF QueryNext, Ask, SendRefresh, FindToken, RevokeToken,
       IssueToken, RefreshCut, StoreTokens, PageFails, ShellClears, ShellLeaves
<1>3. ASSUME NEW l \in SignIn, LoginNext(l)
      PROVE  query' = query
  BY <1>3 DEF LoginNext, LoginVerify, LoginIssue, LoginStores, LoginDies
<1> QED
  BY <1>0, <1>1, <1>2, <1>3, Steps, RefusalsCall DEF Quiet, Ends, SetPassword

(* The shell of the dashboard throws a good session away only if another   *)
(* page or tab has stored it since, or its own refresh was cut off before  *)
(* it had revoked it; for any number of pages and tabs.                    *)
THEOREM DroppedExplained == Spec => DroppedIsExplained
<1>1. Init => Refusals
  BY DEF Init, Refusals, RefusedIsOver, Idle
<1>2. Refusals /\ [Next]_vars
        => [\A q \in Shell :
              (/\ query[q].at \in {"failed", "leaving"}
               /\ query[q]' # query[q]
               /\ store.refresh # NoToken
               /\ Live(store.refresh))
                => query[q].tok # store.refresh \/ query[q].cut]_vars
  BY ShellAssumption DEF Refusals, RefusedIsOver, Live
<1> QED
  BY <1>1, <1>2, InvHolds, RefusalsStep, PTL DEF Spec, DroppedIsExplained
=============================================================================
