--------------------------- MODULE TenantsProofs ---------------------------
(***************************************************************************)
(* Who belongs to an organisation, and what became of the keys of a        *)
(* project, for any numbers of persons, invitations, keys and requests:    *)
(* the types, and that founders, members and rotated keys can be explained *)
(* whatever overlaps and wherever a replica dies.                          *)
(***************************************************************************)
EXTENDS Tenants, FiniteSetTheorems, TLAPS

(* A set without two members has one at most.                              *)
LEMMA AtMostOne ==
  ASSUME NEW S, \A x, y \in S : x = y
  PROVE  Cardinality(S) \in {0, 1}
<1>1. CASE S = {}
  BY <1>1, FS_EmptySet
<1>2. CASE S # {}
  <2>1. PICK x \in S : TRUE
    BY <1>2
  <2>2. S = {x}
    BY <2>1
  <2> QED
    BY <2>2, FS_Singleton
<1> QED
  BY <1>1, <1>2

-----------------------------------------------------------------------------
(* A registration that has its user is the only one of that address, and   *)
(* has no organisation yet; only users found one, and one each.            *)
Registering ==
    /\ \A r \in Form : form[r].at # "idle" => form[r].who \in Person
    /\ \A r \in Form : form[r].at = "user"
            => form[r].who \in user /\ founded[form[r].who] = 0
    /\ \A r, s \in Form : (/\ form[r].at = "user" /\ form[s].at = "user"
                           /\ form[r].who = form[s].who) => r = s
    /\ \A p \in Person : founded[p] > 0 => founded[p] = 1 /\ p \in user

(* An invitation that was ever found or accepted was sent, so its          *)
(* organisation and role are what they will stay.                          *)
Inviting ==
    /\ \A i \in Invite : invite[i].at # "none" => invite[i].org \in Person
    /\ \A i \in Invite : invite[i].at = "none" => joined[i] = {}
    /\ \A a \in Acceptance :
          acceptance[a].of # NoInvite => /\ acceptance[a].who \in Person
                                         /\ invite[acceptance[a].of].at # "none"

(* Unless two requests found it open at once, an invitation is held by one *)
(* request at most, and by none once somebody joined: then it is over.     *)
Holds(a, i) == acceptance[a].of = i

OneJoins ==
    \A i \in Invite : i \notin crossed =>
        /\ \A a, b \in Acceptance : Holds(a, i) /\ Holds(b, i) => a = b
        /\ joined[i] # {} => /\ invite[i].at = "over"
                             /\ \A a \in Acceptance : ~ Holds(a, i)
        /\ \A p, q \in joined[i] : p = q

AccountsInv ==
    /\ AccountsTypeOK
    /\ Registering /\ Inviting /\ OneJoins
    /\ FounderIsExplained /\ OwnerIsExplained /\ MemberIsExplained

LEMMA AccountsInitInv == AccountsInit => AccountsInv
<1> SUFFICES ASSUME AccountsInit PROVE AccountsInv
  OBVIOUS
<1> USE DEF AccountsInit, Blank, NoRow, NoAcceptance
<1>1. AccountsTypeOK
  BY DEF AccountsTypeOK, Forms, Invites, Acceptances, Roles
<1>2. Registering /\ FounderIsExplained
  BY DEF Registering, FounderIsExplained
<1>3. Inviting /\ OneJoins
  BY NoInviteAssumption DEF Inviting, OneJoins, Holds
<1>4. OwnerIsExplained /\ MemberIsExplained
  BY DEF OwnerIsExplained, MemberIsExplained
<1> QED
  BY <1>1, <1>2, <1>3, <1>4 DEF AccountsInv

(* A step of a registration: it touches no invitation.                     *)
FormStep(r) ==
    \/ \E p \in Person : CheckAddress(r, p)
    \/ CreateUser(r) \/ CreateOrg(r) \/ FormEnds(r) \/ FormDies(r)

LEMMA FormType ==
  ASSUME AccountsTypeOK, Registering, NEW r \in Form, FormStep(r)
  PROVE  AccountsTypeOK'
<1>a. form[r] \in Forms /\ (form[r].at # "idle" => form[r].who \in Person)
  BY DEF AccountsTypeOK, Registering
<1>b. Blank \in Forms
  BY DEF Blank, Forms
<1>1. ASSUME NEW p \in Person, CheckAddress(r, p)
      PROVE  AccountsTypeOK'
  <2>1. [at |-> "checked", who |-> p] \in Forms
    BY DEF Forms
  <2> QED
    BY <1>1, <2>1 DEF CheckAddress, AccountsTypeOK, orgVars, historyVars
<1>2. CASE CreateUser(r)
  <2>1. [form[r] EXCEPT !.at = "user"] \in Forms
    BY <1>a DEF Forms
  <2> QED
    BY <1>2, <1>a, <1>b, <2>1 DEF CreateUser, AccountsTypeOK, historyVars
<1>3. CASE CreateOrg(r)
  <2>1. form[r].who \in Person /\ [form[r] EXCEPT !.at = "org"] \in Forms
    BY <1>3, <1>a DEF CreateOrg, Forms
  <2>2. form' \in [Form -> Forms]
    BY <1>3, <2>1 DEF CreateOrg, AccountsTypeOK
  <2>3. /\ founded' \in [Person -> Nat]
        /\ projects' \in [Person -> SUBSET (Slug \cup {DEFAULT})]
    BY <1>3, <2>1 DEF CreateOrg, AccountsTypeOK
  <2>4. role' \in [Person -> [Person -> Roles \cup {"none"}]]
    BY <1>3, <2>1 DEF CreateOrg, AccountsTypeOK, Roles
  <2> QED
    BY <1>3, <2>2, <2>3, <2>4 DEF CreateOrg, AccountsTypeOK, historyVars
<1>4. CASE FormEnds(r)
  BY <1>4, <1>b DEF FormEnds, AccountsTypeOK, orgVars, historyVars
<1>5. CASE FormDies(r)
  BY <1>5, <1>a, <1>b DEF FormDies, AccountsTypeOK, orgVars
<1> QED
  BY <1>1, <1>2, <1>3, <1>4, <1>5 DEF FormStep

LEMMA FormInv ==
  ASSUME AccountsInv, NEW r \in Form, FormStep(r)
  PROVE  AccountsInv'
<1> DEFINE w == form[r].who
<1>a. AccountsTypeOK /\ Registering /\ form[r] \in Forms
  BY DEF AccountsInv, AccountsTypeOK
<1>b. AccountsTypeOK'
  BY <1>a, FormType
<1>c. UNCHANGED <<invite, acceptance, joined, crossed>>
  BY DEF FormStep, CheckAddress, CreateUser, CreateOrg, FormEnds, FormDies,
         orgVars, historyVars
<1>d. Inviting' /\ OneJoins'
  BY <1>c DEF AccountsInv, Inviting, OneJoins, Holds
<1>e. \A o, p \in Person : Through(o, p)' = Through(o, p)
  BY <1>c DEF Through
<1>f. \A s \in Form : s # r => form'[s] = form[s]
  BY <1>a DEF FormStep, CheckAddress, CreateUser, CreateOrg, FormEnds, FormDies,
              AccountsTypeOK
<1>1. CASE CreateOrg(r)
  <2>1. /\ form[r].at = "user" /\ form'[r].at = "org" /\ form'[r].who = w
        /\ w \in user /\ w \in Person /\ founded[w] = 0
        /\ UNCHANGED <<user, half>>
    BY <1>1, <1>a DEF CreateOrg, Registering, AccountsTypeOK, Forms, historyVars
  <2>2. /\ founded'[w] = 1
        /\ \A p \in Person : p # w => founded'[p] = founded[p]
    BY <1>1, <1>a, <2>1 DEF CreateOrg, AccountsTypeOK
  <2>3. /\ role'[w][w] = "OWNER"
        /\ \A o, p \in Person : ~ (o = w /\ p = w) => role'[o][p] = role[o][p]
    BY <1>1, <1>a, <2>1 DEF CreateOrg, AccountsTypeOK
  <2>4. Registering'
    BY <1>a, <1>f, <2>1, <2>2 DEF Registering
  <2>5. FounderIsExplained'
    <3> SUFFICES ASSUME NEW p \in Person
                 PROVE  /\ founded'[p] <= 1
                        /\ (p \in user' /\ founded'[p] = 0)
                             => p \in half' \/ \E s \in Form : /\ form'[s].at = "user"
                                                            /\ form'[s].who = p
      BY DEF FounderIsExplained
    <3>1. CASE p = w
      BY <2>2, <3>1
    <3>2. CASE p # w
      <4>1. founded'[p] = founded[p] /\ user' = user /\ half' = half
        BY <2>1, <2>2, <3>2
      <4>2. ASSUME NEW s \in Form, form[s].at = "user", form[s].who = p
            PROVE  form'[s] = form[s]
        BY <1>f, <3>2, <4>2
      <4> QED
        BY <4>1, <4>2 DEF AccountsInv, FounderIsExplained
    <3> QED
      BY <3>1, <3>2
  <2>6. OwnerIsExplained'
    BY <1>e, <2>2, <2>3 DEF AccountsInv, OwnerIsExplained
  <2>7. MemberIsExplained'
    BY <1>c, <1>e, <2>3 DEF AccountsInv, MemberIsExplained
  <2> QED
    BY <1>b, <1>d, <2>4, <2>5, <2>6, <2>7 DEF AccountsInv
(* The others change neither founders nor roles.                           *)
<1>2. ASSUME UNCHANGED <<founded, role>>
      PROVE  OwnerIsExplained' /\ MemberIsExplained'
  BY <1>2, <1>c, <1>e DEF AccountsInv, OwnerIsExplained, MemberIsExplained
<1>3. CASE CreateUser(r)
  <2>1. /\ form[r].at = "checked" /\ user' = user \cup {w} /\ w \in Person
        /\ UNCHANGED <<founded, role, half>>
        /\ w \in user => form'[r] = Blank
        /\ w \notin user => form'[r].at = "user" /\ form'[r].who = w
    BY <1>3, <1>a
    DEF CreateUser, Registering, AccountsTypeOK, Forms, historyVars
  <2>2. w \notin user => founded[w] = 0
    BY <1>a, <2>1 DEF Registering, AccountsTypeOK
  <2>3. w \notin user => \A s \in Form : form[s].at = "user" => form[s].who # w
    BY <1>a DEF Registering
  <2>4. Registering'
    BY <1>a, <1>f, <2>1, <2>2, <2>3 DEF Registering, Blank
  <2>5. FounderIsExplained'
    BY <1>f, <2>1 DEF AccountsInv, FounderIsExplained
  <2> QED
    BY <1>b, <1>d, <1>2, <2>1, <2>4, <2>5 DEF AccountsInv
<1>4. CASE (\E p \in Person : CheckAddress(r, p)) \/ FormEnds(r)
  <2>1. /\ form[r].at # "user" /\ form'[r].at # "user"
        /\ form'[r].at # "idle" => form'[r].who \in Person
        /\ UNCHANGED <<user, founded, role, half>>
    BY <1>4, <1>a
    DEF CheckAddress, FormEnds, Blank, AccountsTypeOK, orgVars, historyVars
  <2>2. Registering'
    BY <1>a, <1>f, <2>1 DEF Registering
  <2>3. FounderIsExplained'
    BY <1>f, <2>1 DEF AccountsInv, FounderIsExplained
  <2> QED
    BY <1>b, <1>d, <1>2, <2>1, <2>2, <2>3 DEF AccountsInv
<1>5. CASE FormDies(r)
  <2>1. /\ form'[r] = Blank /\ UNCHANGED <<user, founded, role>>
        /\ half \subseteq half' /\ (form[r].at = "user" => w \in half')
    BY <1>5, <1>a DEF FormDies, AccountsTypeOK, orgVars
  <2>2. Registering'
    BY <1>a, <1>f, <2>1 DEF Registering, Blank
  <2>3. FounderIsExplained'
    BY <1>f, <2>1 DEF AccountsInv, FounderIsExplained
  <2> QED
    BY <1>b, <1>d, <1>2, <2>1, <2>2, <2>3 DEF AccountsInv
<1> QED
  BY <1>1, <1>3, <1>4, <1>5 DEF FormStep

(* A step of an invitation or of a request that accepts one: it touches    *)
(* neither users nor founders.                                             *)
InviteStep ==
    \/ \E i \in Invite : \/ \E o \in Person, as \in Roles : SendInvite(i, o, as)
                        \/ InviteExpires(i)
    \/ \E a \in Acceptance :
          \/ \E i \in Invite, p \in Person : FindInvite(a, i, p)
          \/ Join(a) \/ AcceptanceDies(a)

(* Sending and ending invitations, and finding one: nobody joins.  What an *)
(* invitation says stays as long as it was sent.                           *)
NobodyJoins ==
    /\ UNCHANGED <<orgVars, half, joined>>
    /\ \A i \in Invite : invite[i].at # "none"
          => /\ invite'[i].at # "none"
             /\ invite'[i].org = invite[i].org
             /\ invite'[i].role = invite[i].role

LEMMA NobodyJoinsMembers ==
  ASSUME AccountsInv, NobodyJoins
  PROVE  OwnerIsExplained' /\ MemberIsExplained'
<1>1. \A o, p \in Person : Through(o, p)' = Through(o, p)
  BY DEF AccountsInv, NobodyJoins, Inviting, Through
<1>2. \A o, p \in Person : \A i \in Through(o, p) : invite'[i].role = invite[i].role
  BY DEF AccountsInv, NobodyJoins, Inviting, Through
<1>3. UNCHANGED <<founded, role>>
  BY DEF NobodyJoins, orgVars
<1>4. OwnerIsExplained'
  BY <1>1, <1>3 DEF AccountsInv, OwnerIsExplained
<1>5. MemberIsExplained'
  BY <1>1, <1>2, <1>3 DEF AccountsInv, MemberIsExplained
<1> QED
  BY <1>4, <1>5

LEMMA SendInviteInv ==
  ASSUME AccountsInv, NEW i \in Invite,
         (\E o \in Person, as \in Roles : SendInvite(i, o, as)) \/ InviteExpires(i)
  PROVE  AccountsTypeOK' /\ NobodyJoins /\ Inviting' /\ OneJoins'
<1>a. AccountsTypeOK /\ invite[i] \in Invites
  BY DEF AccountsInv, AccountsTypeOK
<1>1. ASSUME NEW o \in Person, NEW as \in Roles, SendInvite(i, o, as)
      PROVE  AccountsTypeOK' /\ NobodyJoins /\ Inviting' /\ OneJoins'
  <2>1. /\ invite[i].at = "none" /\ joined[i] = {}
        /\ invite' = [invite EXCEPT ![i] = [at |-> "open", org |-> o, role |-> as]]
        /\ UNCHANGED <<orgVars, form, acceptance, historyVars>>
    BY <1>1 DEF SendInvite, AccountsInv, Inviting
  <2>2. [at |-> "open", org |-> o, role |-> as] \in Invites
    BY DEF Invites
  <2>3. AccountsTypeOK'
    BY <1>a, <2>1, <2>2 DEF AccountsTypeOK, orgVars, historyVars
  <2>4. NobodyJoins
    BY <1>a, <2>1 DEF NobodyJoins, AccountsTypeOK, historyVars
  <2>5. Inviting'
    BY <1>a, <2>1 DEF AccountsInv, Inviting, AccountsTypeOK, historyVars
  <2>6. OneJoins'
    BY <1>a, <2>1
    DEF AccountsInv, Inviting, OneJoins, Holds, AccountsTypeOK, historyVars
  <2> QED
    BY <2>3, <2>4, <2>5, <2>6
<1>2. CASE InviteExpires(i)
  <2>1. /\ invite[i].at = "open"
        /\ invite' = [invite EXCEPT ![i].at = "over"]
        /\ UNCHANGED <<orgVars, form, acceptance, historyVars>>
    BY <1>2 DEF InviteExpires
  <2>2. [invite[i] EXCEPT !.at = "over"] \in Invites
    BY <1>a DEF Invites
  <2>3. AccountsTypeOK'
    BY <1>a, <2>1, <2>2 DEF AccountsTypeOK, orgVars, historyVars
  <2>4. NobodyJoins
    BY <1>a, <2>1 DEF NobodyJoins, AccountsTypeOK, Invites, historyVars
  <2>5. Inviting'
    BY <1>a, <2>1, <2>4
    DEF AccountsInv, Inviting, NobodyJoins, AccountsTypeOK, historyVars
  <2>6. OneJoins'
    BY <1>a, <2>1
    DEF AccountsInv, OneJoins, Holds, AccountsTypeOK, Invites, historyVars
  <2> QED
    BY <2>3, <2>4, <2>5, <2>6
<1> QED
  BY <1>1, <1>2

LEMMA FindInviteInv ==
  ASSUME AccountsInv, NEW a \in Acceptance, NEW i \in Invite, NEW p \in Person,
         FindInvite(a, i, p)
  PROVE  AccountsTypeOK' /\ NobodyJoins /\ Inviting' /\ OneJoins'
<1>1. /\ acceptance[a].of = NoInvite /\ invite[i].at = "open"
      /\ acceptance' = [acceptance EXCEPT ![a] = [of |-> i, who |-> p]]
      /\ crossed' = IF \E b \in Acceptance : acceptance[b].of = i
                    THEN crossed \cup {i} ELSE crossed
      /\ UNCHANGED <<orgVars, form, invite, half, joined>>
  BY DEF FindInvite, NoAcceptance
<1>2. [of |-> i, who |-> p] \in Acceptances
  BY DEF Acceptances
<1>3. AccountsTypeOK'
  BY <1>1, <1>2 DEF AccountsInv, AccountsTypeOK, orgVars
<1>4. /\ acceptance'[a].of = i /\ acceptance'[a].who = p
      /\ \A b \in Acceptance : b # a => acceptance'[b] = acceptance[b]
  BY <1>1 DEF AccountsInv, AccountsTypeOK
<1>5. NobodyJoins
  BY <1>1 DEF NobodyJoins
<1>6. Inviting'
  BY <1>1, <1>4 DEF AccountsInv, Inviting
<1>7. OneJoins'
  <2> SUFFICES ASSUME NEW j \in Invite, j \notin crossed'
               PROVE  /\ \A b, c \in Acceptance :
                            Holds(b, j)' /\ Holds(c, j)' => b = c
                      /\ joined[j] # {} => /\ invite[j].at = "over"
                                           /\ \A b \in Acceptance : ~ Holds(b, j)'
                      /\ \A q, r \in joined[j] : q = r
    BY <1>1 DEF OneJoins
  <2>1. j \notin crossed
    BY <1>1
  <2>2. CASE j = i
    <3>1. \A b \in Acceptance : acceptance[b].of # i
      BY <1>1, <2>2
    <3>2. joined[i] = {}
      BY <1>1, <2>1, <2>2 DEF AccountsInv, OneJoins
    <3> QED
      BY <1>4, <2>2, <3>1, <3>2 DEF Holds
  <2>3. CASE j # i
    BY <1>1, <1>4, <2>1, <2>3, NoInviteAssumption
    DEF AccountsInv, OneJoins, Holds
  <2> QED
    BY <2>2, <2>3
<1> QED
  BY <1>3, <1>5, <1>6, <1>7

LEMMA AcceptanceDiesInv ==
  ASSUME AccountsInv, NEW a \in Acceptance, AcceptanceDies(a)
  PROVE  AccountsTypeOK' /\ NobodyJoins /\ Inviting' /\ OneJoins'
<1>1. /\ acceptance' = [acceptance EXCEPT ![a] = NoAcceptance]
      /\ UNCHANGED <<orgVars, form, invite, historyVars>>
  BY DEF AcceptanceDies
<1>2. NoAcceptance \in Acceptances /\ NoAcceptance.of = NoInvite
  BY DEF NoAcceptance, Acceptances
<1>3. AccountsTypeOK'
  BY <1>1, <1>2 DEF AccountsInv, AccountsTypeOK, orgVars, historyVars
<1>4. /\ acceptance'[a].of = NoInvite
      /\ \A b \in Acceptance : b # a => acceptance'[b] = acceptance[b]
  BY <1>1, <1>2 DEF AccountsInv, AccountsTypeOK
<1>5. NobodyJoins
  BY <1>1 DEF NobodyJoins, historyVars
<1>6. Inviting'
  BY <1>1, <1>4 DEF AccountsInv, Inviting, historyVars
<1>7. OneJoins'
  BY <1>1, <1>4, NoInviteAssumption DEF AccountsInv, OneJoins, Holds, historyVars
<1> QED
  BY <1>3, <1>5, <1>6, <1>7

LEMMA JoinInv ==
  ASSUME AccountsInv, NEW a \in Acceptance, Join(a)
  PROVE  AccountsInv'
<1>a. AccountsTypeOK /\ Inviting /\ acceptance[a] \in Acceptances
  BY DEF AccountsInv, AccountsTypeOK
<1>1. PICK i \in Invite, p \in Person, o \in Person :
        /\ acceptance[a].of = i /\ acceptance[a].who = p
        /\ invite[i].at # "none" /\ invite[i].org = o
  BY <1>a DEF Join, Acceptances, Inviting
<1>2. /\ role' = [role EXCEPT ![o][p] = invite[i].role]
      /\ invite' = [invite EXCEPT ![i].at = "over"]
      /\ joined' = [joined EXCEPT ![i] = @ \cup {p}]
      /\ acceptance' = [acceptance EXCEPT ![a] = NoAcceptance]
      /\ UNCHANGED <<user, founded, projects, form, half, crossed>>
  BY <1>1 DEF Join
<1>3. NoAcceptance \in Acceptances /\ NoAcceptance.of = NoInvite
  BY DEF NoAcceptance, Acceptances
<1>4. [invite[i] EXCEPT !.at = "over"] \in Invites /\ invite[i].role \in Roles
  BY <1>a DEF AccountsTypeOK, Invites
<1>5. AccountsTypeOK'
  <2>1. role' \in [Person -> [Person -> Roles \cup {"none"}]]
    BY <1>a, <1>1, <1>2, <1>4 DEF AccountsTypeOK
  <2>2. /\ invite' \in [Invite -> Invites]
        /\ joined' \in [Invite -> SUBSET Person]
        /\ acceptance' \in [Acceptance -> Acceptances]
    BY <1>a, <1>1, <1>2, <1>3, <1>4 DEF AccountsTypeOK
  <2> QED
    BY <1>a, <1>2, <2>1, <2>2 DEF AccountsTypeOK
<1>6. /\ \A j \in Invite : invite'[j].org = invite[j].org
                          /\ invite'[j].role = invite[j].role
      /\ invite'[i].at = "over"
      /\ \A j \in Invite : j # i => invite'[j] = invite[j] /\ joined'[j] = joined[j]
      /\ joined'[i] = joined[i] \cup {p}
      /\ acceptance'[a].of = NoInvite
      /\ \A b \in Acceptance : b # a => acceptance'[b] = acceptance[b]
  BY <1>a, <1>1, <1>2, <1>3 DEF AccountsTypeOK, Invites
<1>7. Registering' /\ FounderIsExplained'
  BY <1>2 DEF AccountsInv, Registering, FounderIsExplained
<1>8. Inviting'
  <2>1. \A j \in Invite : invite'[j].at # "none" => invite'[j].org \in Person
    BY <1>a, <1>1, <1>6 DEF Inviting
  <2>2. \A j \in Invite : invite'[j].at = "none" => joined'[j] = {}
    BY <1>a, <1>6 DEF Inviting
  <2>3. ASSUME NEW b \in Acceptance, acceptance'[b].of # NoInvite
        PROVE  /\ acceptance'[b].who \in Person
               /\ invite'[acceptance'[b].of].at # "none"
    <3>1. b # a /\ acceptance'[b] = acceptance[b]
      BY <1>6, <2>3
    <3>2. PICK j \in Invite : acceptance[b].of = j
      BY <1>a, <2>3, <3>1 DEF AccountsTypeOK, Acceptances
    <3> QED
      BY <1>a, <1>6, <2>3, <3>1, <3>2 DEF Inviting
  <2> QED
    BY <2>1, <2>2, <2>3 DEF Inviting
<1>9. OneJoins'
  <2> SUFFICES ASSUME NEW j \in Invite, j \notin crossed
               PROVE  /\ \A b, c \in Acceptance :
                            Holds(b, j)' /\ Holds(c, j)' => b = c
                      /\ joined'[j] # {} => /\ invite'[j].at = "over"
                                            /\ \A b \in Acceptance : ~ Holds(b, j)'
                      /\ \A q, r \in joined'[j] : q = r
    BY <1>2 DEF OneJoins
  <2>1. CASE j = i
    <3>1. \A b \in Acceptance : acceptance[b].of = i => b = a
      BY <1>1, <2>1 DEF AccountsInv, OneJoins, Holds
    <3>2. joined[i] = {}
      BY <1>1, <2>1 DEF AccountsInv, OneJoins, Holds
    <3> QED
      BY <1>1, <1>6, <2>1, <3>1, <3>2, NoInviteAssumption DEF Holds
  <2>2. CASE j # i
    BY <1>6, <2>2, NoInviteAssumption DEF AccountsInv, OneJoins, Holds
  <2> QED
    BY <2>1, <2>2
<1>10. /\ role'[o][p] = invite[i].role
       /\ \A q, r \in Person : ~ (q = o /\ r = p) => role'[q][r] = role[q][r]
  BY <1>a, <1>1, <1>2 DEF AccountsTypeOK
<1>11. /\ i \in Through(o, p)'
       /\ \A q, r \in Person : Through(q, r) \subseteq Through(q, r)'
  BY <1>a, <1>1, <1>6 DEF Through, AccountsTypeOK
<1>12. OwnerIsExplained'
  BY <1>1, <1>2, <1>10, <1>11 DEF AccountsInv, OwnerIsExplained
<1>13. MemberIsExplained'
  <2> SUFFICES ASSUME NEW q \in Person, NEW r \in Person,
                      q # r, role'[q][r] # "none"
               PROVE  \E j \in Through(q, r)' : invite'[j].role = role'[q][r]
    BY DEF MemberIsExplained
  <2>1. CASE q = o /\ r = p
    BY <1>1, <1>6, <1>10, <1>11, <2>1
  <2>2. CASE ~ (q = o /\ r = p)
    <3>1. PICK j \in Through(q, r) : invite[j].role = role[q][r]
      BY <1>10, <2>2 DEF AccountsInv, MemberIsExplained
    <3> QED
      BY <1>6, <1>10, <1>11, <2>2, <3>1 DEF Through
  <2> QED
    BY <2>1, <2>2
<1> QED
  BY <1>5, <1>7, <1>8, <1>9, <1>12, <1>13 DEF AccountsInv

LEMMA InviteInv ==
  ASSUME AccountsInv, InviteStep
  PROVE  AccountsInv'
<1>1. ASSUME AccountsTypeOK', NobodyJoins, Inviting', OneJoins', UNCHANGED form
      PROVE  AccountsInv'
  <2>1. Registering' /\ FounderIsExplained'
    BY <1>1 DEF AccountsInv, NobodyJoins, Registering, FounderIsExplained, orgVars
  <2> QED
    BY <1>1, <2>1, NobodyJoinsMembers DEF AccountsInv
<1>2. ASSUME NEW i \in Invite,
             (\E o \in Person, as \in Roles : SendInvite(i, o, as))
               \/ InviteExpires(i)
      PROVE  AccountsInv'
  <2>1. UNCHANGED form
    BY <1>2 DEF SendInvite, InviteExpires
  <2> QED
    BY <1>1, <1>2, <2>1, SendInviteInv
<1>3. ASSUME NEW a \in Acceptance, NEW i \in Invite, NEW p \in Person,
             FindInvite(a, i, p)
      PROVE  AccountsInv'
  BY <1>1, <1>3, FindInviteInv DEF FindInvite
<1>4. ASSUME NEW a \in Acceptance, AcceptanceDies(a)
      PROVE  AccountsInv'
  BY <1>1, <1>4, AcceptanceDiesInv DEF AcceptanceDies
<1> QED
  BY <1>2, <1>3, <1>4, JoinInv DEF InviteStep

LEMMA AccountsStep ==
  ASSUME AccountsInv, [AccountsNext]_accountVars
  PROVE  AccountsInv'
<1>1. ASSUME UNCHANGED <<user, founded, role, form, invite, acceptance,
                         historyVars>>,
             projects' \in [Person -> SUBSET (Slug \cup {DEFAULT})]
      PROVE  AccountsInv'
  BY <1>1
  DEF AccountsInv, AccountsTypeOK, Registering, Inviting, OneJoins, Holds,
      FounderIsExplained, OwnerIsExplained, MemberIsExplained, Through, historyVars
<1>2. ASSUME NEW o \in Person, NEW s \in Slug, CreateProject(o, s)
      PROVE  AccountsInv'
  BY <1>1, <1>2 DEF CreateProject, AccountsInv, AccountsTypeOK
<1>3. CASE UNCHANGED accountVars
  BY <1>1, <1>3 DEF accountVars, historyVars, AccountsInv, AccountsTypeOK
<1> QED
  BY <1>2, <1>3, FormInv, InviteInv DEF AccountsNext, FormStep, InviteStep

-----------------------------------------------------------------------------
(* A key that was revoked was ACTIVE before and never is again; requests   *)
(* hold keys that exist; an heir came after its rotation revoked a key.    *)
Rotating ==
    /\ \A k \in revoked : key[k] \in {"REVOKED", "DISABLED"}
    /\ \A k \in Key : key[k] = "none" => heirOf[k] = NoKey
    /\ \A k \in Key : heirOf[k] # NoKey => heirOf[k] \in revoked
    /\ \A r \in Request :
          /\ request[r].at # "idle" => /\ request[r].key \in Key
                                       /\ key[request[r].key] # "none"
          /\ request[r].at = "revoked" => request[r].key \in revoked

(* Until a key is rotated again, it has one heir at most, and none while   *)
(* the one rotation that revoked it is under way.                          *)
Revoking(r, k) == request[r].at = "revoked" /\ request[r].key = k

OneHeir ==
    \A k \in Key : k \notin again =>
        /\ \A r, s \in Request : Revoking(r, k) /\ Revoking(s, k) => r = s
        /\ \A r \in Request : Revoking(r, k) => Heirs(k) = {}
        /\ \A g, h \in Heirs(k) : g = h

(* The number of heirs follows from OneHeir; what else has to be shown of  *)
(* a revoked key is that it is out, and has an heir or an excuse.          *)
OutForCause ==
    \A k \in revoked :
        /\ ~ LetsIn(k)
        /\ \/ Heirs(k) # {}
           \/ k \in broken
           \/ \E r \in Request : Revoking(r, k)

KeysInv == KeysTypeOK /\ Rotating /\ OneHeir /\ OutForCause

LEMMA Explained == KeysInv => KeysExplained
<1> SUFFICES ASSUME KeysInv PROVE KeysExplained
  OBVIOUS
<1>1. ASSUME NEW k \in Key, Cardinality(Heirs(k)) > 1
      PROVE  k \in again
  <2>1. SUFFICES ASSUME k \notin again PROVE FALSE
    OBVIOUS
  <2>2. \A g, h \in Heirs(k) : g = h
    BY <2>1 DEF KeysInv, OneHeir
  <2>3. Cardinality(Heirs(k)) \in {0, 1}
    BY <2>2, AtMostOne
  <2> QED
    BY <1>1, <2>3
<1> QED
  BY <1>1 DEF KeysInv, KeysExplained, OutForCause, Revoking, KeysTypeOK

LEMMA KeysInitInv == KeysInit => KeysInv
<1> SUFFICES ASSUME KeysInit PROVE KeysInv
  OBVIOUS
<1> USE DEF KeysInit, Idle
<1>1. KeysTypeOK
  BY DEF KeysTypeOK, Requests
<1>2. Rotating /\ OneHeir /\ OutForCause
  BY NoKeyAssumption DEF Rotating, OneHeir, OutForCause, Revoking, Heirs
<1> QED
  BY <1>1, <1>2 DEF KeysInv

(* A key that did not exist becomes ACTIVE: it was in nobody's hands, and  *)
(* gets no heir by it.                                                     *)
LEMMA CreateKeyInv ==
  ASSUME KeysInv, NEW r \in Request, NEW k \in Key, CreateKey(r, k)
  PROVE  KeysInv'
<1>1. /\ key[k] = "none" /\ key' = [key EXCEPT ![k] = "ACTIVE"]
      /\ UNCHANGED <<revoked, heirOf, request, broken, again>>
  BY DEF CreateKey, New
<1>2. /\ k \notin revoked /\ key'[k] = "ACTIVE"
      /\ \A j \in Key : j # k => key'[j] = key[j]
  BY <1>1 DEF KeysInv, Rotating, KeysTypeOK
<1>3. KeysTypeOK'
  BY <1>1 DEF KeysInv, KeysTypeOK
<1>4. Rotating'
  BY <1>1, <1>2 DEF KeysInv, Rotating, KeysTypeOK
<1>5. OneHeir'
  BY <1>1 DEF KeysInv, OneHeir, Revoking, Heirs
<1>6. OutForCause'
  BY <1>1, <1>2 DEF KeysInv, OutForCause, LetsIn, Revoking, Heirs, KeysTypeOK
<1> QED
  BY <1>3, <1>4, <1>5, <1>6 DEF KeysInv

(* An heir ends the rotation it comes from: of that key it is the first,   *)
(* unless the key was rotated again.                                       *)
LEMMA CreateHeirInv ==
  ASSUME KeysInv, NEW r \in Request, NEW k \in Key, CreateHeir(r, k)
  PROVE  KeysInv'
<1>a. KeysTypeOK /\ Rotating
  BY DEF KeysInv
<1>1. PICK old \in revoked : Revoking(r, old)
  BY <1>a DEF CreateHeir, Rotating, Revoking
<1>2. /\ key[k] = "none" /\ key' = [key EXCEPT ![k] = "ACTIVE"]
      /\ heirOf' = [heirOf EXCEPT ![k] = old]
      /\ request' = [request EXCEPT ![r] = Idle]
      /\ UNCHANGED <<revoked, broken, again>>
  BY <1>1 DEF CreateHeir, New, Revoking
<1>3. /\ k \notin revoked /\ key'[k] = "ACTIVE" /\ heirOf'[k] = old
      /\ heirOf[k] = NoKey /\ old \in Key
      /\ \A j \in Key : j # k => key'[j] = key[j] /\ heirOf'[j] = heirOf[j]
  BY <1>a, <1>1, <1>2 DEF Rotating, KeysTypeOK
<1>4. /\ request'[r] = Idle
      /\ \A s \in Request : s # r => request'[s] = request[s]
  BY <1>a, <1>2 DEF KeysTypeOK
<1>5. KeysTypeOK'
  <2>1. Idle \in Requests
    BY DEF Idle, Requests
  <2> QED
    BY <1>a, <1>2, <1>3, <2>1 DEF KeysTypeOK
<1>6. Rotating'
  <2>1. \A j \in revoked' : key'[j] \in {"REVOKED", "DISABLED"}
    BY <1>a, <1>2, <1>3 DEF Rotating, KeysTypeOK
  <2>2. \A j \in Key : /\ key'[j] = "none" => heirOf'[j] = NoKey
                       /\ heirOf'[j] # NoKey => heirOf'[j] \in revoked'
    BY <1>a, <1>1, <1>2, <1>3 DEF Rotating
  <2>3. \A s \in Request : s # r =>
           /\ request'[s].at # "idle" => /\ request'[s].key \in Key
                                         /\ key'[request'[s].key] # "none"
           /\ request'[s].at = "revoked" => request'[s].key \in revoked'
    BY <1>a, <1>2, <1>3, <1>4 DEF Rotating
  <2> QED
    BY <1>4, <2>1, <2>2, <2>3 DEF Rotating, Idle
<1>7. /\ Heirs(old)' = Heirs(old) \cup {k}
      /\ \A j \in Key : j # old => Heirs(j)' = Heirs(j)
  BY <1>3, NoKeyAssumption DEF Heirs
<1>8. \A s \in Request, j \in Key : Revoking(s, j)' <=> (Revoking(s, j) /\ s # r)
  BY <1>4 DEF Revoking, Idle
<1>9. OneHeir'
  <2> SUFFICES ASSUME NEW j \in Key, j \notin again
               PROVE  /\ \A s, t \in Request :
                            Revoking(s, j)' /\ Revoking(t, j)' => s = t
                      /\ \A s \in Request : Revoking(s, j)' => Heirs(j)' = {}
                      /\ \A g, h \in Heirs(j)' : g = h
    BY <1>2 DEF OneHeir
  <2>1. CASE j = old
    <3>1. Heirs(old) = {} /\ \A s \in Request : ~ Revoking(s, old)'
      BY <1>1, <1>8, <2>1 DEF KeysInv, OneHeir
    <3> QED
      BY <1>7, <2>1, <3>1
  <2>2. CASE j # old
    BY <1>7, <1>8, <2>2 DEF KeysInv, OneHeir
  <2> QED
    BY <2>1, <2>2
<1>10. OutForCause'
  <2> SUFFICES ASSUME NEW j \in revoked
               PROVE  /\ ~ LetsIn(j)'
                      /\ \/ Heirs(j)' # {}
                         \/ j \in broken
                         \/ \E s \in Request : Revoking(s, j)'
    BY <1>2 DEF OutForCause
  <2>1. j \in Key /\ j # k
    BY <1>a, <1>3 DEF KeysTypeOK
  <2>2. ~ LetsIn(j)'
    BY <1>3, <2>1 DEF KeysInv, OutForCause, LetsIn
  <2>3. CASE j = old
    BY <1>7, <2>2, <2>3
  <2>4. CASE j # old
    <3>1. ~ Revoking(r, j)
      BY <1>1, <2>4 DEF Revoking
    <3> QED
      BY <1>7, <1>8, <2>1, <2>2, <2>4, <3>1 DEF KeysInv, OutForCause
  <2> QED
    BY <2>3, <2>4
<1> QED
  BY <1>5, <1>6, <1>9, <1>10 DEF KeysInv

(* The key is found, whatever its status; nothing else changes.            *)
LEMMA FindKeyInv ==
  ASSUME KeysInv, NEW r \in Request, NEW k \in Key,
         NEW does \in {"rotate", "disable"}, FindKey(r, k, does)
  PROVE  KeysInv'
<1>1. /\ request[r].at = "idle" /\ key[k] # "none"
      /\ request' = [request EXCEPT ![r] = [at |-> does, key |-> k]]
      /\ UNCHANGED <<key, revoked, heirOf, broken, again>>
  BY DEF FindKey
<1>2. /\ request'[r] = [at |-> does, key |-> k]
      /\ \A s \in Request : s # r => request'[s] = request[s]
  BY <1>1 DEF KeysInv, KeysTypeOK
<1>3. KeysTypeOK'
  <2>1. [at |-> does, key |-> k] \in Requests
    BY DEF Requests
  <2> QED
    BY <1>1, <2>1 DEF KeysInv, KeysTypeOK
<1>4. Rotating'
  BY <1>1, <1>2 DEF KeysInv, Rotating
<1>5. /\ \A s \in Request, j \in Key : Revoking(s, j)' <=> Revoking(s, j)
      /\ \A j \in Key : Heirs(j)' = Heirs(j)
  BY <1>1, <1>2 DEF Revoking, Heirs
<1>6. OneHeir'
  BY <1>1, <1>5 DEF KeysInv, OneHeir
<1>7. OutForCause'
  BY <1>1, <1>5 DEF KeysInv, KeysTypeOK, OutForCause, LetsIn
<1> QED
  BY <1>3, <1>4, <1>6, <1>7 DEF KeysInv

(* A key that was ACTIVE is revoked for the first time, by nobody else.    *)
LEMMA RevokeKeyInv ==
  ASSUME KeysInv, NEW r \in Request, RevokeKey(r)
  PROVE  KeysInv'
<1>a. KeysTypeOK /\ Rotating
  BY DEF KeysInv
<1>1. PICK k \in Key : request[r].key = k
  BY <1>a DEF RevokeKey, Rotating
<1>2. /\ request[r].at = "rotate"
      /\ key' = [key EXCEPT ![k] = "REVOKED"]
      /\ again' = IF key[k] = "ACTIVE" THEN again ELSE again \cup {k}
      /\ revoked' = revoked \cup {k}
      /\ request' = [request EXCEPT ![r].at = "revoked"]
      /\ UNCHANGED <<heirOf, broken>>
  BY <1>1 DEF RevokeKey
<1>3. /\ key'[k] = "REVOKED"
      /\ \A j \in Key : j # k => key'[j] = key[j]
      /\ request'[r].at = "revoked" /\ request'[r].key = k
      /\ \A s \in Request : s # r => request'[s] = request[s]
  BY <1>a, <1>1, <1>2 DEF KeysTypeOK, Requests
<1>4. KeysTypeOK'
  <2>1. [request[r] EXCEPT !.at = "revoked"] \in Requests
    BY <1>a DEF KeysTypeOK, Requests
  <2> QED
    BY <1>a, <1>2, <2>1 DEF KeysTypeOK
<1>5. Rotating'
  BY <1>a, <1>2, <1>3 DEF Rotating, KeysTypeOK
<1>6. /\ \A j \in Key : Heirs(j)' = Heirs(j)
      /\ Revoking(r, k)' /\ ~ \E j \in Key : Revoking(r, j)
      /\ \A j \in Key : j # k => ~ Revoking(r, j)'
      /\ \A s \in Request, j \in Key : s # r => (Revoking(s, j)' <=> Revoking(s, j))
  BY <1>2, <1>3 DEF Heirs, Revoking
<1>7. OneHeir'
  <2> SUFFICES ASSUME NEW j \in Key, j \notin again'
               PROVE  /\ \A s, t \in Request :
                            Revoking(s, j)' /\ Revoking(t, j)' => s = t
                      /\ \A s \in Request : Revoking(s, j)' => Heirs(j)' = {}
                      /\ \A g, h \in Heirs(j)' : g = h
    BY DEF OneHeir
  <2>1. j \notin again
    BY <1>2
  <2>2. CASE j = k
    <3>1. k \notin revoked
      BY <1>a, <1>2, <2>2 DEF Rotating
    <3>2. Heirs(k) = {} /\ \A s \in Request : ~ Revoking(s, k)
      BY <1>a, <3>1, NoKeyAssumption DEF Rotating, Heirs, Revoking
    <3> QED
      BY <1>6, <2>2, <3>2
  <2>3. CASE j # k
    BY <1>6, <2>1, <2>3 DEF KeysInv, OneHeir
  <2> QED
    BY <2>2, <2>3
<1>8. OutForCause'
  <2> SUFFICES ASSUME NEW j \in revoked'
               PROVE  /\ ~ LetsIn(j)'
                      /\ \/ Heirs(j)' # {}
                         \/ j \in broken
                         \/ \E s \in Request : Revoking(s, j)'
    BY <1>2 DEF OutForCause
  <2>1. CASE j = k
    BY <1>3, <1>6, <2>1 DEF LetsIn
  <2>2. CASE j # k
    <3>1. j \in revoked /\ j \in Key
      BY <1>a, <1>2, <2>2 DEF KeysTypeOK
    <3>2. key'[j] = key[j]
      BY <1>3, <2>2, <3>1
    <3> QED
      BY <1>6, <3>1, <3>2 DEF KeysInv, OutForCause, LetsIn
  <2> QED
    BY <2>1, <2>2
<1> QED
  BY <1>4, <1>5, <1>7, <1>8 DEF KeysInv

(* The status of a REVOKED key is overwritten: it is out all the same.     *)
LEMMA DisableKeyInv ==
  ASSUME KeysInv, NEW r \in Request, DisableKey(r)
  PROVE  KeysInv'
<1>a. KeysTypeOK /\ Rotating
  BY DEF KeysInv
<1>1. PICK k \in Key : request[r].key = k /\ key[k] # "none"
  BY <1>a DEF DisableKey, Rotating
<1>2. /\ request[r].at = "disable"
      /\ key' = [key EXCEPT ![k] = "DISABLED"]
      /\ request' = [request EXCEPT ![r] = Idle]
      /\ UNCHANGED <<revoked, heirOf, broken, again>>
  BY <1>1 DEF DisableKey
<1>3. /\ key'[k] = "DISABLED"
      /\ \A j \in Key : j # k => key'[j] = key[j]
      /\ request'[r] = Idle
      /\ \A s \in Request : s # r => request'[s] = request[s]
  BY <1>a, <1>2 DEF KeysTypeOK
<1>4. KeysTypeOK'
  <2>1. Idle \in Requests
    BY DEF Idle, Requests
  <2> QED
    BY <1>a, <1>2, <2>1 DEF KeysTypeOK
<1>5. Rotating'
  BY <1>a, <1>1, <1>2, <1>3 DEF Rotating, KeysTypeOK, Idle
<1>6. /\ \A s \in Request, j \in Key : Revoking(s, j)' <=> Revoking(s, j)
      /\ \A j \in Key : Heirs(j)' = Heirs(j)
  BY <1>2, <1>3 DEF Revoking, Heirs, Idle
<1>7. OneHeir'
  BY <1>2, <1>6 DEF KeysInv, OneHeir
<1>8. OutForCause'
  <2>1. \A j \in revoked : ~ LetsIn(j)'
    BY <1>a, <1>3 DEF KeysInv, OutForCause, LetsIn, KeysTypeOK
  <2> QED
    BY <1>a, <1>2, <1>6, <2>1 DEF KeysInv, OutForCause, KeysTypeOK
<1> QED
  BY <1>4, <1>5, <1>7, <1>8 DEF KeysInv

(* A rotation that dies after the revocation leaves its key broken.        *)
LEMMA KeyRequestDiesInv ==
  ASSUME KeysInv, NEW r \in Request, KeyRequestDies(r)
  PROVE  KeysInv'
<1>a. KeysTypeOK /\ Rotating
  BY DEF KeysInv
<1>1. PICK k \in Key : request[r].key = k
  BY <1>a DEF KeyRequestDies, Rotating
<1>2. /\ broken' = IF request[r].at = "revoked" THEN broken \cup {k} ELSE broken
      /\ request' = [request EXCEPT ![r] = Idle]
      /\ UNCHANGED <<key, revoked, heirOf, again>>
  BY <1>1 DEF KeyRequestDies
<1>3. /\ request'[r] = Idle
      /\ \A s \in Request : s # r => request'[s] = request[s]
  BY <1>a, <1>2 DEF KeysTypeOK
<1>4. KeysTypeOK'
  <2>1. Idle \in Requests
    BY DEF Idle, Requests
  <2> QED
    BY <1>a, <1>2, <2>1 DEF KeysTypeOK
<1>5. Rotating'
  BY <1>a, <1>2, <1>3 DEF Rotating, Idle
<1>6. /\ \A s \in Request, j \in Key : Revoking(s, j)' <=> (Revoking(s, j) /\ s # r)
      /\ \A j \in Key : Heirs(j)' = Heirs(j)
      /\ \A j \in Key : Revoking(r, j) => j \in broken'
      /\ broken \subseteq broken'
  BY <1>1, <1>2, <1>3 DEF Revoking, Heirs, Idle
<1>7. OneHeir'
  BY <1>2, <1>6 DEF KeysInv, OneHeir
<1>8. OutForCause'
  BY <1>a, <1>2, <1>6 DEF KeysInv, OutForCause, LetsIn, KeysTypeOK
<1> QED
  BY <1>4, <1>5, <1>7, <1>8 DEF KeysInv

LEMMA KeysStep ==
  ASSUME KeysInv, [KeysNext]_keyVars
  PROVE  KeysInv'
<1>1. CASE UNCHANGED keyVars
  BY <1>1 DEF keyVars, KeysInv, KeysTypeOK, Rotating, OneHeir, OutForCause,
              Revoking, Heirs, LetsIn
<1>2. ASSUME NEW r \in Request, NEW k \in Key, CreateKey(r, k) \/ CreateHeir(r, k)
      PROVE  KeysInv'
  BY <1>2, CreateKeyInv, CreateHeirInv
<1>3. ASSUME NEW r \in Request, NEW k \in Key, NEW does \in {"rotate", "disable"},
             FindKey(r, k, does)
      PROVE  KeysInv'
  BY <1>3, FindKeyInv
<1>4. ASSUME NEW r \in Request, RevokeKey(r) \/ DisableKey(r) \/ KeyRequestDies(r)
      PROVE  KeysInv'
  BY <1>4, RevokeKeyInv, DisableKeyInv, KeyRequestDiesInv
<1> QED
  BY <1>1, <1>2, <1>3, <1>4 DEF KeysNext

-----------------------------------------------------------------------------
(* An invitation makes one member, unless it was crossed.                  *)
LEMMA MembersAre == AccountsInv => MembersExplained
<1> SUFFICES ASSUME AccountsInv PROVE MembersExplained
  OBVIOUS
<1>1. ASSUME NEW i \in Invite, i \notin crossed
      PROVE  Cardinality(joined[i]) \in {0, 1}
  <2>1. \A p, q \in joined[i] : p = q
    BY <1>1 DEF AccountsInv, OneJoins
  <2> QED
    BY <2>1, AtMostOne
<1>2. OneMemberEach
  BY <1>1 DEF OneMemberEach
<1> QED
  BY <1>2 DEF AccountsInv, MembersExplained

(* A run of the seed has every row behind it; what it has looked for in     *)
(* vain was made since, if at all, by a run it met.                        *)
Seeding ==
    /\ \A r \in Run, x \in Row : x < at[r] => x \in rows
    /\ \A x \in rows : \E r \in Run : at[r] > x
    /\ \A x \in FindFirst : x \in rows => made[x] # {}
    /\ \A x \in FindFirst : \A r \in made[x] : at[r] > x
    /\ used \subseteq rows

Meeting ==
    /\ \A r, s \in Run : UnderWay(r) /\ UnderWay(s) => r = s \/ {r, s} \in met
    /\ \A r \in missing : at[r] \in FindFirst
    /\ \A r \in missing \ dead : \A s \in made[at[r]] : {r, s} \in met

SeedInv == SeedTypeOK /\ Seeding /\ Meeting /\ DoublesAreExplained /\ ResetIsExplained

LEMMA FindFirstAre == FindFirst \subseteq Row /\ TestKey = 18 /\ TestKey \in FindFirst
BY DEF FindFirst, Routes, TestKey, Row

LEMMA SeedExplained == SeedInv => SeedIsExplained
<1> SUFFICES ASSUME SeedInv PROVE SeedIsExplained
  OBVIOUS
<1> USE DEF SeedInv
<1>1. RowsAreInOrder
  <2> SUFFICES ASSUME NEW x \in rows, NEW y \in 1..x PROVE y \in rows
    BY DEF RowsAreInOrder
  <2>1. PICK r \in Run : at[r] > x
    BY DEF Seeding
  <2>2. CASE y = x
    BY <2>2
  <2>3. CASE y # x
    BY <2>1, <2>3 DEF Seeding, SeedTypeOK, Row
  <2> QED
    BY <2>2, <2>3
<1>2. DoneIsAll
  <2>1. ASSUME NEW r \in Run, Done(r)
        PROVE  Row \subseteq rows
    BY <2>1 DEF Done, Seeding, Row
  <2> QED
    BY <2>1 DEF DoneIsAll, SeedTypeOK
<1>3. LostIsExplained
  <2> SUFFICES ASSUME SecretLost
               PROVE  \E r \in dead : r \in made[TestKey] /\ at[r] = 19
    BY DEF LostIsExplained
  <2>1. PICK r \in made[TestKey] : TRUE
    BY FindFirstAre DEF SecretLost, Seeding
  <2>2. r \in Run /\ at[r] > 18 /\ at[r] \in 0..20
    BY FindFirstAre DEF Seeding, SeedTypeOK
  <2>3. ~ Done(r) /\ ~ UnderWay(r)
    BY DEF SecretLost
  <2> QED
    BY <2>1, <2>2, <2>3 DEF Done, UnderWay
<1> QED
  BY <1>1, <1>2, <1>3 DEF SeedIsExplained

LEMMA SeedInitInv == SeedInit => SeedInv
<1> SUFFICES ASSUME SeedInit PROVE SeedInv
  OBVIOUS
<1> USE DEF SeedInit
<1>1. SeedTypeOK
  BY DEF SeedTypeOK
<1>2. Seeding
  BY DEF Seeding, Row
<1>3. Meeting
  BY DEF Meeting, UnderWay
<1>4. DoublesAreExplained /\ ResetIsExplained
  BY DEF DoublesAreExplained, ResetIsExplained
<1> QED
  BY <1>1, <1>2, <1>3, <1>4 DEF SeedInv

(* Runs go forward: what was explained by how far they were, still is.     *)
LEMMA Forward ==
  ASSUME SeedTypeOK, SeedTypeOK', Seeding, ResetIsExplained,
         \A r \in Run : at'[r] >= at[r], reset' = reset
  PROVE  /\ ResetIsExplained'
         /\ \A x \in rows : \E r \in Run : at'[r] > x
         /\ \A x \in FindFirst : \A r \in made[x] : at'[r] > x
<1>1. ASSUME NEW x \in Row, NEW r \in Run, at[r] > x
      PROVE  at'[r] > x
  <2>1. at[r] \in Int /\ at'[r] \in Int /\ x \in Int /\ at'[r] >= at[r]
    BY DEF SeedTypeOK, Row
  <2> QED
    BY <1>1, <2>1
<1>2. SetBack \subseteq Row
  BY DEF SetBack, Admin, Developer, Ownership, Wallet, Row
<1>3. ResetIsExplained'
  BY <1>1, <1>2 DEF ResetIsExplained, SeedTypeOK
<1>4. \A x \in rows : \E r \in Run : at'[r] > x
  BY <1>1 DEF Seeding, SeedTypeOK
<1>5. \A x \in FindFirst : \A r \in made[x] : at'[r] > x
  BY <1>1, FindFirstAre DEF Seeding, SeedTypeOK
<1> QED
  BY <1>3, <1>4, <1>5

(* A run starts: it has met whoever is under way.                          *)
LEMMA SeedStartsInv ==
  ASSUME SeedInv, NEW r \in Run, SeedStarts(r)
  PROVE  SeedInv'
<1> USE DEF SeedInv
<1>1. /\ at[r] = 0 /\ at' = [at EXCEPT ![r] = 1]
      /\ met' = met \cup {{r, s} : s \in {s \in Run : UnderWay(s)}}
      /\ UNCHANGED <<missing, made, rows, used, dead, reset>>
  BY DEF SeedStarts
<1>2. /\ at'[r] = 1
      /\ \A s \in Run : s # r => at'[s] = at[s]
  BY <1>1 DEF SeedTypeOK
<1>3. SeedTypeOK'
  BY <1>1 DEF SeedTypeOK
<1>4. Seeding'
  <2>1. \A s \in Run : at'[s] >= at[s]
    BY <1>1, <1>2 DEF SeedTypeOK
  <2>2. \A x \in Row : x < at'[r] => x \in rows
    BY <1>2 DEF Row
  <2> QED
    BY <1>1, <1>2, <1>3, <2>1, <2>2, Forward DEF Seeding
<1>5. Meeting'
  <2>1. ASSUME NEW s \in Run, NEW t \in Run, UnderWay(s)', UnderWay(t)', s # t
        PROVE  {s, t} \in met'
    <3>1. CASE s # r /\ t # r
      BY <1>1, <1>2, <2>1, <3>1 DEF Meeting, UnderWay
    <3>2. CASE s = r
      BY <1>1, <1>2, <2>1, <3>2 DEF UnderWay
    <3>3. CASE t = r
      <4>1. {r, s} \in met'
        BY <1>1, <1>2, <2>1, <3>3 DEF UnderWay
      <4> QED
        BY <3>3, <4>1
    <3> QED
      BY <3>1, <3>2, <3>3
  <2>2. \A s \in missing : s # r
    BY <1>1 DEF Meeting, FindFirst, Routes, TestKey
  <2> QED
    BY <1>1, <1>2, <2>1, <2>2 DEF Meeting, SeedTypeOK
<1>6. DoublesAreExplained'
  BY <1>1 DEF DoublesAreExplained
<1>7. ResetIsExplained'
  <2>1. \A s \in Run : at'[s] >= at[s]
    BY <1>1, <1>2 DEF SeedTypeOK
  <2> QED
    BY <1>1, <1>3, <2>1, Forward
<1> QED
  BY <1>3, <1>4, <1>5, <1>6, <1>7

(* A run writes the row it is at, whoever wrote it before, and goes on.    *)
LEMMA UpsertInv ==
  ASSUME SeedInv, NEW r \in Run, Upsert(r)
  PROVE  SeedInv'
<1> USE DEF SeedInv
<1>1. PICK x \in Row \ FindFirst : x = at[r]
  BY DEF Upsert
<1>2. /\ UnderWay(r) /\ rows' = rows \cup {x}
      /\ reset' = reset \cup (used \cap {x}) /\ used' = used \ {x}
      /\ at' = [at EXCEPT ![r] = x + 1]
      /\ UNCHANGED <<missing, made, dead, met>>
  BY <1>1 DEF Upsert
<1>3. /\ at'[r] = x + 1 /\ x \in 1..18
      /\ \A s \in Run : s # r => at'[s] = at[s]
  BY <1>2 DEF SeedTypeOK, Row
<1>4. SeedTypeOK'
  BY <1>2, <1>3 DEF SeedTypeOK
<1>5. \A s \in Run : at'[s] >= at[s]
  BY <1>1, <1>3 DEF SeedTypeOK
<1>6. \A y \in Row, s \in Run : at[s] > y => at'[s] > y
  BY <1>1, <1>3 DEF SeedTypeOK, Row
<1>7. Seeding'
  <2>1. ASSUME NEW s \in Run, NEW y \in Row, y < at'[s]
        PROVE  y \in rows'
    <3>1. CASE s = r
      <4>1. y = x \/ y < at[r]
        BY <1>1, <1>3, <2>1, <3>1 DEF Row
      <4> QED
        BY <1>2, <4>1 DEF Seeding
    <3>2. CASE s # r
      BY <1>2, <1>3, <2>1, <3>2 DEF Seeding
    <3> QED
      BY <3>1, <3>2
  <2>2. ASSUME NEW y \in rows'
        PROVE  \E s \in Run : at'[s] > y
    <3>1. CASE y = x
      BY <1>3, <3>1
    <3>2. CASE y # x
      BY <1>2, <1>6, <3>2 DEF Seeding, SeedTypeOK
    <3> QED
      BY <3>1, <3>2
  <2>3. \A y \in FindFirst : /\ y \in rows' => made'[y] # {}
                             /\ \A s \in made'[y] : at'[s] > y
    BY <1>2, <1>6, FindFirstAre DEF Seeding, SeedTypeOK
  <2>4. used' \subseteq rows'
    BY <1>2 DEF Seeding
  <2> QED
    BY <2>1, <2>2, <2>3, <2>4 DEF Seeding
<1>8. Meeting'
  <2>1. \A s \in Run : UnderWay(s)' => UnderWay(s)
    BY <1>2, <1>3 DEF UnderWay
  <2>2. r \notin missing
    BY <1>1 DEF Meeting
  <2> QED
    BY <1>2, <1>3, <2>1, <2>2 DEF Meeting, SeedTypeOK
<1>9. DoublesAreExplained'
  BY <1>2 DEF DoublesAreExplained
<1>10. ResetIsExplained'
  <2>1. ASSUME x \in used
        PROVE  \E s \in Run : s # r /\ at'[s] > x
    <3>1. PICK s \in Run : at[s] > x
      BY <2>1 DEF Seeding
    <3> QED
      BY <1>1, <1>3, <3>1
  <2>2. \A y \in reset : \E s, t \in Run : s # t /\ at'[s] > y /\ at'[t] > y
    <3>1. reset \subseteq Row
      BY DEF SeedTypeOK, SetBack, Admin, Developer, Ownership, Wallet, Row
    <3> QED
      BY <1>6, <3>1 DEF ResetIsExplained
  <2>3. at'[r] > x
    BY <1>3
  <2> QED
    BY <1>2, <2>1, <2>2, <2>3 DEF ResetIsExplained
<1> QED
  BY <1>4, <1>7, <1>8, <1>9, <1>10

(* What is found is passed; what is not there has been made by nobody.     *)
LEMMA FindInv ==
  ASSUME SeedInv, NEW r \in Run, Find(r)
  PROVE  SeedInv'
<1> USE DEF SeedInv
<1>1. PICK x \in FindFirst : x = at[r]
  BY DEF Find
<1>2. /\ UnderWay(r) /\ r \notin missing
      /\ UNCHANGED <<made, rows, used, dead, reset, met>>
  BY <1>1 DEF Find
<1>3. CASE x \in rows
  <2>1. at' = [at EXCEPT ![r] = x + 1] /\ missing' = missing
    BY <1>1, <1>3 DEF Find
  <2>2. /\ at'[r] = x + 1 /\ x \in 1..18
        /\ \A s \in Run : s # r => at'[s] = at[s]
    BY <2>1, FindFirstAre DEF SeedTypeOK, Row
  <2>3. SeedTypeOK'
    BY <1>2, <2>1, <2>2 DEF SeedTypeOK
  <2>4. \A s \in Run : at'[s] >= at[s]
    BY <1>1, <2>2 DEF SeedTypeOK
  <2>5. Seeding'
    <3>1. ASSUME NEW y \in Row, y < at'[r]
          PROVE  y \in rows
      <4>1. y = x \/ y < at[r]
        BY <1>1, <2>2, <3>1 DEF Row
      <4> QED
        BY <1>3, <4>1 DEF Seeding
    <3> QED
      BY <1>2, <2>2, <2>3, <2>4, <3>1, Forward DEF Seeding
  <2>6. Meeting'
    <3>1. \A s \in Run : UnderWay(s)' => UnderWay(s)
      BY <1>2, <2>2 DEF UnderWay
    <3> QED
      BY <1>2, <2>1, <2>2, <3>1 DEF Meeting, SeedTypeOK
  <2>7. DoublesAreExplained' /\ ResetIsExplained'
    BY <1>2, <2>3, <2>4, Forward DEF DoublesAreExplained
  <2> QED
    BY <2>3, <2>5, <2>6, <2>7
<1>4. CASE x \notin rows
  <2>1. missing' = missing \cup {r} /\ at' = at
    BY <1>1, <1>4 DEF Find
  <2>2. made[x] = {}
    <3>1. ASSUME NEW s \in made[x]
          PROVE  FALSE
      <4>1. s \in Run /\ at[s] > x
        BY <3>1 DEF Seeding, SeedTypeOK
      <4> QED
        BY <1>4, <4>1, FindFirstAre DEF Seeding
    <3> QED
      BY <3>1
  <2>3. SeedTypeOK' /\ Seeding'
    BY <1>2, <2>1 DEF SeedTypeOK, Seeding
  <2>4. Meeting'
    BY <1>1, <1>2, <2>1, <2>2 DEF Meeting, UnderWay
  <2>5. DoublesAreExplained' /\ ResetIsExplained'
    BY <1>2, <2>1 DEF DoublesAreExplained, ResetIsExplained
  <2> QED
    BY <2>3, <2>4, <2>5
<1> QED
  BY <1>3, <1>4

(* Whoever made the row since r looked for it, r has met; and r has met    *)
(* whoever has looked in vain and is under way.                            *)
LEMMA CreateInv ==
  ASSUME SeedInv, NEW r \in Run, Create(r)
  PROVE  SeedInv'
<1> USE DEF SeedInv
<1>1. PICK x \in FindFirst : x = at[r]
  BY DEF Create, Meeting
<1>2. /\ UnderWay(r) /\ r \in missing
      /\ made' = [made EXCEPT ![x] = @ \cup {r}]
      /\ rows' = rows \cup {x} /\ missing' = missing \ {r}
      /\ at' = [at EXCEPT ![r] = x + 1]
      /\ UNCHANGED <<used, dead, reset, met>>
  BY <1>1 DEF Create
<1>3. /\ at'[r] = x + 1 /\ x \in 1..18
      /\ \A s \in Run : s # r => at'[s] = at[s]
      /\ made'[x] = made[x] \cup {r}
      /\ \A y \in FindFirst : y # x => made'[y] = made[y]
  BY <1>2, FindFirstAre DEF SeedTypeOK, Row
<1>4. SeedTypeOK'
  BY <1>2, <1>3 DEF SeedTypeOK, Row
<1>5. \A s \in Run : at'[s] >= at[s]
  BY <1>1, <1>3 DEF SeedTypeOK
<1>6. /\ \A y \in rows : \E s \in Run : at'[s] > y
      /\ \A y \in FindFirst : \A s \in made[y] : at'[s] > y
      /\ ResetIsExplained'
  BY <1>2, <1>4, <1>5, Forward
<1>7. Seeding'
  <2>1. ASSUME NEW s \in Run, NEW y \in Row, y < at'[s]
        PROVE  y \in rows'
    <3>1. CASE s = r
      <4>1. y = x \/ y < at[r]
        BY <1>1, <1>3, <2>1, <3>1 DEF Row
      <4> QED
        BY <1>2, <4>1 DEF Seeding
    <3>2. CASE s # r
      BY <1>2, <1>3, <2>1, <3>2 DEF Seeding
    <3> QED
      BY <3>1, <3>2
  <2>2. at'[r] > x
    BY <1>3
  <2>3. \A y \in rows' : \E s \in Run : at'[s] > y
    BY <1>2, <1>6, <2>2
  <2>4. \A y \in FindFirst : /\ y \in rows' => made'[y] # {}
                             /\ \A s \in made'[y] : at'[s] > y
    BY <1>2, <1>3, <1>6, <2>2 DEF Seeding
  <2>5. used' \subseteq rows'
    BY <1>2 DEF Seeding
  <2> QED
    BY <2>1, <2>3, <2>4, <2>5 DEF Seeding
<1>8. Meeting'
  <2>1. \A s \in Run : UnderWay(s)' => UnderWay(s)
    BY <1>2, <1>3 DEF UnderWay
  <2>2. ASSUME NEW s \in missing' \ dead'
        PROVE  \A t \in made'[at'[s]] : {s, t} \in met'
    <3>1. s \in missing \ dead /\ s # r /\ s \in Run /\ at'[s] = at[s]
      BY <1>2, <1>3 DEF SeedTypeOK
    <3>2. at[s] \in FindFirst /\ \A t \in made[at[s]] : {s, t} \in met
      BY <3>1 DEF Meeting
    <3>3. UnderWay(s)
      BY <3>1, <3>2 DEF UnderWay, FindFirst, Routes, TestKey
    <3>4. {s, r} \in met
      BY <1>2, <3>1, <3>3 DEF Meeting
    <3> QED
      BY <1>2, <1>3, <3>1, <3>2, <3>4
  <2>3. \A s \in missing' : at'[s] \in FindFirst
    BY <1>2, <1>3 DEF Meeting, SeedTypeOK
  <2> QED
    BY <1>2, <2>1, <2>2, <2>3 DEF Meeting
<1>9. DoublesAreExplained'
  <2>1. \A s \in made[x] : {r, s} \in met /\ {s, r} \in met
    <3>1. \A s \in made[x] : {r, s} \in met
      BY <1>1, <1>2 DEF Meeting, UnderWay
    <3>2. \A s : {r, s} = {s, r}
      OBVIOUS
    <3> QED
      BY <3>1, <3>2
  <2> SUFFICES ASSUME NEW y \in FindFirst, NEW s \in made'[y], NEW t \in made'[y],
                      s # t
               PROVE  {s, t} \in met
    BY <1>2 DEF DoublesAreExplained
  <2>2. CASE y = x
    <3>1. CASE s = r
      BY <1>3, <2>1, <2>2, <3>1
    <3>2. CASE t = r
      BY <1>3, <2>1, <2>2, <3>2
    <3>3. CASE s # r /\ t # r
      BY <1>3, <2>2, <3>3 DEF DoublesAreExplained
    <3> QED
      BY <3>1, <3>2, <3>3
  <2>3. CASE y # x
    BY <1>3, <2>3 DEF DoublesAreExplained
  <2> QED
    BY <2>2, <2>3
<1> QED
  BY <1>4, <1>6, <1>7, <1>8, <1>9

(* Printing, dying, and the API: no row is made.                           *)
LEMMA OtherSeedInv ==
  ASSUME SeedInv,
         \/ \E r \in Run : Prints(r) \/ SeedDies(r)
         \/ \E x \in SetBack : InUse(x)
         \/ UNCHANGED seedVars
  PROVE  SeedInv'
<1> USE DEF SeedInv
<1>1. ASSUME NEW r \in Run, Prints(r)
      PROVE  SeedInv'
  <2>1. /\ at[r] = 19 /\ at' = [at EXCEPT ![r] = 20]
        /\ UNCHANGED <<missing, made, rows, used, dead, reset, met>>
    BY <1>1 DEF Prints
  <2>2. at'[r] = 20 /\ \A s \in Run : s # r => at'[s] = at[s]
    BY <2>1 DEF SeedTypeOK
  <2>3. SeedTypeOK'
    BY <2>1 DEF SeedTypeOK
  <2>4. \A s \in Run : at'[s] >= at[s]
    BY <2>1, <2>2 DEF SeedTypeOK
  <2>5. \A y \in Row : y \in rows
    BY <2>1 DEF Seeding, Row
  <2>6. Seeding' /\ ResetIsExplained'
    BY <2>1, <2>3, <2>4, <2>5, Forward DEF Seeding
  <2>7. Meeting'
    <3>1. r \notin missing
      BY <2>1 DEF Meeting, FindFirst, Routes, TestKey
    <3>2. \A s \in Run : UnderWay(s)' => UnderWay(s)
      BY <2>1, <2>2 DEF UnderWay
    <3> QED
      BY <2>1, <2>2, <3>1, <3>2 DEF Meeting, SeedTypeOK
  <2> QED
    BY <2>1, <2>3, <2>6, <2>7 DEF DoublesAreExplained
<1>2. ASSUME NEW r \in Run, SeedDies(r)
      PROVE  SeedInv'
  <2>1. /\ dead' = dead \cup {r}
        /\ UNCHANGED <<at, missing, made, rows, used, reset, met>>
    BY <1>2 DEF SeedDies
  <2>2. Meeting'
    BY <2>1 DEF Meeting, UnderWay
  <2> QED
    BY <2>1, <2>2
    DEF SeedTypeOK, Seeding, DoublesAreExplained, ResetIsExplained
<1>3. ASSUME NEW x \in SetBack, InUse(x)
      PROVE  SeedInv'
  BY <1>3
  DEF InUse, SeedTypeOK, Seeding, Meeting, UnderWay, DoublesAreExplained,
      ResetIsExplained
<1>4. CASE UNCHANGED seedVars
  BY <1>4
  DEF seedVars, SeedTypeOK, Seeding, Meeting, UnderWay, DoublesAreExplained,
      ResetIsExplained
<1> QED
  BY <1>1, <1>2, <1>3, <1>4

LEMMA SeedStep ==
  ASSUME SeedInv, [SeedNext]_seedVars
  PROVE  SeedInv'
BY SeedStartsInv, UpsertInv, FindInv, CreateInv, OtherSeedInv DEF SeedNext

-----------------------------------------------------------------------------
(* What is proved is the conjunction of what the two components keep.      *)
TenantsInv == AccountsInv /\ KeysInv /\ SeedInv

LEMMA TenantsInvariant == TenantsSpec => []TenantsInv
<1>1. TenantsInit => TenantsInv
  BY AccountsInitInv, KeysInitInv, SeedInitInv DEF TenantsInit, TenantsInv
<1>2. TenantsInv /\ [TenantsNext]_tenantVars => TenantsInv'
  <2> SUFFICES ASSUME TenantsInv, [TenantsNext]_tenantVars PROVE TenantsInv'
    OBVIOUS
  <2>1. [AccountsNext]_accountVars /\ [KeysNext]_keyVars /\ [SeedNext]_seedVars
    BY DEF TenantsNext, tenantVars
  <2> QED
    BY <2>1, AccountsStep, KeysStep, SeedStep DEF TenantsInv
<1> QED
  BY <1>1, <1>2, PTL DEF TenantsSpec

(* Every row of accounts and keys has its type: AuthService, OrgsService,  *)
(* InvitationsService, ProjectsService and ApiKeysService write nothing    *)
(* that the schema does not allow.                                         *)
THEOREM TenantsTypeCorrect == TenantsSpec => []TenantsTypeOK
<1>1. TenantsInv => TenantsTypeOK
  BY DEF TenantsInv, AccountsInv, KeysInv, SeedInv, TenantsTypeOK
<1> QED
  BY <1>1, TenantsInvariant, PTL

(* Whoever belongs to an organisation founded it or accepted an invitation *)
(* of it, in the role it named, and an invitation makes one member unless  *)
(* two requests read it open at once: register and accept, however their   *)
(* statements interleave and wherever a replica dies.                      *)
THEOREM Members == TenantsSpec => []MembersExplained
<1>1. TenantsInv => MembersExplained
  BY MembersAre DEF TenantsInv
<1> QED
  BY <1>1, TenantsInvariant, PTL

(* A rotated key never lets anybody in again, whatever disable writes over *)
(* it, and has an heir unless its rotation is under way or died; one heir, *)
(* unless it was rotated when it was out.                                  *)
THEOREM Keys == TenantsSpec => []KeysExplained
<1>1. TenantsInv => KeysExplained
  BY Explained DEF TenantsInv
<1> QED
  BY <1>1, TenantsInvariant, PTL

(* However often seed.ts is ended, started again and run over itself: rows *)
(* come after what they refer to, doubles only from runs that met, a test  *)
(* key whose secret is lost only from a run that was ended before printing *)
(* it, and what was changed in use is set back by a second run only.       *)
THEOREM Seeded == TenantsSpec => []SeedIsExplained
<1>1. TenantsInv => SeedIsExplained
  BY SeedExplained DEF TenantsInv
<1> QED
  BY <1>1, TenantsInvariant, PTL
=============================================================================
