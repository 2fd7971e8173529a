------------------------------ MODULE Accounts ------------------------------
(***************************************************************************)
(* Users, organisations and who belongs to which: register of              *)
(* auth.service.ts, orgs.service.ts and projects.service.ts.               *)
(*                                                                         *)
(* Registration creates the user, then the organisation with its owner,    *)
(* wallet and first project, then the tokens, in a statement each.         *)
(* Accepting an invitation reads it, and joins in one transaction that     *)
(* does not look at it again.  A person stands for an e-mail address, and  *)
(* an organisation for the person that founded it.                         *)
(***************************************************************************)
EXTENDS Naturals, FiniteSets

CONSTANTS
    Person,     \* the e-mail addresses
    Invite,     \* the invitations
    Form,       \* registration requests under way
    Acceptance, \* requests that accept an invitation
    Slug        \* the slugs of projects made later

VARIABLES
    user,       \* the persons with a User row
    founded,    \* founded[p]: how many organisations p owns by ownerId
    role,       \* role[o][p]: the Membership of p in o, "none" without one
    projects,   \* projects[o]: the slugs of o's projects
    form,       \* form[r]: how far a registration is
    invite,     \* the OrgInvite rows
    acceptance, \* acceptance[a]: the invitation a has found open
    half,       \* history: users whose registration died before the
                \* organisation
    joined,     \* history: joined[i]: who joined through i
    crossed     \* history: invitations two requests had found open at once

accountVars == <<user, founded, role, projects, form, invite, acceptance, half,
                 joined, crossed>>

orgVars == <<user, founded, role, projects>>
historyVars == <<half, joined, crossed>>

Nobody == "nobody"
NoInvite == "no invite"
DEFAULT == "default"

ASSUME NobodyAssumption == Nobody \notin Person
ASSUME NoInviteAssumption == NoInvite \notin Invite

Roles == {"OWNER", "DEVELOPER"}

Forms == [at : {"idle", "checked", "user", "org"}, who : Person \cup {Nobody}]

Invites == [at : {"none", "open", "over"}, org : Person \cup {Nobody}, role : Roles]

Acceptances == [of : Invite \cup {NoInvite}, who : Person \cup {Nobody}]

AccountsTypeOK ==
    /\ user \subseteq Person
    /\ founded \in [Person -> Nat]
    /\ role \in [Person -> [Person -> Roles \cup {"none"}]]
    /\ projects \in [Person -> SUBSET (Slug \cup {DEFAULT})]
    /\ form \in [Form -> Forms]
    /\ invite \in [Invite -> Invites]
    /\ acceptance \in [Acceptance -> Acceptances]
    /\ half \subseteq Person
    /\ joined \in [Invite -> SUBSET Person]
    /\ crossed \subseteq Invite

Blank == [at |-> "idle", who |-> Nobody]
NoRow == [at |-> "none", org |-> Nobody, role |-> "DEVELOPER"]
NoAcceptance == [of |-> NoInvite, who |-> Nobody]

AccountsInit ==
    /\ user = {}
    /\ founded = [p \in Person |-> 0]
    /\ role = [o \in Person |-> [p \in Person |-> "none"]]
    /\ projects = [o \in Person |-> {}]
    /\ form = [r \in Form |-> Blank]
    /\ invite = [i \in Invite |-> NoRow]
    /\ acceptance = [a \in Acceptance |-> NoAcceptance]
    /\ half = {}
    /\ joined = [i \in Invite |-> {}]
    /\ crossed = {}

-----------------------------------------------------------------------------
(* register: the address must be free ...                                  *)
CheckAddress(r, p) ==
    /\ form[r].at = "idle"
    /\ p \notin user
    /\ form' = [form EXCEPT ![r] = [at |-> "checked", who |-> p]]
    /\ UNCHANGED <<orgVars, invite, acceptance, historyVars>>

(* A variant with a bug: the address is not unique in the database.        *)
CreateUserTwice(r) ==
    LET p == form[r].who
    IN  /\ form[r].at = "checked"
        /\ form' = [form EXCEPT ![r].at = "user"]
        /\ user' = user \cup {p}
        /\ UNCHANGED <<founded, role, projects, invite, acceptance, historyVars>>

(* ... which the database decides: the second of two requests throws ...   *)
CreateUser(r) ==
    LET p == form[r].who
    IN  /\ form[r].at = "checked"
        /\ form' = [form EXCEPT ![r] = IF p \in user THEN Blank
                                       ELSE [@ EXCEPT !.at = "user"]]
        /\ user' = user \cup {p}
        /\ UNCHANGED <<founded, role, projects, invite, acceptance, historyVars>>

(* ... then the organisation, with all that belongs to it ...              *)
CreateOrg(r) ==
    LET p == form[r].who
    IN  /\ form[r].at = "user"
        /\ founded' = [founded EXCEPT ![p] = @ + 1]
        /\ role' = [role EXCEPT ![p][p] = "OWNER"]
        /\ projects' = [projects EXCEPT ![p] = {DEFAULT}]
        /\ form' = [form EXCEPT ![r].at = "org"]
        /\ UNCHANGED <<user, invite, acceptance, historyVars>>

(* ... and the tokens; Sessions has what they are good for.                *)
FormEnds(r) ==
    /\ form[r].at = "org"
    /\ form' = [form EXCEPT ![r] = Blank]
    /\ UNCHANGED <<orgVars, invite, acceptance, historyVars>>

(* The replica dies between two statements.  The address is taken by then: *)
(* the user can sign in, and belongs to no organisation.                   *)
FormDies(r) ==
    /\ form[r].at # "idle"
    /\ half' = IF form[r].at = "user" THEN half \cup {form[r].who} ELSE half
    /\ form' = [form EXCEPT ![r] = Blank]
    /\ UNCHANGED <<orgVars, invite, acceptance, joined, crossed>>

-----------------------------------------------------------------------------
(* invite.                                                                 *)
SendInvite(i, o, as) ==
    /\ invite[i].at = "none"
    /\ founded[o] > 0
    /\ invite' = [invite EXCEPT ![i] = [at |-> "open", org |-> o, role |-> as]]
    /\ UNCHANGED <<orgVars, form, acceptance, historyVars>>

InviteExpires(i) ==
    /\ invite[i].at = "open"
    /\ invite' = [invite EXCEPT ![i].at = "over"]
    /\ UNCHANGED <<orgVars, form, acceptance, historyVars>>

(* acceptInvite finds the invitation open ...                              *)
FindInvite(a, i, p) ==
    /\ acceptance[a] = NoAcceptance
    /\ p \in user
    /\ invite[i].at = "open"
    /\ acceptance' = [acceptance EXCEPT ![a] = [of |-> i, who |-> p]]
    /\ crossed' = IF \E b \in Acceptance : acceptance[b].of = i
                  THEN crossed \cup {i} ELSE crossed
    /\ UNCHANGED <<orgVars, form, invite, half, joined>>

(* A variant with a bug: the invitation is not marked.                     *)
JoinOnly(a) ==
    LET i == acceptance[a].of
        p == acceptance[a].who
    IN  /\ i # NoInvite
        /\ role' = [role EXCEPT ![invite[i].org][p] = invite[i].role]
        /\ joined' = [joined EXCEPT ![i] = @ \cup {p}]
        /\ acceptance' = [acceptance EXCEPT ![a] = NoAcceptance]
        /\ UNCHANGED <<user, founded, projects, form, invite, half, crossed>>

(* ... and joins, or changes the role of a member to that of the           *)
(* invitation, be it a lower one.                                          *)
Join(a) ==
    LET i == acceptance[a].of
        p == acceptance[a].who
    IN  /\ i # NoInvite
        /\ role' = [role EXCEPT ![invite[i].org][p] = invite[i].role]
        /\ invite' = [invite EXCEPT ![i].at = "over"]
        /\ joined' = [joined EXCEPT ![i] = @ \cup {p}]
        /\ acceptance' = [acceptance EXCEPT ![a] = NoAcceptance]
        /\ UNCHANGED <<user, founded, projects, form, half, crossed>>

AcceptanceDies(a) ==
    /\ acceptance[a] # NoAcceptance
    /\ acceptance' = [acceptance EXCEPT ![a] = NoAcceptance]
    /\ UNCHANGED <<orgVars, form, invite, historyVars>>

(* projects.create: the slug is unique in the organisation.                *)
CreateProject(o, s) ==
    /\ founded[o] > 0
    /\ s \notin projects[o]
    /\ projects' = [projects EXCEPT ![o] = @ \cup {s}]
    /\ UNCHANGED <<user, founded, role, form, invite, acceptance, historyVars>>

AccountsNext ==
    \/ \E r \in Form : \/ \E p \in Person : CheckAddress(r, p)
                       \/ CreateUser(r) \/ CreateOrg(r)
                       \/ FormEnds(r) \/ FormDies(r)
    \/ \E i \in Invite : \/ \E o \in Person, as \in Roles : SendInvite(i, o, as)
                         \/ InviteExpires(i)
    \/ \E a \in Acceptance :
        \/ \E i \in Invite, p \in Person : FindInvite(a, i, p)
        \/ Join(a) \/ AcceptanceDies(a)
    \/ \E o \in Person, s \in Slug : CreateProject(o, s)

AccountsSpec == AccountsInit /\ [][AccountsNext]_accountVars

-----------------------------------------------------------------------------
(* A user without an organisation of their own is being registered, or the *)
(* registration died; nobody has two, however often the form was sent.     *)
FounderIsExplained ==
    \A p \in Person :
        /\ founded[p] <= 1
        /\ (p \in user /\ founded[p] = 0)
             => p \in half \/ \E r \in Form : form[r].at = "user"
                                             /\ form[r].who = p

(* The invitations p has joined o by.                                      *)
Through(o, p) == {i \in Invite : invite[i].org = o /\ p \in joined[i]}

(* The founder is OWNER of the organisation, unless an invitation to it    *)
(* was accepted and gave another role.                                     *)
OwnerIsExplained ==
    \A o \in Person :
        (founded[o] > 0 /\ Through(o, o) = {}) => role[o][o] = "OWNER"

(* Every other member came by an invitation and has its role ...           *)
MemberIsExplained ==
    \A o, p \in Person :
        (o # p /\ role[o][p] # "none")
            => \E i \in Through(o, p) : invite[i].role = role[o][p]

(* ... and an invitation brings one member, unless two requests had found  *)
(* it open at the same time.                                               *)
OneMemberEach == \A i \in Invite : Cardinality(joined[i]) > 1 => i \in crossed

(* Nobody belongs to an organisation, or founded one, without a cause in   *)
(* the history of registrations and invitations.                           *)
MembersExplained ==
    /\ FounderIsExplained /\ OwnerIsExplained
    /\ MemberIsExplained /\ OneMemberEach
=============================================================================
