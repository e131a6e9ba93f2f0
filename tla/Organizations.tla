---------------------------- MODULE Organizations ---------------------------
(***************************************************************************)
(* Organizations, their members and invites: app/organizations/router.py.  *)
(* The slug of an organization, its members and the token of an invite are *)
(* unique in the database; whether an invite is still good is read once,   *)
(* and written with the membership at the end of the request.              *)
(***************************************************************************)
EXTENDS Accounts

CONSTANTS
  Invite,
  Admin  \* accounts that administer the whole system

\* The table has finitely many rows, so that some slug is always left.
ASSUME OrgAssumption == IsFiniteSet(Org) /\ Admin \subseteq User

VARIABLES
  orgs,     \* organizations: the number of the slug, and the role of every member
  invites   \* organization_invite, by invite

orgVars == <<orgs, invites>>

NoOrganization == [slug |-> 0, role |-> [u \in User |-> "none"]]
NoInvite == [org |-> NoOrg, role |-> "none", accepted |-> FALSE, revoked |-> FALSE, expired |-> FALSE]

Exists(o) == orgs[o].slug # 0
Member(o, u) == orgs[o].role[u] # "none"

\* Admins of an organization may do what its owners may; so may an administrator of the
\* system, without a membership.
is_org_admin(o, u) == Exists(o) /\ (orgs[o].role[u] = "owner" \/ (u \in Admin /\ ~Member(o, u)))

-----------------------------------------------------------------------------
(* Creating and switching.                                                 *)

\* The first number that makes the slug unused.
resolve_unique_slug ==
  CHOOSE n \in 1..(Cardinality(Org) + 1) :
    /\ \A o \in Org : orgs[o].slug # n
    /\ \A m \in 1..(n - 1) : \E o \in Org : orgs[o].slug = m

create_organization(p) ==
  /\ Room({o \in Org : ~Exists(o)}, "organization")
  /\ \E u \in User : Request(p, "org", u, "organization", {resolve_unique_slug})
  /\ UNCHANGED <<accountVars, history, orgVars>>

\* A row with the same slug that committed meanwhile makes the INSERT fail.
OrganizationCommits(p) ==
  LET u == req[p].user
  IN
  /\ At(p, "organization")
  /\ \E n \in req[p].arg, o \in Inserted({x \in Org : ~Exists(x)}) :
       IF \A x \in Org : orgs[x].slug # n
       THEN /\ orgs' = [orgs EXCEPT ![o] = [slug |-> n, role |-> [@.role EXCEPT ![u] = "owner"]]]
            /\ users' = [users EXCEPT ![u].org = IF req[p].saw.org = NoOrg THEN o ELSE @]
            /\ Cross(Late(p))
       ELSE UNCHANGED <<orgs, users, crossed>>
  /\ End(p) /\ UNCHANGED <<otp, nonce, cases, spent, again, invites, used>>

\* To an organization of the user, or to any by an administrator of the system.
switch_default_organization(p) ==
  /\ \E u \in User, o \in Org :
       /\ Member(o, u) \/ (u \in Admin /\ Exists(o))
       /\ Request(p, "org", u, "switch", {o})
  /\ UNCHANGED <<accountVars, history, orgVars>>

SwitchCommits(p) ==
  /\ At(p, "switch")
  /\ \E o \in req[p].arg :
       users' = [users EXCEPT ![req[p].user].org = IF req[p].saw.org = o THEN @ ELSE o]
  /\ Cross(Late(p))
  /\ End(p) /\ UNCHANGED <<otp, nonce, cases, spent, again, orgVars, used>>

-----------------------------------------------------------------------------
(* Invites.                                                                *)

create_invite(p) ==
  /\ Room({i \in Invite : invites[i] = NoInvite}, "invite")
  /\ \E u \in User, o \in Org, role \in {"owner", "member"} :
       is_org_admin(o, u) /\ Request(p, "org", u, "invite", {<<o, role>>})
  /\ UNCHANGED <<accountVars, history, orgVars>>

InviteCommits(p) ==
  /\ At(p, "invite")
  /\ \E x \in req[p].arg, i \in Inserted({j \in Invite : invites[j] = NoInvite}) :
       invites' = [invites EXCEPT ![i] = [NoInvite EXCEPT !.org = x[1], !.role = x[2]]]
  /\ End(p) /\ UNCHANGED <<accountVars, history, orgs, used>>

InviteExpires(i) ==
  /\ invites[i] # NoInvite /\ ~invites[i].expired
  /\ invites' = [invites EXCEPT ![i].expired = TRUE]
  /\ UNCHANGED <<accountVars, history, orgs, req, used>>

\* Mutant: an invite that was accepted may be accepted again.
MutRedeemable(i, u) ==
  /\ invites[i] # NoInvite
  /\ ~invites[i].revoked /\ ~invites[i].expired /\ ~Member(invites[i].org, u)
Redeemable(i, u) ==
  /\ invites[i] # NoInvite
  /\ ~invites[i].revoked /\ ~invites[i].accepted /\ ~invites[i].expired
  /\ ~Member(invites[i].org, u)

\* Another request has taken the invite since this one loaded it.
Overwrites(x) ==
  LET now == invites[x[1]]
  IN IF <<now.accepted, now.revoked>> # <<x[2].accepted, x[2].revoked>>
     THEN {<<"invite", x[1]>>} ELSE {}

accept_invite(p) ==
  /\ \E u \in User, i \in Invite : Redeemable(i, u) /\ Request(p, "org", u, "accept", {<<i, invites[i]>>})
  /\ UNCHANGED <<accountVars, history, orgVars>>

\* Membership, invite and default organization are written in one flush, which
\* fails when the user became a member meanwhile.
AcceptCommits(p) ==
  LET u == req[p].user
  IN
  /\ At(p, "accept")
  /\ \E x \in req[p].arg :
       LET i == x[1]
           o == invites[i].org
       IN IF Member(o, u) THEN UNCHANGED <<users, orgVars, history>>
          ELSE /\ orgs' = [orgs EXCEPT ![o].role[u] = invites[i].role]
               /\ invites' = [invites EXCEPT ![i].accepted = TRUE]
               /\ users' = [users EXCEPT ![u].org = IF req[p].saw.org = NoOrg THEN o ELSE @]
               /\ Take({<<"invite", i>>})
               /\ Cross(Late(p) \cup Overwrites(x))
  /\ End(p) /\ UNCHANGED <<otp, nonce, cases, used>>

\* A revoked invite is taken, so that nobody may accept it.
revoke_invite(p) ==
  /\ \E u \in User, i \in Invite :
       /\ invites[i] # NoInvite /\ is_org_admin(invites[i].org, u) /\ ~invites[i].accepted
       /\ Request(p, "org", u, "revoke", {<<i, invites[i]>>})
  /\ UNCHANGED <<accountVars, history, orgVars>>

RevokeCommits(p) ==
  /\ At(p, "revoke")
  /\ \E x \in req[p].arg :
       /\ invites' = [invites EXCEPT ![x[1]].revoked = TRUE]
       /\ IF invites[x[1]].revoked THEN UNCHANGED history
          ELSE Take({<<"invite", x[1]>>}) /\ Cross(Overwrites(x))
  /\ End(p) /\ UNCHANGED <<accountVars, orgs, used>>

-----------------------------------------------------------------------------
\* Mutant: the memberships stay.
MutEraseMemberships(u, records) == UNCHANGED orgs

\* The memberships among the rows that an erasure deletes.
EraseMemberships(u, records) ==
  orgs' = [o \in Org |-> IF <<"member", o>> \in records
                         THEN [orgs[o] EXCEPT !.role[u] = "none"] ELSE orgs[o]]

\* An organization with its owner (NoUser: one of the other accounts), or none, and an invite to it or none.
OrgInit ==
  /\ \E some \in {{}, {Fresh(Org)}}, u \in User \cup {NoUser} :
       orgs = [x \in Org |-> IF x \in some /\ used.lane = "org"
                             THEN [slug |-> 1, role |-> [v \in User |-> IF v = u THEN "owner" ELSE "none"]]
                             ELSE NoOrganization]
  /\ \E rows \in [Invite -> {NoInvite} \cup
                    {[NoInvite EXCEPT !.org = o, !.role = "member"] : o \in {x \in Org : Exists(x)}}] :
       invites = rows

OrgStarts(p) ==
  \/ create_organization(p) \/ switch_default_organization(p)
  \/ create_invite(p) \/ accept_invite(p) \/ revoke_invite(p)

OrgGoes(p) ==
  \/ OrganizationCommits(p) \/ SwitchCommits(p)
  \/ InviteCommits(p) \/ AcceptCommits(p) \/ RevokeCommits(p)

OrgNext ==
  \/ \E p \in Proc : OrgStarts(p) \/ OrgGoes(p)
  \/ \E i \in Invite : InviteExpires(i)
=============================================================================
