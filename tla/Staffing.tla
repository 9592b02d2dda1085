------------------------------ MODULE Staffing ------------------------------
(***************************************************************************)
(* One organisation and the people who run it: a request for it and its    *)
(* approval, the e-mailed invitations that are the only other way to a     *)
(* staff account, and the accounts that staff switch off or delete         *)
(* (organizations.py, invitations.py, auth.py, admin.py).                  *)
(*                                                                         *)
(* Every person of the model is an administrator; the role is a payload of *)
(* the invitation.  A request reads rows in one step and commits in a      *)
(* later one, and requests of a platform administrator and of the staff    *)
(* are in progress at the same time.                                       *)
(***************************************************************************)
EXTENDS Integers, Sequences, FiniteSets

CONSTANTS
    Request,  \* the requests that can be in progress together
    Person,   \* e-mail addresses
    Absent,   \* no such row
    Ttl,      \* INVITATION_TTL_HOURS
    Horizon,  \* bound: the time
    MaxCalls, \* bound: requests made
    MaxLinks  \* bound: invitations

ASSUME AbsentAssumption ==
    /\ Absent \notin {"pending", "active", "inactive", "rejected"}
    /\ Absent \notin [status : {"pending_approval", "active", "inactive"}, from : Nat]
ASSUME NumberAssumption == {Ttl, Horizon, MaxCalls, MaxLinks} \subseteq Nat

VARIABLES
    clock,
    org,         \* the status of the organisation
    user,        \* the row of users with an address
    invitations, \* the rows of staff_invitations, oldest first
    call,        \* what a request has loaded
    ghost        \* what the properties remember; no code reads it

vars == <<clock, org, user, invitations, call, ghost>>

Never == 0 - 1
Organization == {Absent, "pending", "active", "inactive", "rejected"}
(* from: the invitation an account was made by, 0 for the account that the *)
(* request for the organisation has made.                                  *)
User == [status : {"pending_approval", "active", "inactive"}, from : Nat]
Invitation == [email : Person, expires : Nat, sent : BOOLEAN,
               accepted : Int, revoked : Int]
Idle == [op |-> "idle"]
Loaded ==
    [op : {"approve", "reject"}]
    \cup [op : {"switch"}, to : {"active", "inactive"}]
    \cup [op : {"invite"}, email : Person, old : SUBSET Nat]
    \cup [op : {"mail", "revoke", "accept"}, link : Nat]
    \cup [op : {"toggle", "delete"}, by : Person, of : Person, row : User]

(* ghost: made is how many accounts each invitation has made; doubleLinks  *)
(* counts invitations made while another for the address was being made,   *)
(* conflicts decisions against one just taken, and mutual the removals by  *)
(* someone who was removed while that request was in progress.             *)
TypeOK ==
    /\ clock \in 0 .. Horizon
    /\ org \in Organization
    /\ user \in [Person -> User \cup {Absent}]
    /\ invitations \in Seq(Invitation)
    /\ call \in [Request -> {Idle} \cup Loaded]
    /\ ghost \in [calls : 0 .. MaxCalls, made : Seq(Nat), doubleLinks : Nat,
                  conflicts : Nat, mutual : Nat]

Init ==
    /\ clock = 0 /\ org = Absent
    /\ user = [p \in Person |-> Absent]
    /\ invitations = <<>>
    /\ call = [r \in Request |-> Idle]
    /\ ghost = [calls |-> 0, made |-> <<>>, doubleLinks |-> 0, conflicts |-> 0, mutual |-> 0]

----------------------------------------------------------------------------

Begin(r, l) ==
    /\ call[r] = Idle /\ ghost.calls < MaxCalls
    /\ call' = [call EXCEPT ![r] = l]
    /\ ghost' = [ghost EXCEPT !.calls = @ + 1]
    /\ UNCHANGED <<clock, org, user, invitations>>

Goto(r, l) == call' = [call EXCEPT ![r] = l]

(* load_user: an account that is not active is logged out.                 *)
Acting(p) == user[p] # Absent /\ user[p].status = "active"

(* request_organization: the pending organisation and the account of its   *)
(* administrator are one commit; the name and the address are unique.      *)
RequestOrganization(r, p) ==
    /\ org = Absent /\ user[p] = Absent
    /\ call[r] = Idle /\ ghost.calls < MaxCalls
    /\ org' = "pending"
    /\ user' = [user EXCEPT ![p] = [status |-> "pending_approval", from |-> 0]]
    /\ ghost' = [ghost EXCEPT !.calls = @ + 1]
    /\ UNCHANGED <<clock, invitations, call>>

CreateOrganization(r) ==
    /\ org = Absent
    /\ call[r] = Idle /\ ghost.calls < MaxCalls
    /\ org' \in {"active", "inactive"}
    /\ ghost' = [ghost EXCEPT !.calls = @ + 1]
    /\ UNCHANGED <<clock, user, invitations, call>>

(* approve_organization and reject_organization: only what is pending.     *)
LoadDecision(r, op) ==
    /\ org = "pending"
    /\ Begin(r, [op |-> op])

(* Mutant: the accounts are left as they are.                              *)
NobodyDecided(status) == user

(* The accounts that wait are looked up after the organisation is written. *)
Decided(status) ==
    [p \in Person |->
        IF user[p] # Absent /\ user[p].status = "pending_approval"
        THEN [user[p] EXCEPT !.status = status] ELSE user[p]]

CommitApproval(r) ==
    /\ call[r].op = "approve"
    /\ org' = "active"
    /\ user' = Decided("active")
    /\ Goto(r, Idle)
    /\ ghost' = IF org = "rejected" THEN [ghost EXCEPT !.conflicts = @ + 1] ELSE ghost
    /\ UNCHANGED <<clock, invitations>>

CommitRejection(r) ==
    /\ call[r].op = "reject"
    /\ org' = "rejected"
    /\ user' = Decided("inactive")
    /\ Goto(r, Idle)
    /\ ghost' = IF org \in {"active", "inactive"}
                THEN [ghost EXCEPT !.conflicts = @ + 1] ELSE ghost
    /\ UNCHANGED <<clock, invitations>>

(* toggle_organization_status and edit_organization; a status that stays   *)
(* the same, or one that only a decision may change, is not written.       *)
LoadSwitch(r, to) ==
    /\ org \in {"active", "inactive"} \ {to}
    /\ Begin(r, [op |-> "switch", to |-> to])

CommitSwitch(r) ==
    /\ call[r].op = "switch"
    /\ org' = call[r].to
    /\ Goto(r, Idle)
    /\ UNCHANGED <<clock, user, invitations, ghost>>

----------------------------------------------------------------------------

(* StaffInvitation.status, and its two readings of the expiry.             *)
Unused(i) == invitations[i].accepted = Never /\ invitations[i].revoked = Never
Pending(i) == Unused(i) /\ clock <= invitations[i].expires
Open(p) == {i \in DOMAIN invitations : invitations[i].email = p /\ Unused(i)}
Live(p) == {i \in Open(p) : clock <= invitations[i].expires}

(* create_invitation, to its checks.                                       *)
Invite(r, p) ==
    /\ org = "active" /\ user[p] = Absent
    /\ Begin(r, [op |-> "invite", email |-> p, old |-> Open(p)])

(* invite_staff is open to the organisation's administrators, and          *)
(* invite_org_admin to those of the platform.                              *)
InviteStaff(r, p) ==
    /\ \E q \in Person : Acting(q)
    /\ Invite(r, p)

InviteOrgAdmin(r, p) == Invite(r, p)

(* resend_invitation: any row that was not accepted, by an administrator.  *)
Resend(r, i) ==
    /\ \E p \in Person : Acting(p)
    /\ invitations[i].accepted = Never
    /\ Invite(r, invitations[i].email)

(* Mutant: the links that are open stay open.                              *)
KeptOpen(old) == invitations

Superseded(old) ==
    [i \in DOMAIN invitations |->
        IF i \in old THEN [invitations[i] EXCEPT !.revoked = clock] ELSE invitations[i]]

CommitInvite(r) ==
    LET l == call[r] IN
    /\ l.op = "invite" /\ Len(invitations) < MaxLinks
    /\ invitations' = Append(Superseded(l.old),
            [email |-> l.email, expires |-> clock + Ttl, sent |-> FALSE,
             accepted |-> Never, revoked |-> Never])
    /\ Goto(r, [op |-> "mail", link |-> Len(invitations) + 1])
    /\ ghost' = [ghost EXCEPT !.made = Append(@, 0),
                    !.doubleLinks = @ + Cardinality(Open(l.email) \ l.old)]
    /\ UNCHANGED <<clock, org, user>>

(* deliver: only the mail has the token; when it fails the row remains.    *)
Deliver(r) ==
    LET l == call[r] IN
    /\ l.op = "mail"
    /\ \/ invitations' = [invitations EXCEPT ![l.link].sent = TRUE]
       \/ UNCHANGED invitations
    /\ Goto(r, Idle)
    /\ UNCHANGED <<clock, org, user, ghost>>

LoadRevoke(r, i) ==
    /\ \E p \in Person : Acting(p)
    /\ Pending(i)
    /\ Begin(r, [op |-> "revoke", link |-> i])

CommitRevoke(r) ==
    LET l == call[r] IN
    /\ l.op = "revoke"
    /\ invitations' = [invitations EXCEPT ![l.link].revoked = clock]
    /\ Goto(r, Idle)
    /\ UNCHANGED <<clock, org, user, ghost>>

(* accept_invitation: find_open, with the form that is sent.               *)
FindOpen(r, i) ==
    /\ invitations[i].sent /\ Pending(i)
    /\ org = "active"
    /\ Begin(r, [op |-> "accept", link |-> i])

(* Mutant: the row is claimed as it was loaded.                            *)
ClaimedAsLoaded(i) == TRUE

(* accept: the claim is a conditional UPDATE.                              *)
Claimable(i) == Unused(i) /\ clock < invitations[i].expires

(* An account with the address rolls the claim back with all the rest.     *)
Accept(r) ==
    LET i == call[r].link
        p == invitations[i].email IN
    /\ call[r].op = "accept"
    /\ Claimable(i) /\ user[p] = Absent
    /\ invitations' = [invitations EXCEPT ![i].accepted = clock]
    /\ user' = [user EXCEPT ![p] = [status |-> "active", from |-> i]]
    /\ Goto(r, Idle)
    /\ ghost' = [ghost EXCEPT !.made[i] = @ + 1]
    /\ UNCHANGED <<clock, org>>

----------------------------------------------------------------------------

(* Mutant: one may switch off one's own account.                           *)
AnyOf(p, q) == TRUE

SomebodyElse(p, q) == p # q

(* toggle_user_status and delete_user, of a colleague (one with exams or   *)
(* tests on record is not deleted, nor one the database still refers to).  *)
LoadRemoval(r, op, p, q) ==
    /\ Acting(p) /\ user[q] # Absent /\ SomebodyElse(p, q)
    /\ Begin(r, [op |-> op, by |-> p, of |-> q, row |-> user[q]])

Flipped(status) == IF status = "active" THEN "inactive" ELSE "active"

(* The row is still the one loaded: an UPDATE of one that is gone fails,   *)
(* and a DELETE of it changes nothing.                                     *)
SameRow(l) == user[l.of] # Absent /\ user[l.of].from = l.row.from

Removed(l) == IF Acting(l.by) THEN ghost ELSE [ghost EXCEPT !.mutual = @ + 1]

Toggle(r) ==
    LET l == call[r] IN
    /\ l.op = "toggle" /\ SameRow(l)
    /\ user' = [user EXCEPT ![l.of].status = Flipped(l.row.status)]
    /\ Goto(r, Idle)
    /\ ghost' = Removed(l)
    /\ UNCHANGED <<clock, org, invitations>>

Delete(r) ==
    LET l == call[r] IN
    /\ l.op = "delete" /\ SameRow(l)
    /\ user' = [user EXCEPT ![l.of] = Absent]
    /\ Goto(r, Idle)
    /\ ghost' = Removed(l)
    /\ UNCHANGED <<clock, org, invitations>>

(* A check or a row that is gone fails the request, or its worker dies.    *)
GiveUp(r) ==
    /\ call[r] # Idle
    /\ Goto(r, Idle)
    /\ UNCHANGED <<clock, org, user, invitations, ghost>>

Tick ==
    /\ clock < Horizon
    /\ clock' = clock + 1
    /\ UNCHANGED <<org, user, invitations, call, ghost>>

Organise(r) ==
    \/ \E p \in Person : RequestOrganization(r, p)
    \/ CreateOrganization(r)
    \/ \E op \in {"approve", "reject"} : LoadDecision(r, op)
    \/ CommitApproval(r) \/ CommitRejection(r)
    \/ \E to \in {"active", "inactive"} : LoadSwitch(r, to)
    \/ CommitSwitch(r)

Link(r) ==
    \/ \E p \in Person : InviteStaff(r, p) \/ InviteOrgAdmin(r, p)
    \/ \E i \in DOMAIN invitations : Resend(r, i) \/ LoadRevoke(r, i) \/ FindOpen(r, i)
    \/ CommitInvite(r) \/ Deliver(r) \/ CommitRevoke(r) \/ Accept(r)

Remove(r) ==
    \/ \E op \in {"toggle", "delete"}, p \in Person, q \in Person : LoadRemoval(r, op, p, q)
    \/ Toggle(r) \/ Delete(r)

Next ==
    \/ \E r \in Request : Organise(r) \/ Link(r) \/ Remove(r) \/ GiveUp(r)
    \/ Tick

Spec == Init /\ [][Next]_vars

----------------------------------------------------------------------------

(* A link makes one account or none, and it is used up exactly when it has *)
(* made one, whatever two openings of it, a revocation and a newer link    *)
(* for the same address do to each other.                                  *)
LinksWorkOnce ==
    \A i \in DOMAIN invitations :
        ghost.made[i] = IF invitations[i].accepted = Never THEN 0 ELSE 1

(* create_invitation's promise, "never more than one live link per         *)
(* person": it holds as far as two invitations of the same person are not  *)
(* created at the same time, each before it sees the other.                *)
OneLiveLink == \A p \in Person : Cardinality(Live(p)) <= 1 + ghost.doubleLinks

(* What was decided about a requested organisation and what its accounts   *)
(* may do agree: nobody is active before the approval or after a           *)
(* rejection, nobody waits after it.  A decision against another one that  *)
(* is being taken at the same time is the exception.                       *)
DecisionStands ==
    ghost.conflicts = 0 =>
        \A p \in Person : user[p] # Absent =>
            /\ org = "pending" => user[p].status = "pending_approval"
            /\ org = "rejected" => user[p].status = "inactive"
            /\ org \in {"active", "inactive"} => user[p].status # "pending_approval"

(* Nobody can switch off or delete one's own account, so an organisation   *)
(* that was given an active administrator keeps one, unless two of them    *)
(* remove each other at the same time.                                     *)
SomebodyIsLeft ==
    /\ ghost.mutual = 0 /\ ghost.conflicts = 0
    /\ \E p \in Person : user[p] # Absent /\ org \in {"active", "inactive"}
    => \E p \in Person : Acting(p)
=============================================================================
