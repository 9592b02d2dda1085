-------------------------- MODULE Staffing_proofs --------------------------
(* Proofs about Staffing, for any requests, persons and bounds.            *)
EXTENDS Staffing, FiniteSetTheorems, SequenceTheorems, TLAPS

(* What a request holds on to: a link that exists, and two persons.        *)
Holding ==
    \A r \in Request :
        /\ call[r].op \in {"mail", "revoke", "accept"} => call[r].link \in DOMAIN invitations
        /\ call[r].op \in {"toggle", "delete"} => call[r].by # call[r].of

Counting ==
    /\ DOMAIN ghost.made = DOMAIN invitations
    /\ LinksWorkOnce

IsDecided == org \in {"active", "inactive"}

(* Before the organisation there is nothing; and, as long as no decision   *)
(* has met another, only a decided organisation has requests under way     *)
(* that can write accounts or the organisation, other than decisions.      *)
Deciding ==
    /\ org = Absent => (\A p \in Person : user[p] = Absent) /\ (\A r \in Request : call[r] = Idle)
    /\ DecisionStands
    /\ ghost.conflicts = 0 =>
           \A r \in Request :
               call[r].op \in {"switch", "toggle", "delete", "accept"} => IsDecided

Links == \A p \in Person : Cardinality(Open(p)) <= 1 + ghost.doubleLinks

IInv == TypeOK /\ Holding /\ Counting /\ Deciding /\ SomebodyIsLeft /\ Links

----------------------------------------------------------------------------

(* What the fields of a request's record are, by its op.                   *)
LEMMA Fields ==
    ASSUME NEW l \in {Idle} \cup Loaded
    PROVE  /\ l.op = "switch" => l.to \in {"active", "inactive"}
           /\ l.op = "invite" => l.email \in Person
           /\ l.op \in {"mail", "revoke", "accept"} => l.link \in Nat
           /\ l.op \in {"toggle", "delete"} => l.by \in Person /\ l.of \in Person /\ l.row \in User
           /\ l.op = "idle" <=> l = Idle
<1>1. CASE l = Idle
  BY <1>1 DEF Idle
<1>2. CASE l \in [op : {"approve", "reject"}]
  BY <1>2 DEF Idle
<1>3. CASE l \in [op : {"switch"}, to : {"active", "inactive"}]
  BY <1>3 DEF Idle
<1>4. CASE l \in [op : {"invite"}, email : Person, old : SUBSET Nat]
  BY <1>4 DEF Idle
<1>5. CASE l \in [op : {"mail", "revoke", "accept"}, link : Nat]
  BY <1>5 DEF Idle
<1>6. CASE l \in [op : {"toggle", "delete"}, by : Person, of : Person, row : User]
  BY <1>6 DEF Idle
<1>7. QED
  BY <1>1, <1>2, <1>3, <1>4, <1>5, <1>6 DEF Loaded

(* How many links are open only depends on the rows.                       *)
LEMMA FewOpen ==
    ASSUME TypeOK, NEW p \in Person
    PROVE  IsFiniteSet(Open(p)) /\ Cardinality(Open(p)) \in Nat
<1>1. DOMAIN invitations = 1 .. Len(invitations) /\ Len(invitations) \in Nat
  BY DEF TypeOK
<1>2. IsFiniteSet(DOMAIN invitations)
  BY <1>1, FS_Interval
<1>3. Open(p) \subseteq DOMAIN invitations
  BY DEF Open
<1>4. QED
  BY <1>2, <1>3, FS_Subset, FS_CardinalityType

(* Where no link that was closed is opened again, the count still holds.   *)
LEMMA FewerOpen ==
    ASSUME IInv, invitations' \in Seq(Invitation), ghost'.doubleLinks = ghost.doubleLinks,
           \A p \in Person : Open(p)' \subseteq Open(p)
    PROVE  Links'
<1>1. SUFFICES ASSUME NEW p \in Person
               PROVE  Cardinality(Open(p)') <= 1 + ghost.doubleLinks
  BY DEF Links
<1>2. IsFiniteSet(Open(p)) /\ Cardinality(Open(p)) \in Nat
  BY FewOpen DEF IInv
<1>3. Cardinality(Open(p)') <= Cardinality(Open(p)) /\ Cardinality(Open(p)') \in Nat
  BY <1>2, FS_Subset, FS_CardinalityType
<1>4. Cardinality(Open(p)) <= 1 + ghost.doubleLinks /\ ghost.doubleLinks \in Nat
  BY DEF IInv, Links, TypeOK
<1>5. QED
  BY <1>2, <1>3, <1>4

----------------------------------------------------------------------------

LEMMA Start == Init => IInv
<1> SUFFICES ASSUME Init PROVE IInv
  OBVIOUS
<1>2. TypeOK
  <2>1. call \in [Request -> {Idle} \cup Loaded]
    BY DEF Init
  <2>2. ghost \in [calls : 0 .. MaxCalls, made : Seq(Nat), doubleLinks : Nat,
                   conflicts : Nat, mutual : Nat]
    BY NumberAssumption DEF Init
  <2>3. invitations \in Seq(Invitation) /\ user \in [Person -> User \cup {Absent}]
    BY DEF Init
  <2>4. QED
    BY NumberAssumption, <2>1, <2>2, <2>3 DEF Init, TypeOK, Organization
<1>3. Holding /\ Counting
  BY DEF Init, Holding, Counting, LinksWorkOnce, Idle
<1>4. Deciding /\ SomebodyIsLeft
  BY DEF Init, Deciding, DecisionStands, SomebodyIsLeft, Idle
<1>5. Links
  <2>1. \A p \in Person : Open(p) = {}
    BY DEF Init, Open
  <2>2. Cardinality({}) = 0
    BY FS_EmptySet
  <2>3. ghost.doubleLinks = 0
    BY DEF Init
  <2>4. QED
    BY <2>1, <2>2, <2>3 DEF Links
<1>6. QED
  BY <1>2, <1>3, <1>4, <1>5 DEF IInv

(* A request that has only looked things up.                               *)
LEMMA Beginning ==
    ASSUME IInv, NEW r \in Request, NEW l \in Loaded, Begin(r, l),
           l.op \in {"mail", "revoke", "accept"} => l.link \in DOMAIN invitations,
           l.op \in {"toggle", "delete"} => l.by # l.of,
           org # Absent,
           ghost.conflicts = 0 /\ l.op \in {"switch", "toggle", "delete", "accept"} => IsDecided
    PROVE  IInv'
<1>1. call' = [call EXCEPT ![r] = l] /\ UNCHANGED <<clock, org, user, invitations>>
      /\ ghost' = [ghost EXCEPT !.calls = @ + 1] /\ ghost.calls < MaxCalls
  BY DEF Begin
<1>2. /\ ghost'.made = ghost.made /\ ghost'.doubleLinks = ghost.doubleLinks
      /\ ghost'.conflicts = ghost.conflicts /\ ghost'.mutual = ghost.mutual
  BY <1>1 DEF IInv, TypeOK
<1>3. TypeOK'
  <2>1. call' \in [Request -> {Idle} \cup Loaded]
    BY <1>1 DEF IInv, TypeOK
  <2>2. ghost.calls + 1 \in 0 .. MaxCalls
    BY <1>1, NumberAssumption DEF IInv, TypeOK
  <2>3. ghost' \in [calls : 0 .. MaxCalls, made : Seq(Nat), doubleLinks : Nat,
                    conflicts : Nat, mutual : Nat]
    BY <1>1, <2>2 DEF IInv, TypeOK
  <2>4. QED
    BY <1>1, <2>1, <2>3 DEF IInv, TypeOK
<1>4. \A q \in Request : call'[q] = IF q = r THEN l ELSE call[q]
  BY <1>1 DEF IInv, TypeOK
<1>5. Holding'
  BY <1>1, <1>4 DEF IInv, Holding
<1>6. Counting'
  BY <1>1, <1>2 DEF IInv, Counting, LinksWorkOnce
<1>7. Deciding'
  BY <1>1, <1>2, <1>4 DEF IInv, Deciding, DecisionStands, IsDecided
<1>8. SomebodyIsLeft'
  BY <1>1, <1>2 DEF IInv, SomebodyIsLeft, Acting
<1>9. Links'
  BY <1>1, <1>2 DEF IInv, Links, Open, Unused
<1>10. QED
  BY <1>3, <1>5, <1>6, <1>7, <1>8, <1>9 DEF IInv

(* Every other request ends in its step, or goes on to mail a link.        *)
Ends(r) == \A q \in Request : call'[q] = IF q = r THEN Idle ELSE call[q]

LEMMA Ending ==
    ASSUME IInv, NEW r \in Request, Goto(r, Idle)
    PROVE  Ends(r) /\ call' \in [Request -> {Idle} \cup Loaded]
BY DEF IInv, TypeOK, Goto, Ends

(* A step that leaves the links alone.                                     *)
LEMMA RowsKept ==
    ASSUME IInv, UNCHANGED invitations,
           ghost'.made = ghost.made, ghost'.doubleLinks = ghost.doubleLinks,
           \A q \in Request : call'[q] \in {call[q], Idle}
    PROVE  Holding' /\ Counting' /\ Links'
<1>1. Holding'
  BY DEF IInv, Holding, Idle
<1>2. Counting'
  BY DEF IInv, Counting, LinksWorkOnce
<1>3. Links'
  BY DEF IInv, Links, Open, Unused
<1>4. QED
  BY <1>1, <1>2, <1>3

(* A step that leaves the organisation and its people alone.               *)
LEMMA PeopleKept ==
    ASSUME IInv, UNCHANGED <<org, user>>,
           ghost'.conflicts = ghost.conflicts, ghost'.mutual = ghost.mutual,
           \A q \in Request : call'[q] \in {call[q], Idle} \/ (org # Absent /\ call'[q].op = "mail")
    PROVE  Deciding' /\ SomebodyIsLeft'
<1>1. Deciding'
  BY DEF IInv, Deciding, DecisionStands, IsDecided, Idle
<1>2. SomebodyIsLeft'
  BY DEF IInv, SomebodyIsLeft, Acting
<1>3. QED
  BY <1>1, <1>2

----------------------------------------------------------------------------

LEMMA FoundStep ==
    ASSUME IInv, NEW r \in Request,
           (\E p \in Person : RequestOrganization(r, p)) \/ CreateOrganization(r)
    PROVE  IInv'
<1>1. /\ org = Absent /\ org' \in {"pending", "active", "inactive"}
      /\ UNCHANGED <<clock, invitations, call>>
      /\ ghost' = [ghost EXCEPT !.calls = @ + 1] /\ ghost.calls < MaxCalls
  BY DEF RequestOrganization, CreateOrganization
<1>2. /\ ghost'.made = ghost.made /\ ghost'.doubleLinks = ghost.doubleLinks
      /\ ghost'.conflicts = ghost.conflicts /\ ghost'.mutual = ghost.mutual
  BY <1>1 DEF IInv, TypeOK
<1>3. (\A p \in Person : user[p] = Absent) /\ (\A q \in Request : call[q] = Idle)
  BY <1>1 DEF IInv, Deciding
<1>4. /\ user' \in [Person -> User \cup {Absent}]
      /\ \/ org' = "pending"
            /\ \A p \in Person : user'[p] # Absent => user'[p].status = "pending_approval"
         \/ org' # "pending" /\ \A p \in Person : user'[p] = Absent
  <2>1. CASE CreateOrganization(r)
    BY <2>1, <1>3, <1>1 DEF CreateOrganization, IInv, TypeOK
  <2>2. ASSUME NEW p \in Person, RequestOrganization(r, p)
        PROVE  <1>4!1 /\ org' = "pending"
               /\ \A q \in Person : user'[q] # Absent => user'[q].status = "pending_approval"
    BY <2>2, <1>3 DEF RequestOrganization, IInv, TypeOK, User
  <2>3. QED
    BY <2>1, <2>2
<1>5. TypeOK'
  <2>1. ghost.calls + 1 \in 0 .. MaxCalls
    BY <1>1, NumberAssumption DEF IInv, TypeOK
  <2>2. ghost' \in [calls : 0 .. MaxCalls, made : Seq(Nat), doubleLinks : Nat,
                    conflicts : Nat, mutual : Nat]
    BY <1>1, <2>1 DEF IInv, TypeOK
  <2>3. QED
    BY <1>1, <1>4, <2>2 DEF IInv, TypeOK, Organization
<1>6. Holding' /\ Counting' /\ Links'
  BY <1>1, <1>2, RowsKept
<1>7. Deciding' /\ SomebodyIsLeft'
  BY <1>1, <1>3, <1>4, AbsentAssumption
  DEF IInv, Deciding, DecisionStands, IsDecided, SomebodyIsLeft, Idle
<1>8. QED
  BY <1>5, <1>6, <1>7 DEF IInv

LEMMA LoadStep ==
    ASSUME IInv, NEW r \in Request,
           \/ \E op \in {"approve", "reject"} : LoadDecision(r, op)
           \/ \E to \in {"active", "inactive"} : LoadSwitch(r, to)
           \/ \E p \in Person : InviteStaff(r, p) \/ InviteOrgAdmin(r, p)
           \/ \E i \in DOMAIN invitations : Resend(r, i) \/ LoadRevoke(r, i) \/ FindOpen(r, i)
           \/ \E op \in {"toggle", "delete"}, p \in Person, q \in Person : LoadRemoval(r, op, p, q)
    PROVE  IInv'
<1>1. ASSUME NEW op \in {"approve", "reject"}, LoadDecision(r, op) PROVE IInv'
  <2>1. [op |-> op] \in Loaded
    BY DEF Loaded
  <2>2. QED
    BY <1>1, <2>1, Beginning, AbsentAssumption DEF LoadDecision
<1>2. ASSUME NEW to \in {"active", "inactive"}, LoadSwitch(r, to) PROVE IInv'
  <2>1. [op |-> "switch", to |-> to] \in Loaded
    BY DEF Loaded
  <2>2. QED
    BY <1>2, <2>1, Beginning, AbsentAssumption DEF LoadSwitch, IsDecided
<1>3. ASSUME NEW p \in Person, Invite(r, p) PROVE IInv'
  <2>1. DOMAIN invitations \in SUBSET Nat
    BY DEF IInv, TypeOK
  <2>2. Open(p) \in SUBSET Nat
    BY <2>1 DEF Open
  <2>3. [op |-> "invite", email |-> p, old |-> Open(p)] \in Loaded
    BY <2>2 DEF Loaded
  <2>4. QED
    BY <1>3, <2>3, Beginning, AbsentAssumption DEF Invite
<1>4. ASSUME NEW i \in DOMAIN invitations, Resend(r, i) PROVE IInv'
  <2>1. invitations[i] \in Invitation
    BY DEF IInv, TypeOK
  <2>2. invitations[i].email \in Person
    BY <2>1 DEF Invitation
  <2>3. QED
    BY <1>3, <1>4, <2>2 DEF Resend
<1>5. ASSUME NEW i \in DOMAIN invitations, LoadRevoke(r, i) PROVE IInv'
  <2>1. [op |-> "revoke", link |-> i] \in Loaded
    BY DEF Loaded, IInv, TypeOK
  <2>2. org # Absent
    BY <1>5 DEF LoadRevoke, Acting, IInv, Deciding
  <2>3. QED
    BY <1>5, <2>1, <2>2, Beginning DEF LoadRevoke
<1>6. ASSUME NEW i \in DOMAIN invitations, FindOpen(r, i) PROVE IInv'
  <2>1. [op |-> "accept", link |-> i] \in Loaded
    BY DEF Loaded, IInv, TypeOK
  <2>2. QED
    BY <1>6, <2>1, Beginning, AbsentAssumption DEF FindOpen, IsDecided
<1>7. ASSUME NEW op \in {"toggle", "delete"}, NEW p \in Person, NEW q \in Person,
             LoadRemoval(r, op, p, q)
      PROVE  IInv'
  <2>1. user[q] \in User
    BY <1>7 DEF LoadRemoval, IInv, TypeOK
  <2>2. [op |-> op, by |-> p, of |-> q, row |-> user[q]] \in Loaded
    BY <2>1 DEF Loaded
  <2>3. org # Absent /\ (ghost.conflicts = 0 => IsDecided)
    BY <1>7 DEF LoadRemoval, Acting, IInv, Deciding, DecisionStands, IsDecided, TypeOK, Organization
  <2>4. QED
    BY <1>7, <2>2, <2>3, Beginning DEF LoadRemoval, SomebodyElse
<1>8. QED
  BY <1>1, <1>2, <1>3, <1>4, <1>5, <1>6, <1>7 DEF InviteStaff, InviteOrgAdmin

----------------------------------------------------------------------------

LEMMA DecidedRows ==
    ASSUME TypeOK, NEW status \in {"active", "inactive"}, user' = Decided(status)
    PROVE  /\ user' \in [Person -> User \cup {Absent}]
           /\ \A p \in Person :
                  /\ user'[p] = Absent <=> user[p] = Absent
                  /\ user[p] # Absent =>
                        user'[p].status = IF user[p].status = "pending_approval"
                                          THEN status ELSE user[p].status
<1>1. \A p \in Person : user[p] = Absent \/ user[p] \in User
  BY DEF TypeOK
<1>2. \A u \in User : [u EXCEPT !.status = status] \in User
                     /\ [u EXCEPT !.status = status].status = status
  BY DEF User
<1>3. Absent \notin User
  BY AbsentAssumption DEF User
<1>4. QED
  BY <1>1, <1>2, <1>3 DEF Decided, TypeOK

LEMMA DecisionStep ==
    ASSUME IInv, NEW r \in Request,
           CommitApproval(r) \/ CommitRejection(r) \/ CommitSwitch(r)
    PROVE  IInv'
<1>1. Goto(r, Idle) /\ UNCHANGED <<clock, invitations>> /\ call[r].op # "idle"
  BY DEF CommitApproval, CommitRejection, CommitSwitch
<1>2. org # Absent
  BY <1>1 DEF IInv, Deciding, Idle
<1>3. Ends(r) /\ call' \in [Request -> {Idle} \cup Loaded]
  BY <1>1, Ending
<1>4. /\ ghost' \in [calls : 0 .. MaxCalls, made : Seq(Nat), doubleLinks : Nat,
                     conflicts : Nat, mutual : Nat]
      /\ ghost'.made = ghost.made /\ ghost'.doubleLinks = ghost.doubleLinks
      /\ ghost'.mutual = ghost.mutual
      /\ ghost'.conflicts = 0 => ghost' = ghost
  <2>1. ghost' = ghost \/ ghost' = [ghost EXCEPT !.conflicts = @ + 1]
    BY DEF CommitApproval, CommitRejection, CommitSwitch
  <2>2. ghost.conflicts + 1 \in Nat /\ ghost.conflicts + 1 # 0
    BY DEF IInv, TypeOK
  <2>3. QED
    BY <2>1, <2>2 DEF IInv, TypeOK
<1>5. Holding' /\ Counting' /\ Links'
  BY <1>1, <1>3, <1>4, RowsKept DEF Ends
<1>6. TypeOK
  BY DEF IInv
<1>7. CASE CommitApproval(r)
  <2>1. org' = "active" /\ user' = Decided("active")
        /\ (ghost'.conflicts = 0 => ghost.conflicts = 0 /\ org # "rejected")
    <3>1. ghost.conflicts \in Nat /\ [ghost EXCEPT !.conflicts = @ + 1].conflicts = ghost.conflicts + 1
      BY DEF IInv, TypeOK
    <3>2. QED
      BY <1>7, <3>1 DEF CommitApproval
  <2>2. /\ user' \in [Person -> User \cup {Absent}]
        /\ \A p \in Person :
               /\ user'[p] = Absent <=> user[p] = Absent
               /\ user[p] # Absent =>
                     user'[p].status = IF user[p].status = "pending_approval"
                                       THEN "active" ELSE user[p].status
    BY <1>6, <2>1, DecidedRows
  <2>3. TypeOK'
    BY <1>1, <1>3, <1>4, <2>1, <2>2 DEF IInv, TypeOK, Organization
  <2>4. ghost'.conflicts = 0 => org \in {"pending", "active", "inactive"}
    BY <1>2, <2>1 DEF IInv, TypeOK, Organization
  <2>5. Deciding'
    <3>1. DecisionStands'
      BY <2>1, <2>4, <2>2 DEF IInv, Deciding, DecisionStands
    <3>2. QED
      BY <2>1, <3>1, AbsentAssumption DEF Deciding, IsDecided
  <2>6. SomebodyIsLeft'
    <3> SUFFICES ASSUME ghost'.mutual = 0, ghost'.conflicts = 0,
                        NEW p \in Person, user'[p] # Absent
                 PROVE  \E q \in Person : user'[q] # Absent /\ user'[q].status = "active"
      BY DEF SomebodyIsLeft, Acting
    <3>1. CASE org = "pending"
      BY <1>4, <2>1, <3>1, <2>2 DEF IInv, Deciding, DecisionStands
    <3>2. CASE org \in {"active", "inactive"}
      BY <1>4, <2>1, <3>2, <2>2 DEF IInv, SomebodyIsLeft, Acting
    <3>3. QED
      BY <2>4, <3>1, <3>2
  <2>7. QED
    BY <1>5, <2>3, <2>5, <2>6 DEF IInv
<1>8. CASE CommitRejection(r)
  <2>1. org' = "rejected" /\ user' = Decided("inactive")
        /\ (ghost'.conflicts = 0 => ghost.conflicts = 0 /\ ~IsDecided)
    <3>1. ghost.conflicts \in Nat /\ [ghost EXCEPT !.conflicts = @ + 1].conflicts = ghost.conflicts + 1
      BY DEF IInv, TypeOK
    <3>2. QED
      BY <1>8, <3>1 DEF CommitRejection, IsDecided
  <2>2. /\ user' \in [Person -> User \cup {Absent}]
        /\ \A p \in Person :
               /\ user'[p] = Absent <=> user[p] = Absent
               /\ user[p] # Absent =>
                     user'[p].status = IF user[p].status = "pending_approval"
                                       THEN "inactive" ELSE user[p].status
    BY <1>6, <2>1, DecidedRows
  <2>3. TypeOK'
    BY <1>1, <1>3, <1>4, <2>1, <2>2 DEF IInv, TypeOK, Organization
  <2>4. ghost'.conflicts = 0 => org \in {"pending", "rejected"}
    BY <1>2, <2>1 DEF IInv, TypeOK, Organization, IsDecided
  <2>5. Deciding'
    <3>1. DecisionStands'
      BY <2>1, <2>4, <2>2 DEF IInv, Deciding, DecisionStands
    <3>2. ASSUME ghost'.conflicts = 0, NEW q \in Request
          PROVE  call'[q].op \notin {"switch", "toggle", "delete", "accept"}
      BY <1>3, <2>1, <3>2 DEF IInv, Deciding, Ends, Idle
    <3>3. QED
      BY <2>1, <3>1, <3>2, AbsentAssumption DEF Deciding
  <2>6. SomebodyIsLeft'
    BY <2>1 DEF SomebodyIsLeft
  <2>7. QED
    BY <1>5, <2>3, <2>5, <2>6 DEF IInv
<1>9. CASE CommitSwitch(r)
  <2>1. org' \in {"active", "inactive"} /\ UNCHANGED <<user, ghost>>
        /\ (ghost.conflicts = 0 => IsDecided)
    BY <1>9, Fields DEF CommitSwitch, IInv, TypeOK, Deciding
  <2>2. TypeOK'
    BY <1>1, <1>3, <2>1 DEF IInv, TypeOK, Organization
  <2>3. Deciding'
    BY <2>1, AbsentAssumption DEF IInv, Deciding, DecisionStands, IsDecided
  <2>4. SomebodyIsLeft'
    BY <2>1 DEF IInv, SomebodyIsLeft, Acting, IsDecided
  <2>5. QED
    BY <1>5, <2>2, <2>3, <2>4 DEF IInv
<1>10. QED
  BY <1>7, <1>8, <1>9

----------------------------------------------------------------------------

(* A step that writes one row, and opens none that was closed.             *)
LEMMA RowWritten ==
    ASSUME IInv, NEW i \in DOMAIN invitations, NEW row \in Invitation,
           invitations' = [invitations EXCEPT ![i] = row],
           row.email = invitations[i].email,
           row.accepted = Never /\ row.revoked = Never => Unused(i)
    PROVE  /\ invitations' \in Seq(Invitation)
           /\ DOMAIN invitations' = DOMAIN invitations
           /\ \A j \in DOMAIN invitations : invitations'[j] = IF j = i THEN row ELSE invitations[j]
           /\ \A p \in Person : Open(p)' \subseteq Open(p)
<1>1. invitations' \in Seq(Invitation) /\ DOMAIN invitations' = DOMAIN invitations
      /\ \A j \in DOMAIN invitations : invitations'[j] = IF j = i THEN row ELSE invitations[j]
  BY DEF IInv, TypeOK
<1>2. \A p \in Person : Open(p)' \subseteq Open(p)
  BY <1>1 DEF Open, Unused
<1>3. QED
  BY <1>1, <1>2

LEMMA RowTypes ==
    ASSUME IInv, NEW i \in DOMAIN invitations
    PROVE  /\ invitations[i] \in Invitation /\ invitations[i].email \in Person
           /\ i \in Nat /\ clock \in Int /\ clock # Never
           /\ [invitations[i] EXCEPT !.sent = TRUE] \in Invitation
           /\ [invitations[i] EXCEPT !.revoked = clock] \in Invitation
           /\ [invitations[i] EXCEPT !.accepted = clock] \in Invitation
<1>1. invitations[i] \in Invitation /\ i \in Nat
  BY DEF IInv, TypeOK
<1>2. clock \in Int /\ clock # Never
  BY NumberAssumption DEF IInv, TypeOK, Never
<1>3. QED
  BY <1>1, <1>2 DEF Invitation

LEMMA RowStep ==
    ASSUME IInv, NEW r \in Request, Deliver(r) \/ CommitRevoke(r)
    PROVE  IInv'
<1>1. Goto(r, Idle) /\ UNCHANGED <<clock, org, user, ghost>> /\ call[r].op \in {"mail", "revoke"}
  BY DEF Deliver, CommitRevoke
<1>2. Ends(r) /\ call' \in [Request -> {Idle} \cup Loaded]
  BY <1>1, Ending
<1>3. PICK i \in DOMAIN invitations : i = call[r].link
  BY <1>1 DEF IInv, Holding
<1>4. /\ invitations' \in Seq(Invitation) /\ DOMAIN invitations' = DOMAIN invitations
      /\ \A j \in DOMAIN invitations : invitations'[j].accepted = invitations[j].accepted
      /\ \A p \in Person : Open(p)' \subseteq Open(p)
  <2>1. CASE invitations' = [invitations EXCEPT ![i].sent = TRUE]
    <3>1. [invitations[i] EXCEPT !.sent = TRUE].email = invitations[i].email
          /\ [invitations[i] EXCEPT !.sent = TRUE].accepted = invitations[i].accepted
          /\ [invitations[i] EXCEPT !.sent = TRUE].revoked = invitations[i].revoked
      BY RowTypes DEF Invitation
    <3>2. invitations' = [invitations EXCEPT ![i] = [invitations[i] EXCEPT !.sent = TRUE]]
      BY <2>1
    <3>3. QED
      BY <3>1, <3>2, RowTypes, RowWritten DEF Unused
  <2>2. CASE invitations' = [invitations EXCEPT ![i].revoked = clock]
    <3>1. [invitations[i] EXCEPT !.revoked = clock].email = invitations[i].email
          /\ [invitations[i] EXCEPT !.revoked = clock].accepted = invitations[i].accepted
          /\ [invitations[i] EXCEPT !.revoked = clock].revoked # Never
      BY RowTypes DEF Invitation
    <3>2. invitations' = [invitations EXCEPT ![i] = [invitations[i] EXCEPT !.revoked = clock]]
      BY <2>2
    <3>3. QED
      BY <3>1, <3>2, RowTypes, RowWritten
  <2>3. CASE UNCHANGED invitations
    BY <2>3 DEF IInv, TypeOK, Open, Unused
  <2>4. QED
    BY <1>3, <2>1, <2>2, <2>3 DEF Deliver, CommitRevoke
<1>5. TypeOK'
  BY <1>1, <1>2, <1>4 DEF IInv, TypeOK
<1>6. Holding'
  BY <1>2, <1>4 DEF IInv, Holding, Ends, Idle
<1>7. Counting'
  BY <1>1, <1>4 DEF IInv, Counting, LinksWorkOnce
<1>8. Links'
  BY <1>1, <1>4, FewerOpen
<1>9. Deciding' /\ SomebodyIsLeft'
  BY <1>1, <1>2, PeopleKept DEF Ends
<1>10. QED
  BY <1>5, <1>6, <1>7, <1>8, <1>9 DEF IInv

LEMMA InviteStep ==
    ASSUME IInv, NEW r \in Request, CommitInvite(r)
    PROVE  IInv'
<1> DEFINE p == call[r].email
           old == call[r].old
           n == Len(invitations)
           row == [email |-> p, expires |-> clock + Ttl, sent |-> FALSE,
                   accepted |-> Never, revoked |-> Never]
<1>1. /\ call[r].op = "invite" /\ UNCHANGED <<clock, org, user>>
      /\ invitations' = Append(Superseded(old), row)
      /\ Goto(r, [op |-> "mail", link |-> n + 1])
      /\ ghost' = [ghost EXCEPT !.made = Append(@, 0),
                      !.doubleLinks = @ + Cardinality(Open(p) \ old)]
  BY DEF CommitInvite
<1>2. TypeOK
  BY DEF IInv
<1>3. n \in Nat /\ DOMAIN invitations = 1 .. n /\ p \in Person /\ org # Absent
  BY <1>1, <1>2, Fields DEF TypeOK, IInv, Deciding, Idle
<1>4. row \in Invitation
  <2>1. clock + Ttl \in Nat
    BY <1>2, NumberAssumption DEF TypeOK
  <2>2. QED
    BY <1>3, <2>1 DEF Invitation, Never
<1>5. Superseded(old) \in Seq(Invitation) /\ Len(Superseded(old)) = n
  <2>1. \A i \in 1 .. n : (IF i \in old THEN [invitations[i] EXCEPT !.revoked = clock]
                           ELSE invitations[i]) \in Invitation
    BY <1>3, RowTypes
  <2>2. Superseded(old) \in [1 .. n -> Invitation]
    BY <1>3, <2>1 DEF Superseded
  <2>3. QED
    BY <1>3, <2>2, SeqDef, LenProperties
<1>6. /\ invitations' \in Seq(Invitation) /\ DOMAIN invitations' = 1 .. n + 1
      /\ \A i \in 1 .. n : invitations'[i] = Superseded(old)[i]
      /\ invitations'[n + 1] = row
  BY <1>1, <1>3, <1>4, <1>5, AppendProperties
<1>7. \A i \in 1 .. n : /\ invitations'[i].email = invitations[i].email
                        /\ invitations'[i].accepted = invitations[i].accepted
                        /\ invitations'[i].revoked = IF i \in old THEN clock ELSE invitations[i].revoked
  <2>1. ASSUME NEW i \in 1 .. n
        PROVE  /\ [invitations[i] EXCEPT !.revoked = clock].email = invitations[i].email
               /\ [invitations[i] EXCEPT !.revoked = clock].accepted = invitations[i].accepted
               /\ [invitations[i] EXCEPT !.revoked = clock].revoked = clock
    BY <1>3, RowTypes DEF Invitation
  <2>2. QED
    BY <1>3, <1>6, <2>1 DEF Superseded
<1>8. IsFiniteSet(Open(p) \ old) /\ Cardinality(Open(p) \ old) \in Nat
  BY <1>2, <1>3, FewOpen, FS_Difference, FS_CardinalityType
<1>9. ghost.doubleLinks + Cardinality(Open(p) \ old) \in Nat
      /\ ghost.doubleLinks + Cardinality(Open(p) \ old) >= ghost.doubleLinks
      /\ ghost.doubleLinks \in Nat
  BY <1>2, <1>8 DEF TypeOK
<1>10. Append(ghost.made, 0) \in Seq(Nat) /\ DOMAIN Append(ghost.made, 0) = 1 .. n + 1
       /\ (\A i \in 1 .. n : Append(ghost.made, 0)[i] = ghost.made[i])
       /\ Append(ghost.made, 0)[n + 1] = 0
  <2>1. ghost.made \in Seq(Nat) /\ Len(ghost.made) = n
    BY <1>2, <1>3, LenProperties DEF TypeOK, IInv, Counting
  <2>2. QED
    BY <1>3, <2>1, AppendProperties
<1>11. /\ ghost' \in [calls : 0 .. MaxCalls, made : Seq(Nat), doubleLinks : Nat,
                      conflicts : Nat, mutual : Nat]
       /\ ghost'.made = Append(ghost.made, 0)
       /\ ghost'.doubleLinks = ghost.doubleLinks + Cardinality(Open(p) \ old)
       /\ ghost'.conflicts = ghost.conflicts /\ ghost'.mutual = ghost.mutual
  <2> HIDE DEF p, old
  <2>1. ghost \in [calls : 0 .. MaxCalls, made : Seq(Nat), doubleLinks : Nat,
                   conflicts : Nat, mutual : Nat]
    BY <1>2 DEF TypeOK
  <2>2. QED
    BY <1>1, <1>9, <1>10, <2>1
<1>12. /\ call' \in [Request -> {Idle} \cup Loaded]
       /\ \A q \in Request : call'[q] = IF q = r THEN [op |-> "mail", link |-> n + 1] ELSE call[q]
  <2>1. [op |-> "mail", link |-> n + 1] \in Loaded
    BY <1>3 DEF Loaded
  <2>2. QED
    BY <1>1, <1>2, <2>1 DEF TypeOK, Goto
<1>13. TypeOK'
  BY <1>1, <1>2, <1>6, <1>11, <1>12 DEF TypeOK
<1>14. Holding'
  BY <1>3, <1>6, <1>12 DEF IInv, Holding
<1>15. Counting'
  <2>1. DOMAIN ghost'.made = DOMAIN invitations'
    BY <1>6, <1>10, <1>11
  <2>2. \A i \in 1 .. n : ghost'.made[i] = IF invitations'[i].accepted = Never THEN 0 ELSE 1
    BY <1>3, <1>7, <1>10, <1>11 DEF IInv, Counting, LinksWorkOnce
  <2>3. ghost'.made[n + 1] = 0 /\ invitations'[n + 1].accepted = Never
    BY <1>6, <1>10, <1>11
  <2>4. QED
    BY <1>3, <1>6, <2>1, <2>2, <2>3 DEF Counting, LinksWorkOnce
<1>16. Deciding' /\ SomebodyIsLeft'
  BY <1>1, <1>3, <1>11, <1>12, PeopleKept
<1>17. Links'
  <2>1. SUFFICES ASSUME NEW q \in Person
                 PROVE  Cardinality(Open(q)') <= 1 + ghost'.doubleLinks
    BY DEF Links
  <2>2. clock # Never
    BY <1>2, NumberAssumption DEF TypeOK, Never
  <2>3. CASE q = p
    <3>1. Open(q)' \subseteq (Open(p) \ old) \cup {n + 1}
      BY <1>3, <1>6, <1>7, <2>2, <2>3 DEF Open, Unused
    <3>2. n + 1 \notin Open(p) \ old
      BY <1>3 DEF Open
    <3>3. IsFiniteSet((Open(p) \ old) \cup {n + 1})
          /\ Cardinality((Open(p) \ old) \cup {n + 1}) = Cardinality(Open(p) \ old) + 1
      BY <1>8, <3>2, FS_AddElement
    <3>4. Cardinality(Open(q)') <= Cardinality(Open(p) \ old) + 1 /\ Cardinality(Open(q)') \in Nat
      BY <3>1, <3>3, FS_Subset, FS_CardinalityType
    <3>5. QED
      BY <1>8, <1>9, <1>11, <3>4
  <2>4. CASE q # p
    <3>1. Open(q)' \subseteq Open(q)
      BY <1>3, <1>6, <1>7, <2>2, <2>4 DEF Open, Unused
    <3>2. Cardinality(Open(q)') <= Cardinality(Open(q)) /\ Cardinality(Open(q)') \in Nat
          /\ Cardinality(Open(q)) \in Nat
      BY <1>2, <3>1, FewOpen, FS_Subset, FS_CardinalityType
    <3>3. Cardinality(Open(q)) <= 1 + ghost.doubleLinks
      BY DEF IInv, Links
    <3>4. QED
      BY <1>8, <1>9, <1>11, <3>2, <3>3
  <2>5. QED
    BY <2>3, <2>4
<1>18. QED
  BY <1>13, <1>14, <1>15, <1>16, <1>17 DEF IInv

LEMMA AcceptStep ==
    ASSUME IInv, NEW r \in Request, Accept(r)
    PROVE  IInv'
<1> DEFINE i == call[r].link
           p == invitations[i].email
           row == [invitations[i] EXCEPT !.accepted = clock]
<1>1. /\ call[r].op = "accept" /\ Claimable(i) /\ user[p] = Absent
      /\ invitations' = [invitations EXCEPT ![i] = row]
      /\ user' = [user EXCEPT ![p] = [status |-> "active", from |-> i]]
      /\ Goto(r, Idle) /\ UNCHANGED <<clock, org>>
      /\ ghost' = [ghost EXCEPT !.made[i] = @ + 1]
  BY DEF Accept
<1>2. TypeOK /\ i \in DOMAIN invitations
  BY <1>1 DEF IInv, Holding
<1>3. /\ p \in Person /\ i \in Nat /\ row \in Invitation /\ row.email = p
      /\ row.accepted # Never
  BY <1>2, RowTypes DEF Invitation
<1>4. Ends(r) /\ call' \in [Request -> {Idle} \cup Loaded]
  BY <1>1, Ending
<1>5. /\ invitations' \in Seq(Invitation) /\ DOMAIN invitations' = DOMAIN invitations
      /\ \A j \in DOMAIN invitations : invitations'[j] = IF j = i THEN row ELSE invitations[j]
      /\ \A q \in Person : Open(q)' \subseteq Open(q)
  <2> HIDE DEF i, p, row
  <2>1. p = invitations[i].email
    BY DEF p
  <2>2. QED
    BY <1>1, <1>2, <1>3, <2>1, RowWritten
<1>6. ghost.made \in Seq(Nat) /\ i \in DOMAIN ghost.made /\ ghost.made[i] = 0
  BY <1>1, <1>2 DEF TypeOK, IInv, Counting, LinksWorkOnce, Claimable, Unused
<1>7. /\ ghost' \in [calls : 0 .. MaxCalls, made : Seq(Nat), doubleLinks : Nat,
                     conflicts : Nat, mutual : Nat]
      /\ ghost'.made = [ghost.made EXCEPT ![i] = 1]
      /\ ghost'.doubleLinks = ghost.doubleLinks
      /\ ghost'.conflicts = ghost.conflicts /\ ghost'.mutual = ghost.mutual
  <2> HIDE DEF i
  <2>1. ghost \in [calls : 0 .. MaxCalls, made : Seq(Nat), doubleLinks : Nat,
                   conflicts : Nat, mutual : Nat]
    BY <1>2 DEF TypeOK
  <2>2. [ghost.made EXCEPT ![i] = 1] \in Seq(Nat)
    BY <1>6
  <2>3. ghost' = [ghost EXCEPT !.made = [ghost.made EXCEPT ![i] = 1]]
    BY <1>1, <1>6
  <2>4. QED
    BY <2>1, <2>2, <2>3
<1>8. user' \in [Person -> User \cup {Absent}]
      /\ user'[p] = [status |-> "active", from |-> i]
      /\ \A q \in Person : q # p => user'[q] = user[q]
  <2> HIDE DEF i, p
  <2>1. [status |-> "active", from |-> i] \in User
    BY <1>3 DEF User
  <2>2. QED
    BY <1>1, <1>2, <1>3, <2>1 DEF TypeOK
<1> HIDE DEF i, p, row
<1>9. TypeOK'
  BY <1>1, <1>2, <1>4, <1>5, <1>7, <1>8 DEF TypeOK
<1>10. Holding'
  BY <1>4, <1>5 DEF IInv, Holding, Ends, Idle
<1>11. Counting'
  BY <1>2, <1>3, <1>5, <1>6, <1>7 DEF IInv, Counting, LinksWorkOnce
<1>12. org # Absent /\ (ghost.conflicts = 0 => IsDecided)
  BY <1>1 DEF IInv, Deciding, Idle
<1>13. Absent # [status |-> "active", from |-> i]
  BY <1>3, AbsentAssumption
<1>14. DecisionStands'
  BY <1>1, <1>7, <1>8, <1>12 DEF IInv, Deciding, DecisionStands, IsDecided
<1>15. Deciding'
  BY <1>1, <1>4, <1>7, <1>12, <1>14 DEF Deciding, IsDecided
<1>16. SomebodyIsLeft'
  <2>1. PICK q \in Person : q = p
    BY <1>3
  <2>2. Acting(q)'
    BY <1>8, <1>13, <2>1 DEF Acting
  <2>3. QED
    BY <2>2 DEF SomebodyIsLeft
<1>17. Links'
  BY <1>5, <1>7, FewerOpen
<1>18. QED
  BY <1>9, <1>10, <1>11, <1>15, <1>16, <1>17 DEF IInv

(* Someone else's account is switched over, or gone: whoever did it is     *)
(* still there, or was removed in the meantime.                            *)
LEMMA RemovalStep ==
    ASSUME IInv, NEW r \in Request, Toggle(r) \/ Delete(r)
    PROVE  IInv'
<1> DEFINE l == call[r]
<1>1. /\ l.op \in {"toggle", "delete"} /\ SameRow(l)
      /\ Goto(r, Idle) /\ ghost' = Removed(l)
      /\ UNCHANGED <<clock, org, invitations>>
      /\ user' \in {[user EXCEPT ![l.of].status = Flipped(l.row.status)],
                   [user EXCEPT ![l.of] = Absent]}
  BY DEF Toggle, Delete
<1>2. TypeOK /\ l \in {Idle} \cup Loaded
  BY DEF IInv, TypeOK
<1>3. l.by \in Person /\ l.of \in Person /\ l.by # l.of
  BY <1>1, <1>2, Fields DEF IInv, Holding
<1>4. Ends(r) /\ call' \in [Request -> {Idle} \cup Loaded]
  BY <1>1, Ending
<1>5. /\ ghost' \in [calls : 0 .. MaxCalls, made : Seq(Nat), doubleLinks : Nat,
                     conflicts : Nat, mutual : Nat]
      /\ ghost'.made = ghost.made /\ ghost'.doubleLinks = ghost.doubleLinks
      /\ ghost'.conflicts = ghost.conflicts
      /\ ghost'.mutual = 0 => Acting(l.by)
  <2> HIDE DEF l
  <2>1. ghost \in [calls : 0 .. MaxCalls, made : Seq(Nat), doubleLinks : Nat,
                   conflicts : Nat, mutual : Nat]
    BY <1>2 DEF TypeOK
  <2>2. ghost.mutual + 1 \in Nat /\ ghost.mutual + 1 # 0
    BY <2>1
  <2>3. CASE Acting(l.by)
    BY <1>1, <2>1, <2>3 DEF Removed
  <2>4. CASE ~Acting(l.by)
    BY <1>1, <2>1, <2>2, <2>4 DEF Removed
  <2>5. QED
    BY <2>3, <2>4
<1>6. org # Absent /\ (ghost.conflicts = 0 => IsDecided)
  BY <1>1 DEF IInv, Deciding, Idle
<1> HIDE DEF l
<1>7. /\ user' \in [Person -> User \cup {Absent}]
      /\ \A q \in Person : q # l.of => user'[q] = user[q]
      /\ user'[l.of] # Absent => user'[l.of].status \in {"active", "inactive"}
  <2>1. user[l.of] \in User
    BY <1>1, <1>2, <1>3 DEF SameRow, TypeOK
  <2>2. Flipped(l.row.status) \in {"active", "inactive"}
    BY DEF Flipped
  <2>3. [user[l.of] EXCEPT !.status = Flipped(l.row.status)] \in User
        /\ [user[l.of] EXCEPT !.status = Flipped(l.row.status)].status \in {"active", "inactive"}
    BY <2>1, <2>2 DEF User
  <2>4. QED
    BY <1>1, <1>2, <1>3, <2>3 DEF TypeOK
<1>8. TypeOK'
  BY <1>1, <1>2, <1>4, <1>5, <1>7 DEF TypeOK
<1>9. Holding' /\ Counting' /\ Links'
  BY <1>1, <1>4, <1>5, RowsKept DEF Ends
<1>10. DecisionStands'
  BY <1>1, <1>3, <1>5, <1>6, <1>7 DEF IInv, Deciding, DecisionStands, IsDecided
<1>11. Deciding'
  BY <1>1, <1>4, <1>5, <1>6, <1>10 DEF Deciding, IsDecided
<1>12. SomebodyIsLeft'
  <2>1. PICK q \in Person : q = l.by
    BY <1>3
  <2>2. ghost'.mutual = 0 => Acting(q)'
    BY <1>3, <1>5, <1>7, <2>1 DEF Acting
  <2>3. QED
    BY <2>2 DEF SomebodyIsLeft
<1>13. QED
  BY <1>8, <1>9, <1>11, <1>12 DEF IInv

LEMMA QuietStep ==
    ASSUME IInv, (\E r \in Request : GiveUp(r)) \/ Tick \/ UNCHANGED vars
    PROVE  IInv'
<1>1. UNCHANGED <<org, user, invitations, ghost>> /\ clock' \in 0 .. Horizon
  BY NumberAssumption DEF GiveUp, Tick, vars, IInv, TypeOK
<1>2. call' \in [Request -> {Idle} \cup Loaded] /\ \A q \in Request : call'[q] \in {call[q], Idle}
  BY Ending DEF GiveUp, Tick, vars, IInv, TypeOK, Ends
<1>3. TypeOK'
  BY <1>1, <1>2 DEF IInv, TypeOK
<1>4. Holding' /\ Counting' /\ Links'
  BY <1>1, <1>2, RowsKept
<1>5. Deciding' /\ SomebodyIsLeft'
  BY <1>1, <1>2, PeopleKept
<1>6. QED
  BY <1>3, <1>4, <1>5 DEF IInv

----------------------------------------------------------------------------

LEMMA Step == IInv /\ [Next]_vars => IInv'
<1> SUFFICES ASSUME IInv, [Next]_vars PROVE IInv'
  OBVIOUS
<1>1. ASSUME NEW r \in Request, Organise(r) PROVE IInv'
  BY <1>1, FoundStep, LoadStep, DecisionStep DEF Organise
<1>2. ASSUME NEW r \in Request, Link(r) PROVE IInv'
  BY <1>2, LoadStep, InviteStep, RowStep, AcceptStep DEF Link
<1>3. ASSUME NEW r \in Request, Remove(r) PROVE IInv'
  BY <1>3, LoadStep, RemovalStep DEF Remove
<1>4. QED
  BY <1>1, <1>2, <1>3, QuietStep DEF Next

(* Every reachable state satisfies the strengthened invariant: what a      *)
(* request holds on to exists, links and accounts agree, and requests that *)
(* write accounts are only under way once the organisation is decided.     *)
THEOREM Invariance == Spec => []IInv
<1>1. Init => IInv
  BY Start
<1>2. IInv /\ [Next]_vars => IInv'
  BY Step
<1>3. QED
  BY <1>1, <1>2, PTL DEF Spec

(* The type invariant holds of organisations, accounts and invitations.    *)
THEOREM TypeCorrect == Spec => []TypeOK
<1>1. IInv => TypeOK
  BY DEF IInv
<1>2. QED
  BY <1>1, Invariance, PTL

(* However many people open a link, revoke it or replace it at the same    *)
(* time, accept() makes at most one account of it, and it is used up       *)
(* exactly when it has made one.                                           *)
THEOREM LinksOnce == Spec => []LinksWorkOnce
<1>1. IInv => LinksWorkOnce
  BY DEF IInv, Counting
<1>2. QED
  BY <1>1, Invariance, PTL

(* create_invitation leaves one live link per person, and one more for     *)
(* each invitation that was being made while another was.                  *)
THEOREM LiveLinks == Spec => []OneLiveLink
<1>1. IInv => OneLiveLink
  <2> SUFFICES ASSUME IInv, NEW p \in Person
               PROVE  Cardinality(Live(p)) <= 1 + ghost.doubleLinks
    BY DEF OneLiveLink
  <2>1. IsFiniteSet(Open(p)) /\ Cardinality(Open(p)) \in Nat
    BY FewOpen DEF IInv
  <2>2. Cardinality(Live(p)) <= Cardinality(Open(p)) /\ Cardinality(Live(p)) \in Nat
    BY <2>1, FS_Subset, FS_CardinalityType DEF Live
  <2>3. Cardinality(Open(p)) <= 1 + ghost.doubleLinks /\ ghost.doubleLinks \in Nat
    BY DEF IInv, Links, TypeOK
  <2>4. QED
    BY <2>1, <2>2, <2>3
<1>2. QED
  BY <1>1, Invariance, PTL

(* approve_organization, reject_organization and the status switches leave *)
(* accounts that agree with the decision, unless two decisions are taken   *)
(* at the same time.                                                       *)
THEOREM Decisions == Spec => []DecisionStands
<1>1. IInv => DecisionStands
  BY DEF IInv, Deciding
<1>2. QED
  BY <1>1, Invariance, PTL

(* Neither toggle_user_status nor delete_user takes the last active        *)
(* administrator of an organisation, unless two remove each other.         *)
THEOREM Survivor == Spec => []SomebodyIsLeft
<1>1. IInv => SomebodyIsLeft
  BY DEF IInv
<1>2. QED
  BY <1>1, Invariance, PTL
=============================================================================
