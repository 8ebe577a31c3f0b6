--------------------------- MODULE MembershipProofs ---------------------------
(***************************************************************************)
(* What Membership promises, proved for any number of users, trips,        *)
(* invitations and request handlers: first the types, then what the row    *)
(* locks of accept_invitation and create_trip are worth while they are     *)
(* held, and from both the roster and the effect of a revocation.          *)
(***************************************************************************)
EXTENDS Membership, FiniteSetTheorems, SequenceTheorems, TLAPS

-----------------------------------------------------------------------------
(* Types.                                                                  *)

\* The CHECK constraint on use_count never fires and a handler in the middle
\* of accept_invitation has counted fewer uses than there may be.
THEOREM TypeCorrect == Spec => []TypeOK
<1>1. Init => TypeOK
  BY MembershipNames, MembershipBounds DEF Init, TypeOK, InvitationRows, Requests, Rows
<1>2. TypeOK /\ [Next]_vars => TypeOK'
  <2> SUFFICES ASSUME TypeOK, [Next]_vars PROVE TypeOK'
    OBVIOUS
  <2> USE DEF TypeOK
  <2>idle. Idle \in Requests
    BY DEF Requests
  <2>fin. ASSUME NEW h \in Handlers, Finish(h) PROVE req' \in [Handlers -> Requests]
    BY <2>fin, <2>idle DEF Finish
  <2>1. ASSUME NEW u \in Users, SignIn(u) \/ SignOut(u) PROVE TypeOK'
    BY <2>1 DEF SignIn, SignOut
  <2>2. ASSUME NEW h \in Handlers, NEW u \in Users, CreateTripLoad(h, u) PROVE TypeOK'
    <3>1. [Idle EXCEPT !.at = "creating", !.user = u] \in Requests
      BY DEF Idle, Requests
    <3> QED BY <2>2, <3>1 DEF CreateTripLoad, Begin
  <2>3. ASSUME NEW h \in Handlers, NEW t \in Trips, CreateTripCommit(h, t) PROVE TypeOK'
    <3>1. req[h].user \in Users
      BY <2>3 DEF CreateTripCommit, Requests, Idle
    <3>2. <<[user |-> req[h].user, owns |-> TRUE, removed |-> FALSE, through |-> Nobody]>> \in Seq(Rows)
      BY <3>1 DEF Rows
    <3> QED BY <2>3, <2>fin, <3>1, <3>2 DEF CreateTripCommit
  <2>4. ASSUME NEW u \in Users, NEW i \in Invitations, CreateInvitation(u, i) PROVE TypeOK'
    BY <2>4 DEF CreateInvitation, InvitationRows
  <2>5. ASSUME NEW i \in Invitations, InvitationExpires(i) PROVE TypeOK'
    BY <2>5 DEF InvitationExpires, InvitationRows
  <2>6. ASSUME NEW h \in Handlers, NEW u \in Users, NEW i \in Invitations, RevokeLoad(h, u, i)
        PROVE  TypeOK'
    <3>1. [Idle EXCEPT !.at = "revoking", !.user = u, !.on = i] \in Requests
      BY DEF Idle, Requests
    <3> QED BY <2>6, <3>1 DEF RevokeLoad, Begin
  <2>7. ASSUME NEW h \in Handlers, RevokeCommit(h) PROVE TypeOK'
    BY <2>7, <2>fin DEF RevokeCommit, InvitationRows
  <2>8. ASSUME NEW h \in Handlers, NEW u \in Users, NEW i \in Invitations, AcceptLoad(h, u, i)
        PROVE  TypeOK'
    <3>1. invitation[i].uses \in 0 .. MaxUses - 1
      BY <2>8, MembershipBounds DEF AcceptLoad, Usable, UsedUp, InvitationRows
    <3>2. [at |-> "accepting", user |-> u, on |-> i, uses |-> invitation[i].uses] \in Requests
      BY <3>1 DEF Requests
    <3> QED BY <2>8, <3>2 DEF AcceptLoad, Begin
  <2>9. ASSUME NEW h \in Handlers, AcceptCommit(h) PROVE TypeOK'
    <3> DEFINE i == req[h].on
    <3>1. req[h].user \in Users /\ i \in Invitations /\ req[h].uses \in 0 .. MaxUses - 1
      BY <2>9 DEF AcceptCommit, Requests, Idle
    <3>2. InvitationOf[i] \in Trips
      BY <3>1, MembershipNames
    <3>3. [user |-> req[h].user, owns |-> FALSE, removed |-> FALSE, through |-> i] \in Rows
      BY <3>1 DEF Rows
    <3>4. members' \in [Trips -> Seq(Rows)]
      BY <2>9, <3>2, <3>3 DEF AcceptCommit
    <3>5. req[h].uses + 1 \in 0 .. MaxUses
      BY <3>1, MembershipBounds
    <3>6. invitation' \in [Invitations -> InvitationRows]
      BY <2>9, <3>5 DEF AcceptCommit, InvitationRows
    <3> QED BY <2>9, <2>fin, <3>4, <3>6 DEF AcceptCommit
  <2>10. ASSUME NEW u \in Users, NEW t \in Trips, NEW k \in 1..MaxRows, RemoveMember(u, t, k)
         PROVE  TypeOK'
    <3>1. members[t] \in Seq(Rows) /\ k \in 1 .. Len(members[t])
      BY <2>10 DEF RemoveMember
    <3> DEFINE row == [members[t][k] EXCEPT !.removed = TRUE]
    <3>r. members[t][k] \in Rows
      BY <3>1, ElementOfSeq
    <3>n. row \in Rows
      BY <3>r DEF Rows
    <3>2. [members[t] EXCEPT ![k] = row] \in Seq(Rows)
      BY <3>1, <3>n, ExceptSeq
    <3>3. members' = [members EXCEPT ![t] = [members[t] EXCEPT ![k] = row]]
      BY <2>10 DEF RemoveMember
    <3> QED BY <2>10, <3>2, <3>3 DEF RemoveMember
  <2>11. ASSUME NEW u \in Users, NEW t \in Trips, DeleteTrip(u, t) PROVE TypeOK'
    BY <2>11 DEF DeleteTrip
  <2>12. ASSUME NEW h \in Handlers, Abort(h) PROVE TypeOK'
    BY <2>12, <2>fin DEF Abort
  <2>13. CASE UNCHANGED vars
    BY <2>13 DEF vars
  <2> QED BY <2>1, <2>2, <2>3, <2>4, <2>5, <2>6, <2>7, <2>8, <2>9, <2>10, <2>11, <2>12, <2>13
          DEF Next
<1> QED BY <1>1, <1>2, PTL DEF Spec

-----------------------------------------------------------------------------
(* What the row locks are worth.                                           *)

Accepting(h) == req[h].at = "accepting"
Creating(h) == req[h].at = "creating"
OnlyInvitation(i) == \A j \in InvitationsOf(InvitationOf[i]) : j = i

\* While accept_invitation holds the lock of an invitation, its row is what
\* the request read, and nobody else is in the middle of accepting it; of the
\* only invitation of a trip, the user is not a member meanwhile.
AcceptLockHolds ==
  \A h \in Handlers : Accepting(h) =>
    LET i == req[h].on IN
    /\ Stored(i)
    /\ ~invitation[i].revoked
    /\ invitation[i].uses = req[h].uses
    /\ \A g \in Handlers : Accepting(g) /\ req[g].on = i => g = h
    /\ OnlyInvitation(i) => ~IsMember(req[h].user, InvitationOf[i])

\* While create_trip holds the lock of a user nobody else creates a trip of
\* theirs, and the count it has taken stays below the limit.
CreateLockHolds ==
  \A h \in Handlers : Creating(h) =>
    /\ \A g \in Handlers : Creating(g) /\ req[g].user = req[h].user => g = h
    /\ Cardinality(Owned(req[h].user)) < MaxTrips

\* A trip that is deleted stays deleted, and no invitation of a trip that was
\* never created has been used.
NamesAreFresh ==
  /\ \A t \in deleted : ~Exists(t)
  /\ \A i \in Invitations :
       InvitationOf[i] \notin deleted /\ ~Exists(InvitationOf[i]) => invitation[i].uses = 0

LEMMA TypedRequest ==
  ASSUME TypeOK, NEW h \in Handlers
  PROVE  /\ Accepting(h) => req[h].user \in Users /\ req[h].on \in Invitations
                              /\ req[h].uses \in 0 .. MaxUses - 1
                              /\ InvitationOf[req[h].on] \in Trips
         /\ Creating(h) => req[h].user \in Users
         /\ req[h].at = "revoking" => req[h].on \in Invitations
BY MembershipNames DEF TypeOK, Requests, Idle, Accepting, Creating

LEMMA AcceptLockStep ==
  ASSUME TypeOK, AcceptLockHolds, [Next]_vars
  PROVE  AcceptLockHolds'
<1> USE DEF TypeOK
<1> DEFINE Held(h) ==
      LET i == req[h].on IN
      /\ Stored(i)
      /\ ~invitation[i].revoked
      /\ invitation[i].uses = req[h].uses
      /\ \A g \in Handlers : Accepting(g) /\ req[g].on = i => g = h
      /\ OnlyInvitation(i) => ~IsMember(req[h].user, InvitationOf[i])
<1> SUFFICES ASSUME NEW h \in Handlers, Accepting(h)' PROVE Held(h)'
  BY DEF AcceptLockHolds
<1>q. ASSUME UNCHANGED <<owner, members, invitation>>,
             \A g \in Handlers : Accepting(g)' => req'[g] = req[g]
      PROVE  Held(h)'
  <2>1. Accepting(h) /\ req'[h] = req[h]
    BY <1>q DEF Accepting
  <2>2. Held(h)
    BY <2>1 DEF AcceptLockHolds
  <2> QED BY <1>q, <2>1, <2>2 DEF Stored, Exists, OnlyInvitation, IsMember, Accepting
<1>fin. ASSUME NEW g \in Handlers, Finish(g)
        PROVE  \A k \in Handlers : Accepting(k)' => k # g /\ req'[k] = req[k] /\ Accepting(k)
  BY <1>fin DEF Finish, Accepting, Idle
<1>old. ASSUME Accepting(h) PROVE Held(h)
  BY <1>old DEF AcceptLockHolds
<1>1. ASSUME NEW u \in Users, SignIn(u) \/ SignOut(u) PROVE Held(h)'
  BY <1>1, <1>q DEF SignIn, SignOut
<1>2. ASSUME NEW g \in Handlers, NEW u \in Users, CreateTripLoad(g, u) PROVE Held(h)'
  <2>1. \A k \in Handlers : Accepting(k)' => req'[k] = req[k]
    BY <1>2 DEF CreateTripLoad, Begin, Accepting, Idle
  <2> QED BY <1>2, <1>q, <2>1 DEF CreateTripLoad
<1>3. ASSUME NEW g \in Handlers, NEW t \in Trips, CreateTripCommit(g, t) PROVE Held(h)'
  <2>1. Accepting(h) /\ req'[h] = req[h]
    BY <1>3, <1>fin DEF CreateTripCommit
  <2>2. InvitationOf[req[h].on] # t /\ InvitationOf[req[h].on] \in Trips /\ req[h].on \in Invitations
    BY <1>3, <1>old, <2>1, TypedRequest DEF CreateTripCommit, Stored
  <2>3. req[g].user # Nobody /\ owner' = [owner EXCEPT ![t] = req[g].user]
    BY <1>3, TypedRequest, MembershipNames DEF CreateTripCommit, Creating
  <2>4. Stored(req[h].on)'
    BY <1>3, <1>old, <2>1, <2>2, <2>3 DEF CreateTripCommit, Stored, Exists
  <2>5. members'[InvitationOf[req[h].on]] = members[InvitationOf[req[h].on]]
    BY <1>3, <2>2 DEF CreateTripCommit
  <2>6. \A k \in Handlers : Accepting(k)' => Accepting(k) /\ req'[k] = req[k]
    BY <1>3, <1>fin DEF CreateTripCommit
  <2>7. UNCHANGED invitation
    BY <1>3 DEF CreateTripCommit
  <2> QED BY <1>old, <2>1, <2>4, <2>5, <2>6, <2>7 DEF OnlyInvitation, IsMember, Accepting
<1>4. ASSUME NEW u \in Users, NEW i \in Invitations, CreateInvitation(u, i) PROVE Held(h)'
  <2>1. UNCHANGED <<req, members, owner>>
    BY <1>4 DEF CreateInvitation
  <2>2. \A j \in Invitations : invitation'[j].uses = invitation[j].uses
                               /\ invitation'[j].revoked = invitation[j].revoked
                               /\ (invitation[j].issued => invitation'[j].issued)
    BY <1>4 DEF CreateInvitation, InvitationRows
  <2>3. Accepting(h) /\ req[h].on \in Invitations
    BY <2>1, TypedRequest DEF Accepting
  <2> QED BY <1>old, <2>1, <2>2, <2>3 DEF Stored, Exists, OnlyInvitation, IsMember, Accepting
<1>5. ASSUME NEW i \in Invitations, InvitationExpires(i) PROVE Held(h)'
  <2>1. UNCHANGED <<req, members, owner>>
    BY <1>5 DEF InvitationExpires
  <2>2. \A j \in Invitations : invitation'[j].uses = invitation[j].uses
                               /\ invitation'[j].revoked = invitation[j].revoked
                               /\ (invitation[j].issued => invitation'[j].issued)
    BY <1>5 DEF InvitationExpires, InvitationRows
  <2>3. Accepting(h) /\ req[h].on \in Invitations
    BY <2>1, TypedRequest DEF Accepting
  <2> QED BY <1>old, <2>1, <2>2, <2>3 DEF Stored, Exists, OnlyInvitation, IsMember, Accepting
<1>6. ASSUME NEW g \in Handlers, NEW u \in Users, NEW i \in Invitations, RevokeLoad(g, u, i)
      PROVE  Held(h)'
  <2>1. \A k \in Handlers : Accepting(k)' => req'[k] = req[k]
    BY <1>6 DEF RevokeLoad, Begin, Accepting, Idle
  <2> QED BY <1>6, <1>q, <2>1 DEF RevokeLoad
<1>7. ASSUME NEW g \in Handlers, RevokeCommit(g) PROVE Held(h)'
  <2>1. Accepting(h) /\ req'[h] = req[h]
    BY <1>7, <1>fin DEF RevokeCommit
  <2>2. req[h].on # req[g].on /\ req[h].on \in Invitations
    BY <1>7, <2>1, TypedRequest DEF RevokeCommit, InvitationUnlocked, LockedBy, Accepting
  <2>3. invitation'[req[h].on] = invitation[req[h].on]
    BY <1>7, <2>2 DEF RevokeCommit
  <2>4. \A k \in Handlers : Accepting(k)' => Accepting(k) /\ req'[k] = req[k]
    BY <1>7, <1>fin DEF RevokeCommit
  <2>5. UNCHANGED <<members, owner>>
    BY <1>7 DEF RevokeCommit
  <2> QED BY <1>old, <2>1, <2>3, <2>4, <2>5 DEF Stored, Exists, OnlyInvitation, IsMember, Accepting
<1>8. ASSUME NEW g \in Handlers, NEW u \in Users, NEW i \in Invitations, AcceptLoad(g, u, i)
      PROVE  Held(h)'
  <2> DEFINE r == [at |-> "accepting", user |-> u, on |-> i, uses |-> invitation[i].uses]
  <2>1. req' = [req EXCEPT ![g] = r] /\ UNCHANGED <<owner, members, invitation>>
    BY <1>8 DEF AcceptLoad, Begin
  <2>2. \A k \in Handlers : Accepting(k) => req[k].on # i
    BY <1>8 DEF AcceptLoad, InvitationUnlocked, LockedBy, Accepting
  <2>3. Stored(i) /\ ~invitation[i].revoked /\ ~IsMember(u, InvitationOf[i])
    BY <1>8 DEF AcceptLoad, Usable
  <2>4. \A k \in Handlers : k # g => req'[k] = req[k] /\ (Accepting(k)' <=> Accepting(k))
    BY <2>1 DEF Accepting
  <2>5. req'[g] = r
    BY <2>1
  <2>6. CASE h = g
    <3>1. \A k \in Handlers : Accepting(k)' /\ req'[k].on = i => k = g
      BY <2>2, <2>4
    <3> QED BY <2>1, <2>3, <2>5, <2>6, <3>1 DEF Stored, Exists, OnlyInvitation, IsMember
  <2>7. CASE h # g
    <3>1. Accepting(h) /\ req'[h] = req[h] /\ req[h].on # i
      BY <2>2, <2>4, <2>7
    <3>2. \A k \in Handlers : Accepting(k)' /\ req'[k].on = req[h].on => k = h
      BY <1>old, <2>4, <2>5, <3>1
    <3> QED BY <1>old, <2>1, <3>1, <3>2 DEF Stored, Exists, OnlyInvitation, IsMember
  <2> QED BY <2>6, <2>7
<1>9. ASSUME NEW g \in Handlers, AcceptCommit(g) PROVE Held(h)'
  <2> DEFINE i == req[g].on
  <2>1. Accepting(g) /\ i \in Invitations
    BY <1>9, TypedRequest DEF AcceptCommit, Accepting
  <2>2. Accepting(h) /\ req'[h] = req[h] /\ h # g
    BY <1>9, <1>fin DEF AcceptCommit
  <2>3. req[h].on # i /\ req[h].on \in Invitations
    BY <1>old, <2>1, <2>2, TypedRequest
  <2>4. invitation'[req[h].on] = invitation[req[h].on] /\ UNCHANGED owner
    BY <1>9, <2>3 DEF AcceptCommit
  <2>5. \A k \in Handlers : Accepting(k)' => Accepting(k) /\ req'[k] = req[k]
    BY <1>9, <1>fin DEF AcceptCommit
  <2>6. OnlyInvitation(req[h].on) =>
          members'[InvitationOf[req[h].on]] = members[InvitationOf[req[h].on]]
    <3>1. OnlyInvitation(req[h].on) => InvitationOf[i] # InvitationOf[req[h].on]
      BY <2>1, <2>3 DEF OnlyInvitation, InvitationsOf
    <3> QED BY <1>9, <2>3, <3>1, MembershipNames DEF AcceptCommit
  <2> QED BY <1>old, <2>2, <2>4, <2>5, <2>6 DEF Stored, Exists, OnlyInvitation, IsMember
<1>10. ASSUME NEW u \in Users, NEW t \in Trips, NEW k \in 1..MaxRows, RemoveMember(u, t, k)
       PROVE  Held(h)'
  <2>1. UNCHANGED <<req, owner, invitation>>
    BY <1>10 DEF RemoveMember
  <2>2. Accepting(h) /\ req[h].on \in Invitations /\ InvitationOf[req[h].on] \in Trips
    BY <2>1, TypedRequest DEF Accepting
  <2>3. \A v, s : s \in Trips /\ IsMember(v, s)' => IsMember(v, s)
    <3> DEFINE row == [members[t][k] EXCEPT !.removed = TRUE]
    <3>1. members[t] \in Seq(Rows) /\ k \in 1 .. Len(members[t])
      BY <1>10 DEF RemoveMember
    <3>2. members' = [members EXCEPT ![t] = [members[t] EXCEPT ![k] = row]]
      BY <1>10 DEF RemoveMember
    <3>3. members[t][k] \in Rows
      BY <3>1, ElementOfSeq
    <3>4. row \in Rows /\ row.removed
      BY <3>3 DEF Rows
    <3>5. /\ DOMAIN members'[t] = DOMAIN members[t]
          /\ \A j \in DOMAIN members[t] : members'[t][j] = IF j = k THEN row ELSE members[t][j]
      BY <3>1, <3>2
    <3>6. \A s \in Trips : s # t => members'[s] = members[s]
      BY <3>2
    <3> QED BY <3>4, <3>5, <3>6 DEF IsMember, Active
  <2> QED BY <1>old, <2>1, <2>2, <2>3 DEF Stored, Exists, OnlyInvitation, Accepting
<1>11. ASSUME NEW u \in Users, NEW t \in Trips, DeleteTrip(u, t) PROVE Held(h)'
  <2>1. UNCHANGED <<req, invitation>>
    BY <1>11 DEF DeleteTrip
  <2>2. Accepting(h) /\ req[h].on \in Invitations /\ InvitationOf[req[h].on] \in Trips
    BY <2>1, TypedRequest DEF Accepting
  <2>3. InvitationOf[req[h].on] # t
    BY <1>11, <2>2 DEF DeleteTrip, InvitationsOf, InvitationUnlocked, LockedBy, Accepting
  <2>4. owner'[InvitationOf[req[h].on]] = owner[InvitationOf[req[h].on]]
        /\ members'[InvitationOf[req[h].on]] = members[InvitationOf[req[h].on]]
    BY <1>11, <2>2, <2>3 DEF DeleteTrip
  <2> QED BY <1>old, <2>1, <2>2, <2>4 DEF Stored, Exists, OnlyInvitation, IsMember, Accepting
<1>12. ASSUME NEW g \in Handlers, Abort(g) PROVE Held(h)'
  BY <1>12, <1>fin, <1>q DEF Abort
<1>13. CASE UNCHANGED vars
  BY <1>13, <1>q DEF vars
<1> QED BY <1>1, <1>2, <1>3, <1>4, <1>5, <1>6, <1>7, <1>8, <1>9, <1>10, <1>11, <1>12, <1>13
        DEF Next

\* What the trips of a user do in a step: only create_trip adds one, and only
\* for the user it holds.
LEMMA OwnedStep ==
  ASSUME TypeOK, [Next]_vars, NEW u \in Users
  PROVE  \/ Owned(u)' \subseteq Owned(u)
         \/ \E h \in Handlers, t \in Trips :
              /\ CreateTripCommit(h, t) /\ Creating(h) /\ req[h].user = u
              /\ Owned(u)' = Owned(u) \cup {t} /\ t \notin Owned(u)
<1> USE DEF TypeOK
<1>1. ASSUME NEW h \in Handlers, NEW t \in Trips, CreateTripCommit(h, t)
      PROVE  \/ Owned(u)' \subseteq Owned(u)
             \/ /\ CreateTripCommit(h, t) /\ Creating(h) /\ req[h].user = u
                /\ Owned(u)' = Owned(u) \cup {t} /\ t \notin Owned(u)
  <2>1. u # Nobody
    BY MembershipNames
  <2>2. owner[t] = Nobody /\ owner' = [owner EXCEPT ![t] = req[h].user] /\ Creating(h)
    BY <1>1 DEF CreateTripCommit, Exists, Creating
  <2> QED BY <1>1, <2>1, <2>2 DEF Owned
<1>2. ASSUME NEW v \in Users, NEW t \in Trips, DeleteTrip(v, t) PROVE Owned(u)' \subseteq Owned(u)
  <2>1. u # Nobody
    BY MembershipNames
  <2> QED BY <1>2, <2>1 DEF DeleteTrip, Owned
<1>3. ASSUME UNCHANGED owner PROVE Owned(u)' \subseteq Owned(u)
  BY <1>3 DEF Owned
<1> QED BY <1>1, <1>2, <1>3 DEF Next, vars, SignIn, SignOut, RevokeCommit, AcceptCommit, Abort,
             CreateTripLoad, CreateInvitation, InvitationExpires, RevokeLoad, AcceptLoad, RemoveMember

LEMMA OwnedIsFinite ==
  ASSUME NEW u \in Users
  PROVE  IsFiniteSet(Owned(u)) /\ Cardinality(Owned(u)) \in Nat
BY MembershipFinite, FS_Subset, FS_CardinalityType DEF Owned

\* What the requests that create trips do in a step: a new one has found its
\* user unlocked and below the limit.
LEMMA CreatingStep ==
  ASSUME TypeOK, [Next]_vars
  PROVE  \A h \in Handlers : Creating(h)' =>
           \/ Creating(h) /\ req'[h] = req[h]
           \/ /\ Cardinality(Owned(req'[h].user)) < MaxTrips
              /\ UserUnlocked(req'[h].user)
              /\ UNCHANGED owner
              /\ \A g \in Handlers : g # h => req'[g] = req[g]
<1> SUFFICES ASSUME NEW h \in Handlers, Creating(h)'
             PROVE  \/ Creating(h) /\ req'[h] = req[h]
                    \/ /\ Cardinality(Owned(req'[h].user)) < MaxTrips
                       /\ UserUnlocked(req'[h].user)
                       /\ UNCHANGED owner
                       /\ \A g \in Handlers : g # h => req'[g] = req[g]
  OBVIOUS
<1> USE DEF TypeOK
<1>1. ASSUME NEW g \in Handlers, Finish(g) PROVE Creating(h) /\ req'[h] = req[h]
  BY <1>1 DEF Finish, Creating, Idle
<1>2. ASSUME NEW g \in Handlers, NEW u \in Users, CreateTripLoad(g, u)
      PROVE  \/ Creating(h) /\ req'[h] = req[h]
             \/ /\ Cardinality(Owned(req'[h].user)) < MaxTrips
                /\ UserUnlocked(req'[h].user)
                /\ UNCHANGED owner
                /\ \A k \in Handlers : k # h => req'[k] = req[k]
  BY <1>2 DEF CreateTripLoad, Begin, Creating, Idle
<1>3. ASSUME NEW g \in Handlers, NEW u \in Users, NEW i \in Invitations,
             RevokeLoad(g, u, i) \/ AcceptLoad(g, u, i)
      PROVE  Creating(h) /\ req'[h] = req[h]
  <2>1. CASE RevokeLoad(g, u, i)
    BY <2>1 DEF RevokeLoad, Begin, Creating, Idle
  <2>2. CASE AcceptLoad(g, u, i)
    BY <2>2 DEF AcceptLoad, Begin, Creating
  <2> QED BY <1>3, <2>1, <2>2
<1>4. ASSUME UNCHANGED req PROVE Creating(h) /\ req'[h] = req[h]
  BY <1>4 DEF Creating
<1> QED BY <1>1, <1>2, <1>3, <1>4 DEF Next, vars, SignIn, SignOut, RevokeCommit, AcceptCommit, Abort,
             CreateTripCommit, CreateInvitation, InvitationExpires, RemoveMember, DeleteTrip

OwnedIsBounded == \A u \in Users : Cardinality(Owned(u)) <= MaxTrips

LEMMA CreateLockStep ==
  ASSUME TypeOK, TypeOK', CreateLockHolds, OwnedIsBounded, [Next]_vars
  PROVE  CreateLockHolds' /\ OwnedIsBounded'
<1>1. ASSUME NEW u \in Users PROVE (Cardinality(Owned(u)) <= MaxTrips)'
  <2>1. IsFiniteSet(Owned(u)) /\ Cardinality(Owned(u)) \in Nat /\ Cardinality(Owned(u)) <= MaxTrips
    BY OwnedIsFinite DEF OwnedIsBounded
  <2>2. CASE Owned(u)' \subseteq Owned(u)
    <3>1. Cardinality(Owned(u)') \in Nat /\ Cardinality(Owned(u)') <= Cardinality(Owned(u))
      BY <2>1, <2>2, FS_Subset, FS_CardinalityType
    <3> QED BY <2>1, <3>1, MembershipBounds
  <2>3. ASSUME NEW h \in Handlers, NEW t \in Trips, Creating(h), req[h].user = u,
               Owned(u)' = Owned(u) \cup {t}
        PROVE  (Cardinality(Owned(u)) <= MaxTrips)'
    <3>1. Cardinality(Owned(u)) < MaxTrips
      BY <2>3 DEF CreateLockHolds
    <3>2. Cardinality(Owned(u)') <= Cardinality(Owned(u)) + 1 /\ Cardinality(Owned(u)') \in Nat
      <4>1. /\ IsFiniteSet(Owned(u) \cup {t})
            /\ Cardinality(Owned(u) \cup {t})
                 = IF t \in Owned(u) THEN Cardinality(Owned(u)) ELSE Cardinality(Owned(u)) + 1
        BY <2>1, FS_AddElement
      <4> QED BY <2>1, <2>3, <4>1, FS_CardinalityType
    <3> QED BY <2>1, <3>1, <3>2, MembershipBounds
  <2> QED BY <2>2, <2>3, OwnedStep
<1>2. ASSUME NEW h \in Handlers, Creating(h)'
      PROVE  /\ \A g \in Handlers : Creating(g)' /\ req'[g].user = req'[h].user => g = h
             /\ (Cardinality(Owned(req[h].user)) < MaxTrips)'
  <2>0. req'[h] \in Requests
    BY DEF TypeOK
  <2>u. PICK u \in Users : u = req'[h].user
    BY <1>2, <2>0 DEF Requests, Idle, Creating
  <2>1. CASE Creating(h) /\ req'[h] = req[h]
    <3>1. \A g \in Handlers : Creating(g) /\ req[g].user = u => g = h
      BY <2>u, <2>1 DEF CreateLockHolds
    <3>2. ASSUME NEW g \in Handlers, Creating(g)', req'[g].user = u PROVE g = h
      <4>1. CASE Creating(g) /\ req'[g] = req[g]
        BY <3>1, <3>2, <4>1
      <4>2. CASE UserUnlocked(req'[g].user)
        BY <2>u, <2>1, <3>2, <4>2 DEF UserUnlocked, LockedBy, Creating
      <4> QED BY <3>2, <4>1, <4>2, CreatingStep
    <3>3. Owned(u)' \subseteq Owned(u)
      <4>1. ASSUME NEW g \in Handlers, NEW t \in Trips, CreateTripCommit(g, t), Creating(g), req[g].user = u
            PROVE  FALSE
        BY <4>1, <3>1, <1>2, <2>1 DEF CreateTripCommit, Finish, Creating, Idle, TypeOK
      <4> QED BY <2>u, <4>1, OwnedStep
    <3>4. Cardinality(Owned(u)) < MaxTrips
      BY <2>u, <2>1 DEF CreateLockHolds
    <3>5. Cardinality(Owned(u)') <= Cardinality(Owned(u)) /\ Cardinality(Owned(u)') \in Nat
      BY <2>u, <3>3, OwnedIsFinite, FS_Subset, FS_CardinalityType
    <3>6. Cardinality(Owned(u)') < MaxTrips
      BY <2>u, <3>4, <3>5, OwnedIsFinite, MembershipBounds
    <3> QED BY <2>u, <3>2, <3>6 DEF Owned
  <2>2. CASE /\ Cardinality(Owned(u)) < MaxTrips
             /\ UserUnlocked(u)
             /\ UNCHANGED owner
             /\ \A g \in Handlers : g # h => req'[g] = req[g]
    BY <2>u, <2>2 DEF UserUnlocked, LockedBy, Owned, Creating
  <2> QED BY <1>2, <2>u, <2>1, <2>2, CreatingStep
<1> QED BY <1>1, <1>2 DEF CreateLockHolds, OwnedIsBounded

LEMMA NamesStep ==
  ASSUME TypeOK, NamesAreFresh, AcceptLockHolds, [Next]_vars
  PROVE  NamesAreFresh'
<1> USE DEF TypeOK
<1> DEFINE Fresh ==
      /\ \A t \in deleted : ~Exists(t)
      /\ \A i \in Invitations :
           InvitationOf[i] \notin deleted /\ ~Exists(InvitationOf[i]) => invitation[i].uses = 0
<1>1. ASSUME NEW h \in Handlers, NEW t \in Trips, CreateTripCommit(h, t) PROVE Fresh'
  <2>1. req[h].user # Nobody
    BY <1>1, TypedRequest, MembershipNames DEF CreateTripCommit, Creating
  <2> QED BY <1>1, <2>1, MembershipNames DEF CreateTripCommit, NamesAreFresh, Exists
<1>2. ASSUME NEW u \in Users, NEW t \in Trips, DeleteTrip(u, t) PROVE Fresh'
  BY <1>2, MembershipNames DEF DeleteTrip, NamesAreFresh, Exists
<1>3. ASSUME UNCHANGED <<owner, deleted>>,
             \A i \in Invitations : Exists(InvitationOf[i]) \/ invitation'[i].uses = invitation[i].uses
      PROVE  Fresh'
  BY <1>3 DEF NamesAreFresh, Exists
<1>4. ASSUME NEW h \in Handlers, AcceptCommit(h) PROVE Fresh'
  <2>1. \A i \in Invitations : Exists(InvitationOf[i]) \/ invitation'[i].uses = invitation[i].uses
    BY <1>4 DEF AcceptCommit, Stored
  <2> QED BY <1>3, <1>4, <2>1 DEF AcceptCommit
<1>5. ASSUME NEW h \in Handlers, RevokeCommit(h) PROVE Fresh'
  BY <1>3, <1>5 DEF RevokeCommit, InvitationRows
<1>6. ASSUME NEW u \in Users, NEW i \in Invitations, CreateInvitation(u, i) PROVE Fresh'
  BY <1>3, <1>6 DEF CreateInvitation, InvitationRows
<1>8. ASSUME NEW i \in Invitations, InvitationExpires(i) PROVE Fresh'
  BY <1>3, <1>8 DEF InvitationExpires, InvitationRows
<1>7. ASSUME UNCHANGED <<owner, deleted, invitation>> PROVE Fresh'
  BY <1>3, <1>7
<1> QED BY <1>1, <1>2, <1>4, <1>5, <1>6, <1>7, <1>8 DEF Next, vars, SignIn, SignOut, Abort,
             CreateTripLoad, RevokeLoad, AcceptLoad, RemoveMember, NamesAreFresh

-----------------------------------------------------------------------------
(* The roster.                                                             *)

\* How accept_invitation, create_trip and remove_member change the rows of a
\* trip, and that otherwise rows go with their trip only.
RowAppended(h) ==
  LET t == InvitationOf[req[h].on]
      n == Len(members[t]) IN
  /\ t \in Trips /\ Exists(t) /\ req[h].on \in Invitations
  /\ n \in Nat /\ DOMAIN members[t] = 1 .. n /\ DOMAIN members'[t] = 1 .. n + 1
  /\ \A k \in 1 .. n : members'[t][k] = members[t][k]
  /\ members'[t][n + 1] =
       [user |-> req[h].user, owns |-> FALSE, removed |-> FALSE, through |-> req[h].on]
  /\ \A s \in Trips : s # t => members'[s] = members[s]
RowCreated(h, t) ==
  /\ req[h].user \in Users /\ owner'[t] = req[h].user /\ DOMAIN members'[t] = {1}
  /\ members'[t][1] = [user |-> req[h].user, owns |-> TRUE, removed |-> FALSE, through |-> Nobody]
  /\ \A s \in Trips : s # t => members'[s] = members[s] /\ owner'[s] = owner[s]

LEMMA AcceptRows ==
  ASSUME TypeOK, NEW h \in Handlers, AcceptCommit(h)
  PROVE  RowAppended(h)
<1> USE DEF TypeOK
<1> DEFINE t == InvitationOf[req[h].on]
<1>1. t \in Trips /\ Exists(t) /\ req[h].on \in Invitations
  BY TypedRequest DEF AcceptCommit, Accepting, Stored
<1>2. members[t] \in Seq(Rows)
  BY <1>1
<1>3. members' = [members EXCEPT ![t] =
        Append(members[t], [user |-> req[h].user, owns |-> FALSE, removed |-> FALSE, through |-> req[h].on])]
  BY DEF AcceptCommit
<1> QED BY <1>1, <1>2, <1>3 DEF RowAppended

LEMMA CreateRows ==
  ASSUME TypeOK, NEW h \in Handlers, NEW t \in Trips, CreateTripCommit(h, t)
  PROVE  RowCreated(h, t)
<1>1. req[h].user \in Users
  BY TypedRequest DEF CreateTripCommit, Creating
<1> QED BY <1>1 DEF CreateTripCommit, TypeOK, RowCreated

LEMMA RemoveRows ==
  ASSUME TypeOK, NEW u \in Users, NEW t \in Trips, NEW k \in 1..MaxRows, RemoveMember(u, t, k)
  PROVE  /\ \A s \in Trips : DOMAIN members'[s] = DOMAIN members[s]
         /\ \A s \in Trips : \A j \in DOMAIN members[s] :
              /\ members'[s][j].user = members[s][j].user
              /\ members'[s][j].owns = members[s][j].owns
              /\ members'[s][j].through = members[s][j].through
              /\ members[s][j].removed => members'[s][j].removed
              /\ members[s][j].owns => members'[s][j].removed = members[s][j].removed
<1> USE DEF TypeOK
<1> DEFINE row == [members[t][k] EXCEPT !.removed = TRUE]
<1>1. members[t] \in Seq(Rows) /\ k \in 1 .. Len(members[t])
  BY DEF RemoveMember
<1>2. members' = [members EXCEPT ![t] = [members[t] EXCEPT ![k] = row]]
  BY DEF RemoveMember
<1>3. members[t][k] \in Rows /\ ~members[t][k].owns
  BY <1>1, ElementOfSeq DEF RemoveMember, NotTheOwner
<1>4. /\ row.user = members[t][k].user /\ row.owns = members[t][k].owns
      /\ row.through = members[t][k].through /\ row.removed
  BY <1>3 DEF Rows
<1>5. /\ DOMAIN members'[t] = DOMAIN members[t]
      /\ \A j \in DOMAIN members[t] : members'[t][j] = IF j = k THEN row ELSE members[t][j]
  BY <1>1, <1>2
<1>6. \A s \in Trips : s # t => members'[s] = members[s]
  BY <1>2
<1> QED BY <1>3, <1>4, <1>5, <1>6

LEMMA RosterSteps ==
  ASSUME [Next]_vars
  PROVE  \/ UNCHANGED <<owner, members>>
         \/ \E h \in Handlers : AcceptCommit(h)
         \/ \E h \in Handlers, t \in Trips : CreateTripCommit(h, t)
         \/ \E u \in Users, t \in Trips : DeleteTrip(u, t)
         \/ \E u \in Users, t \in Trips, k \in 1..MaxRows : RemoveMember(u, t, k)
BY DEF Next, vars, SignIn, SignOut, RevokeCommit, Abort, CreateTripLoad, CreateInvitation,
       InvitationExpires, RevokeLoad, AcceptLoad

LEMMA OwnerStep ==
  ASSUME TypeOK, OneOwner, [Next]_vars
  PROVE  OneOwner'
<1> USE DEF TypeOK
<1> DEFINE Led(t) == Exists(t) =>
             /\ IsOwner(owner[t], t)
             /\ \A k \in DOMAIN members[t] : members[t][k].owns => members[t][k].user = owner[t]
<1> SUFFICES ASSUME NEW t \in Trips PROVE Led(t)'
  BY DEF OneOwner
<1>0. Led(t)
  BY DEF OneOwner
<1>1. ASSUME UNCHANGED <<owner[t], members[t]>> PROVE Led(t)'
  BY <1>0, <1>1 DEF Exists, IsOwner
<1>2. ASSUME NEW h \in Handlers, AcceptCommit(h) PROVE Led(t)'
  <2>r. RowAppended(h)
    BY <1>2, AcceptRows
  <2>1. UNCHANGED owner
    BY <1>2 DEF AcceptCommit
  <2>2. CASE t = InvitationOf[req[h].on]
    <3> DEFINE n == Len(members[t])
    <3>1. /\ Exists(t) /\ n \in Nat /\ DOMAIN members[t] = 1 .. n /\ DOMAIN members'[t] = 1 .. n + 1
          /\ \A k \in 1 .. n : members'[t][k] = members[t][k]
          /\ ~members'[t][n + 1].owns
      BY <2>2, <2>r DEF RowAppended
    <3>2. IsOwner(owner[t], t)'
      BY <1>0, <2>1, <3>1 DEF IsOwner, Active
    <3> QED BY <1>0, <2>1, <3>1, <3>2
  <2>3. CASE t # InvitationOf[req[h].on]
    BY <1>1, <1>2, <2>1, <2>3, <2>r DEF RowAppended
  <2> QED BY <2>2, <2>3
<1>3. ASSUME NEW h \in Handlers, NEW s \in Trips, CreateTripCommit(h, s) PROVE Led(t)'
  <2>r. RowCreated(h, s)
    BY <1>3, CreateRows
  <2>1. CASE t = s
    BY <1>3, <2>1, <2>r DEF Exists, IsOwner, Active, RowCreated
  <2>2. CASE t # s
    BY <1>1, <1>3, <2>2, <2>r DEF RowCreated
  <2> QED BY <2>1, <2>2
<1>4. ASSUME NEW u \in Users, NEW s \in Trips, DeleteTrip(u, s) PROVE Led(t)'
  <2>1. CASE t = s
    BY <1>4, <2>1 DEF DeleteTrip, Exists
  <2>2. CASE t # s
    BY <1>1, <1>4, <2>2 DEF DeleteTrip
  <2> QED BY <2>1, <2>2
<1>5. ASSUME NEW u \in Users, NEW s \in Trips, NEW k \in 1..MaxRows, RemoveMember(u, s, k) PROVE Led(t)'
  <2>1. UNCHANGED owner
    BY <1>5 DEF RemoveMember
  <2> QED BY <1>0, <1>5, <2>1, RemoveRows DEF Exists, IsOwner, Active
<1> QED BY <1>1, <1>2, <1>3, <1>4, <1>5, RosterSteps

LEMMA JoinedIsFinite ==
  ASSUME TypeOK, NEW i \in Invitations
  PROVE  IsFiniteSet(Joined(i)) /\ Cardinality(Joined(i)) \in Nat
<1> DEFINE n == Len(members[InvitationOf[i]])
<1>1. n \in Nat /\ Joined(i) \in SUBSET (1 .. n)
  BY MembershipNames DEF TypeOK, Joined
<1>2. IsFiniteSet(1 .. n)
  BY <1>1, FS_Interval
<1> QED BY <1>1, <1>2, FS_Subset, FS_CardinalityType

LEMMA JoinsStep ==
  ASSUME TypeOK, JoinsAreCounted, AcceptLockHolds, NamesAreFresh, [Next]_vars
  PROVE  JoinsAreCounted'
<1> USE DEF TypeOK
<1> DEFINE Counted(i) == Exists(InvitationOf[i]) => invitation[i].uses = Cardinality(Joined(i))
<1> SUFFICES ASSUME NEW i \in Invitations PROVE Counted(i)'
  BY DEF JoinsAreCounted
<1> DEFINE t == InvitationOf[i]
<1>0. Counted(i) /\ t \in Trips
  BY MembershipNames DEF JoinsAreCounted
<1>u. ASSUME ~\E h \in Handlers : AcceptCommit(h) /\ req[h].on = i
      PROVE  invitation'[i].uses = invitation[i].uses
  <2>1. ASSUME NEW h \in Handlers, AcceptCommit(h) PROVE invitation'[i].uses = invitation[i].uses
    BY <1>u, <2>1 DEF AcceptCommit
  <2>2. ASSUME NEW h \in Handlers, RevokeCommit(h) PROVE invitation'[i].uses = invitation[i].uses
    BY <2>2 DEF RevokeCommit, InvitationRows
  <2>3. ASSUME NEW u \in Users, NEW j \in Invitations, CreateInvitation(u, j)
        PROVE  invitation'[i].uses = invitation[i].uses
    BY <2>3 DEF CreateInvitation, InvitationRows
  <2>4. ASSUME NEW j \in Invitations, InvitationExpires(j) PROVE invitation'[i].uses = invitation[i].uses
    BY <2>4 DEF InvitationExpires, InvitationRows
  <2> QED BY <2>1, <2>2, <2>3, <2>4 DEF Next, vars, SignIn, SignOut, Abort, CreateTripLoad,
               CreateTripCommit, RevokeLoad, AcceptLoad, RemoveMember, DeleteTrip
<1>1. ASSUME UNCHANGED <<owner[t], members[t]>>, invitation'[i].uses = invitation[i].uses PROVE Counted(i)'
  BY <1>0, <1>1 DEF Exists, Joined
<1>2. ASSUME NEW h \in Handlers, AcceptCommit(h), req[h].on = i PROVE Counted(i)'
  <2>r. RowAppended(h)
    BY <1>2, AcceptRows
  <2> DEFINE n == Len(members[t])
  <2>1. Exists(t) /\ n \in Nat /\ DOMAIN members[t] = 1 .. n
    BY <1>2, <2>r DEF RowAppended
  <2>2. Joined(i)' = Joined(i) \cup {n + 1}
    BY <1>2, <2>1, <2>r DEF Joined, RowAppended
  <2>3. n + 1 \notin Joined(i)
    BY <2>1 DEF Joined
  <2>4. Cardinality(Joined(i) \cup {n + 1}) = Cardinality(Joined(i)) + 1
    BY <2>3, JoinedIsFinite, FS_AddElement
  <2>5. invitation'[i].uses = invitation[i].uses + 1
    BY <1>2 DEF AcceptCommit, AcceptLockHolds, Accepting, InvitationRows
  <2> QED BY <1>0, <2>1, <2>2, <2>4, <2>5
<1>3. ASSUME NEW h \in Handlers, AcceptCommit(h), req[h].on # i PROVE Counted(i)'
  <2>r. RowAppended(h)
    BY <1>3, AcceptRows
  <2>1. invitation'[i].uses = invitation[i].uses /\ UNCHANGED owner
    BY <1>3 DEF AcceptCommit
  <2>2. Joined(i)' = Joined(i)
    <3>1. CASE t = InvitationOf[req[h].on]
      <4> DEFINE n == Len(members[t])
      <4>1. /\ n \in Nat /\ DOMAIN members[t] = 1 .. n /\ DOMAIN members'[t] = 1 .. n + 1
            /\ \A k \in 1 .. n : members'[t][k] = members[t][k]
            /\ members'[t][n + 1].through # i
        BY <1>3, <3>1, <2>r DEF RowAppended
      <4> QED BY <4>1 DEF Joined
    <3>2. CASE t # InvitationOf[req[h].on]
      BY <1>0, <1>3, <3>2, <2>r DEF Joined, RowAppended
    <3> QED BY <3>1, <3>2
  <2> QED BY <1>0, <2>1, <2>2 DEF Exists
<1>4. ASSUME NEW h \in Handlers, NEW s \in Trips, CreateTripCommit(h, s) PROVE Counted(i)'
  <2>r. RowCreated(h, s)
    BY <1>4, CreateRows
  <2>1. invitation' = invitation
    BY <1>4 DEF CreateTripCommit
  <2>2. CASE s = t
    <3>1. invitation[i].uses = 0
      BY <1>4, <2>2 DEF CreateTripCommit, NamesAreFresh
    <3>2. Joined(i)' = {}
      BY <1>4, <2>2, <2>r, MembershipNames DEF Joined, RowCreated
    <3>3. Cardinality(Joined(i)') = 0
      BY <3>2, FS_EmptySet
    <3> QED BY <2>1, <3>1, <3>3
  <2>3. CASE s # t
    BY <1>0, <1>1, <1>4, <2>1, <2>3, <2>r DEF RowCreated
  <2> QED BY <2>2, <2>3
<1>5. ASSUME NEW u \in Users, NEW s \in Trips, DeleteTrip(u, s) PROVE Counted(i)'
  <2>1. CASE s = t
    BY <1>5, <2>1 DEF DeleteTrip, Exists
  <2>2. CASE s # t
    BY <1>0, <1>1, <1>5, <2>2 DEF DeleteTrip
  <2> QED BY <2>1, <2>2
<1>6. ASSUME NEW u \in Users, NEW s \in Trips, NEW k \in 1..MaxRows, RemoveMember(u, s, k) PROVE Counted(i)'
  <2>1. UNCHANGED <<owner, invitation>>
    BY <1>6 DEF RemoveMember
  <2>2. Joined(i)' = Joined(i)
    BY <1>0, <1>6, RemoveRows DEF Joined
  <2> QED BY <1>0, <2>1, <2>2 DEF Exists
<1>7. CASE UNCHANGED <<owner, members>>
  BY <1>1, <1>2, <1>7, <1>u
<1> QED BY <1>2, <1>3, <1>4, <1>5, <1>6, <1>7, RosterSteps

LEMMA MembershipStep ==
  ASSUME TypeOK, OneActiveMembership, AcceptLockHolds, [Next]_vars
  PROVE  OneActiveMembership'
<1> USE DEF TypeOK
<1> DEFINE Once(t) == \A j, k \in DOMAIN members[t] :
             members[t][j].user = members[t][k].user
               /\ Active(members[t][j]) /\ Active(members[t][k]) => j = k
<1> SUFFICES ASSUME NEW t \in Trips, \A i, j \in InvitationsOf(t) : i = j PROVE Once(t)'
  BY DEF OneActiveMembership, InvitationsOf
<1>0. Once(t)
  BY DEF OneActiveMembership
<1>1. ASSUME UNCHANGED members[t] PROVE Once(t)'
  BY <1>0, <1>1 DEF Active
<1>2. ASSUME NEW h \in Handlers, AcceptCommit(h) PROVE Once(t)'
  <2>r. RowAppended(h)
    BY <1>2, AcceptRows
  <2>1. CASE t = InvitationOf[req[h].on]
    <3>1. Accepting(h) /\ req[h].on \in Invitations
      BY <1>2, <2>r DEF AcceptCommit, Accepting, RowAppended
    <3>2. OnlyInvitation(req[h].on)
      BY <2>1, <3>1 DEF OnlyInvitation, InvitationsOf
    <3>3. ~IsMember(req[h].user, t)
      BY <2>1, <3>1, <3>2 DEF AcceptLockHolds
    <3> DEFINE n == Len(members[t])
    <3>4. /\ n \in Nat /\ DOMAIN members[t] = 1 .. n /\ DOMAIN members'[t] = 1 .. n + 1
          /\ \A k \in 1 .. n : members'[t][k] = members[t][k]
          /\ members'[t][n + 1].user = req[h].user
      BY <1>2, <2>1, <2>r DEF RowAppended
    <3>5. \A k \in 1 .. n : members[t][k].user = req[h].user => members[t][k].removed
      BY <3>3, <3>4 DEF IsMember, Active
    <3> QED BY <1>0, <3>4, <3>5 DEF Active
  <2>2. CASE t # InvitationOf[req[h].on]
    BY <1>1, <1>2, <2>2, <2>r DEF RowAppended
  <2> QED BY <2>1, <2>2
<1>3. ASSUME NEW h \in Handlers, NEW s \in Trips, CreateTripCommit(h, s) PROVE Once(t)'
  <2>r. RowCreated(h, s)
    BY <1>3, CreateRows
  <2>1. CASE t = s
    BY <1>3, <2>1, <2>r DEF RowCreated
  <2>2. CASE t # s
    BY <1>1, <1>3, <2>2, <2>r DEF RowCreated
  <2> QED BY <2>1, <2>2
<1>4. ASSUME NEW u \in Users, NEW s \in Trips, DeleteTrip(u, s) PROVE Once(t)'
  <2>1. CASE t = s
    BY <1>4, <2>1 DEF DeleteTrip
  <2>2. CASE t # s
    BY <1>1, <1>4, <2>2 DEF DeleteTrip
  <2> QED BY <2>1, <2>2
<1>5. ASSUME NEW u \in Users, NEW s \in Trips, NEW k \in 1..MaxRows, RemoveMember(u, s, k) PROVE Once(t)'
  BY <1>0, <1>5, RemoveRows DEF Active
<1> QED BY <1>1, <1>2, <1>3, <1>4, <1>5, RosterSteps

-----------------------------------------------------------------------------
(* The inductive invariant and what follows from it.                       *)

RosterInv ==
  /\ TypeOK
  /\ AcceptLockHolds /\ CreateLockHolds /\ OwnedIsBounded /\ NamesAreFresh
  /\ OneOwner /\ JoinsAreCounted /\ OneActiveMembership

LEMMA RosterInvInit == Init => RosterInv
<1> SUFFICES ASSUME Init PROVE RosterInv
  OBVIOUS
<1>1. TypeOK
  BY MembershipNames, MembershipBounds DEF Init, TypeOK, InvitationRows, Requests, Rows
<1>2. \A h \in Handlers : ~Accepting(h) /\ ~Creating(h)
  BY DEF Init, Idle, Accepting, Creating
<1>3. AcceptLockHolds /\ CreateLockHolds
  BY <1>2 DEF AcceptLockHolds, CreateLockHolds
<1>4. \A t \in Trips : ~Exists(t) /\ DOMAIN members[t] = {}
  BY DEF Init, Exists
<1>5. OwnedIsBounded
  <2>1. \A u \in Users : Owned(u) = {}
    BY MembershipNames DEF Init, Owned
  <2> QED BY <2>1, FS_EmptySet, MembershipBounds DEF OwnedIsBounded
<1>6. NamesAreFresh
  BY DEF Init, NamesAreFresh
<1>7. OneOwner /\ OneActiveMembership
  BY <1>4 DEF OneOwner, OneActiveMembership
<1>8. JoinsAreCounted
  BY <1>4, MembershipNames DEF JoinsAreCounted
<1> QED BY <1>1, <1>3, <1>5, <1>6, <1>7, <1>8 DEF RosterInv

LEMMA RosterInvHolds == Spec => []RosterInv
<1>1. RosterInv /\ [Next]_vars /\ TypeOK' => RosterInv'
  BY AcceptLockStep, CreateLockStep, NamesStep, OwnerStep, JoinsStep, MembershipStep DEF RosterInv
<1> QED BY <1>1, RosterInvInit, TypeCorrect, PTL DEF Spec

\* However many requests are served at once: nobody owns more trips than the
\* tier allows, the requests in progress counted; every trip has its one owner;
\* an invitation has been used once for everybody who joined through it; and a
\* trip with one invitation has one active row per member.
THEOREM RosterHolds == Spec => []RosterIsTrue
<1>1. RosterInv => RosterIsTrue
  <2> SUFFICES ASSUME RosterInv PROVE TripsWithinLimit
    BY DEF RosterInv, RosterIsTrue
  <2> SUFFICES ASSUME NEW u \in Users
               PROVE  Cardinality(Owned(u)) +
                        Cardinality({h \in Handlers : req[h].at = "creating" /\ req[h].user = u}) <= MaxTrips
    BY DEF TripsWithinLimit
  <2> DEFINE C == {h \in Handlers : req[h].at = "creating" /\ req[h].user = u}
  <2>1. Cardinality(Owned(u)) \in Nat /\ Cardinality(Owned(u)) <= MaxTrips /\ MaxTrips \in Nat
    BY OwnedIsFinite, MembershipBounds DEF RosterInv, OwnedIsBounded
  <2>2. CASE C = {}
    <3>1. Cardinality(C) = 0
      BY <2>2, FS_EmptySet
    <3> QED BY <2>1, <3>1
  <2>3. ASSUME NEW h \in C PROVE Cardinality(Owned(u)) + Cardinality(C) <= MaxTrips
    <3>1. C = {h} /\ Cardinality(Owned(u)) < MaxTrips
      BY <2>3 DEF RosterInv, CreateLockHolds, Creating
    <3>2. Cardinality(C) = 1
      BY <3>1, FS_Singleton
    <3> QED BY <2>1, <3>1, <3>2
  <2> QED BY <2>2, <2>3
<1> QED BY <1>1, RosterInvHolds, PTL

\* Once a revocation is committed nobody joins through the invitation: the
\* request that would still add a member holds the lock the revocation needs.
THEOREM RevocationHolds == Spec => RevokedAdmitsNobody
<1> DEFINE Admits == \A h \in Handlers :
       req[h].at = "accepting" /\ members' # members /\ req'[h].at = "idle"
         => ~invitation[req[h].on].revoked
<1>1. RosterInv /\ [Next]_vars => [Admits]_vars
  BY DEF RosterInv, AcceptLockHolds, Accepting
<1> QED BY <1>1, RosterInvHolds, PTL DEF Spec, RevokedAdmitsNobody
===============================================================================
