------------------------------- MODULE Membership -------------------------------
(* Who may work on a trip: trips and their owners, invitations, the members  *)
(* who join through them and leave.  A request runs in one transaction at    *)
(* READ COMMITTED; accept_invitation and create_trip lock one row FOR UPDATE *)
(* before they read what they decide on, revoke_invitation locks nothing.    *)
EXTENDS Naturals, Sequences, FiniteSets

CONSTANTS
  Users, Trips, Invitations,
  InvitationOf,  \* the trip each invitation is for
  Handlers,      \* threads of the API that serve requests
  MaxTrips,      \* max_trips_per_user of the tier
  MaxUses,       \* TRIPWEAVE_INVITATION_MAX_USES
  MaxRows,       \* bound: rows of trip_members a trip may ever have
  Nobody

ASSUME MembershipNames ==
  Nobody \notin Users \cup Invitations /\ InvitationOf \in [Invitations -> Trips]
ASSUME MembershipFinite == IsFiniteSet(Trips)
ASSUME MembershipBounds == {MaxTrips, MaxUses, MaxRows} \subseteq Nat \ {0}

VARIABLES
  signedIn,   \* users with a session neither revoked nor expired
  owner,      \* trips.created_by, Nobody when there is no such row
  deleted,    \* trips that were deleted
  members,    \* trip_members of each trip, in the order they joined
  invitation, \* trip_invitations
  req         \* what each handler has locked or read

vars == <<signedIn, owner, deleted, members, invitation, req>>

\* through is history: the invitation by which the member joined.
Rows == [user : Users, owns : BOOLEAN, removed : BOOLEAN, through : Invitations \cup {Nobody}]
InvitationRows == [issued : BOOLEAN, revoked : BOOLEAN, expired : BOOLEAN, uses : 0..MaxUses]
Idle == [at |-> "idle", user |-> Nobody, on |-> Nobody, uses |-> 0]
Requests ==
  {Idle}
    \cup [at : {"creating"}, user : Users, on : {Nobody}, uses : {0}]
    \cup [at : {"revoking"}, user : Users, on : Invitations, uses : {0}]
    \cup [at : {"accepting"}, user : Users, on : Invitations, uses : 0 .. MaxUses - 1]

\* Types, and that the CHECK constraint on use_count never fires.
TypeOK ==
  /\ signedIn \in SUBSET Users
  /\ owner \in [Trips -> Users \cup {Nobody}]
  /\ deleted \in SUBSET Trips
  /\ members \in [Trips -> Seq(Rows)]
  /\ invitation \in [Invitations -> InvitationRows]
  /\ req \in [Handlers -> Requests]

Init ==
  /\ signedIn = {}
  /\ owner = [t \in Trips |-> Nobody]
  /\ deleted = {}
  /\ members = [t \in Trips |-> <<>>]
  /\ invitation = [i \in Invitations |->
       [issued |-> FALSE, revoked |-> FALSE, expired |-> FALSE, uses |-> 0]]
  /\ req = [h \in Handlers |-> Idle]

Exists(t) == owner[t] # Nobody
Owned(u) == {t \in Trips : owner[t] = u}
Active(row) == ~row.removed
IsMember(u, t) == \E k \in DOMAIN members[t] : members[t][k].user = u /\ Active(members[t][k])
IsOwner(u, t) ==
  \E k \in DOMAIN members[t] :
    members[t][k].user = u /\ Active(members[t][k]) /\ members[t][k].owns
InvitationsOf(t) == {i \in Invitations : InvitationOf[i] = t}

\* Row locks: what a request at this point of its transaction holds.
LockedBy(x, place, field) == \E h \in Handlers : req[h].at = place /\ req[h][field] = x
UserNeverLocked(u) == TRUE
UserUnlocked(u) == ~LockedBy(u, "creating", "user")
InvitationNeverLocked(i) == TRUE
InvitationUnlocked(i) == ~LockedBy(i, "accepting", "on")

(* Sessions: current_user asks for one on every request. *)
SignIn(u) ==
  /\ signedIn' = signedIn \cup {u}
  /\ UNCHANGED <<owner, deleted, members, invitation, req>>
SignOut(u) ==
  /\ signedIn' = signedIn \ {u}
  /\ UNCHANGED <<owner, deleted, members, invitation, req>>

Begin(h, u, request) ==
  /\ req[h] = Idle /\ u \in signedIn
  /\ req' = [req EXCEPT ![h] = request]
Finish(h) == req' = [req EXCEPT ![h] = Idle]

(* create_trip counts the trips of the user under a lock on the user. *)
CreateTripLoad(h, u) ==
  /\ UserUnlocked(u)
  /\ Cardinality(Owned(u)) < MaxTrips
  /\ Begin(h, u, [Idle EXCEPT !.at = "creating", !.user = u])
  /\ UNCHANGED <<signedIn, owner, deleted, members, invitation>>
CreateTripCommit(h, t) ==
  /\ req[h].at = "creating" /\ ~Exists(t) /\ t \notin deleted
  /\ owner' = [owner EXCEPT ![t] = req[h].user]
  /\ members' = [members EXCEPT ![t] =
       <<[user |-> req[h].user, owns |-> TRUE, removed |-> FALSE, through |-> Nobody]>>]
  /\ Finish(h)
  /\ UNCHANGED <<signedIn, deleted, invitation>>

CreateInvitation(u, i) ==
  /\ u \in signedIn /\ IsOwner(u, InvitationOf[i])
  /\ ~invitation[i].issued
  /\ invitation' = [invitation EXCEPT ![i].issued = TRUE]
  /\ UNCHANGED <<signedIn, owner, deleted, members, req>>
InvitationExpires(i) ==
  /\ invitation[i].issued /\ ~invitation[i].expired
  /\ invitation' = [invitation EXCEPT ![i].expired = TRUE]
  /\ UNCHANGED <<signedIn, owner, deleted, members, req>>

\* The row goes with its trip, by ON DELETE CASCADE.
Stored(i) == invitation[i].issued /\ Exists(InvitationOf[i])
UsedUp(i) == invitation[i].uses >= MaxUses
Usable(i) ==
  Stored(i) /\ ~invitation[i].revoked /\ ~invitation[i].expired /\ ~UsedUp(i)

(* The commit of revoke_invitation waits for whoever accepts the invitation. *)
RevokeLoad(h, u, i) ==
  /\ Stored(i) /\ IsOwner(u, InvitationOf[i])
  /\ Begin(h, u, [Idle EXCEPT !.at = "revoking", !.user = u, !.on = i])
  /\ UNCHANGED <<signedIn, owner, deleted, members, invitation>>
RevokeCommit(h) ==
  /\ req[h].at = "revoking" /\ Stored(req[h].on) /\ InvitationUnlocked(req[h].on)
  /\ invitation' = [invitation EXCEPT ![req[h].on].revoked = TRUE]
  /\ Finish(h)
  /\ UNCHANGED <<signedIn, owner, deleted, members>>

(* accept_invitation.  A user who is a member already gets that membership;  *)
(* a removed one is not among the rows member_for_trip selects, and joins.   *)
AcceptLoad(h, u, i) ==
  /\ InvitationUnlocked(i) /\ Usable(i) /\ ~IsMember(u, InvitationOf[i])
  /\ Begin(h, u, [at |-> "accepting", user |-> u, on |-> i, uses |-> invitation[i].uses])
  /\ UNCHANGED <<signedIn, owner, deleted, members, invitation>>
AcceptCommit(h) ==
  LET i == req[h].on
      t == InvitationOf[i] IN
  /\ req[h].at = "accepting" /\ Stored(i) /\ UserUnlocked(req[h].user)
  /\ Len(members[t]) < MaxRows
  /\ members' = [members EXCEPT ![t] =
       Append(@, [user |-> req[h].user, owns |-> FALSE, removed |-> FALSE, through |-> i])]
  /\ invitation' = [invitation EXCEPT ![i].uses = req[h].uses + 1]
  /\ Finish(h)
  /\ UNCHANGED <<signedIn, owner, deleted>>

\* The owner's row cannot be removed; a row is never removed twice to effect.
EvenTheOwner(row) == Active(row)
NotTheOwner(row) == Active(row) /\ ~row.owns
RemoveMember(u, t, k) ==
  /\ u \in signedIn /\ IsOwner(u, t)
  /\ k \in DOMAIN members[t] /\ NotTheOwner(members[t][k])
  /\ members' = [members EXCEPT ![t][k].removed = TRUE]
  /\ UNCHANGED <<signedIn, owner, deleted, invitation, req>>

\* The delete cascades to the invitations and waits for their locks.
DeleteTrip(u, t) ==
  /\ u \in signedIn /\ Exists(t) /\ IsOwner(u, t)
  /\ \A i \in InvitationsOf(t) : InvitationUnlocked(i)
  /\ owner' = [owner EXCEPT ![t] = Nobody]
  /\ deleted' = deleted \cup {t}
  /\ members' = [members EXCEPT ![t] = <<>>]
  /\ UNCHANGED <<signedIn, invitation, req>>

\* An error, a lost connection or a deadlock rolls a request back.
Abort(h) ==
  /\ req[h] # Idle /\ Finish(h)
  /\ UNCHANGED <<signedIn, owner, deleted, members, invitation>>

Next ==
  \/ \E u \in Users : SignIn(u) \/ SignOut(u)
  \/ \E h \in Handlers : RevokeCommit(h) \/ AcceptCommit(h) \/ Abort(h)
  \/ \E h \in Handlers, u \in Users : CreateTripLoad(h, u)
  \/ \E h \in Handlers, t \in Trips : CreateTripCommit(h, t)
  \/ \E u \in Users, i \in Invitations : CreateInvitation(u, i)
  \/ \E i \in Invitations : InvitationExpires(i)
  \/ \E h \in Handlers, u \in Users, i \in Invitations :
       RevokeLoad(h, u, i) \/ AcceptLoad(h, u, i)
  \/ \E u \in Users, t \in Trips, k \in 1..MaxRows : RemoveMember(u, t, k)
  \/ \E u \in Users, t \in Trips : DeleteTrip(u, t)

Spec == Init /\ [][Next]_vars

(***************************************************************************)
(* Properties                                                              *)
(***************************************************************************)

\* However many requests a user sends at once, create_trip keeps to the limit
\* of the tier, counting the requests that are past the check.
TripsWithinLimit ==
  \A u \in Users :
    Cardinality(Owned(u)) + Cardinality({h \in Handlers : req[h].at = "creating" /\ req[h].user = u})
      <= MaxTrips

\* Every trip has one owner: the active owner's row is the one of created_by.
\* A trip without would be out of reach of every endpoint that manages it.
OneOwner ==
  \A t \in Trips : Exists(t) =>
    /\ IsOwner(owner[t], t)
    /\ \A k \in DOMAIN members[t] : members[t][k].owns => members[t][k].user = owner[t]

\* Everybody who joined through an invitation has used it up by one: no two
\* acceptances are counted as one, so none admits more than max_uses.
Joined(i) == {k \in DOMAIN members[InvitationOf[i]] : members[InvitationOf[i]][k].through = i}
JoinsAreCounted ==
  \A i \in Invitations : Exists(InvitationOf[i]) => invitation[i].uses = Cardinality(Joined(i))

\* A user has one active row in a trip that has one invitation, however often
\* the acceptance is sent; member_for_trip raises on a second one.
OneActiveMembership ==
  \A t \in Trips : (\A i, j \in InvitationsOf(t) : i = j) =>
    \A j, k \in DOMAIN members[t] :
      members[t][j].user = members[t][k].user
        /\ Active(members[t][j]) /\ Active(members[t][k]) => j = k

\* The four together: who owns and who belongs to a trip is what the requests
\* that were answered say.
RosterIsTrue == TripsWithinLimit /\ OneOwner /\ JoinsAreCounted /\ OneActiveMembership

\* Once a revocation is committed nobody joins through the invitation, those
\* who were accepting it at the time included.
RevokedAdmitsNobody ==
  [][\A h \in Handlers :
       req[h].at = "accepting" /\ members' # members /\ req'[h].at = "idle"
         => ~invitation[req[h].on].revoked]_vars
=============================================================================
