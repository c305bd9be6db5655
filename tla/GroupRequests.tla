--------------------------- MODULE GroupRequests ----------------------------
(***************************************************************************)
(* GroupService with overlapping requests.  A request loads the rows its   *)
(* view needs, checks the membership of the actor and of the target, each  *)
(* with a SELECT of its own, and writes at the end; other requests run     *)
(* between any two of these steps, and nothing is checked again (no row is *)
(* locked by a SELECT, isolation is READ COMMITTED).  The statements of a  *)
(* final transaction are one step: nobody sees them before the commit, and *)
(* the counts written with them are MemberCount's subject.  mute is left   *)
(* out: no operation reads what it writes.                                 *)
(***************************************************************************)
EXTENDS GroupPermissions, FiniteSets

CONSTANTS
  Workers,           \* requests being served at the same time
  Users, Owner,
  Link,              \* the invite row the group may have
  CustomGrants,      \* [user -> permissions of the member's custom role]
  RowIds,            \* numbers of the JoinRequest rows, a bound on them
  Ops,               \* operations the workers run
  VisibilityInputs, RoleInputs, MaxUsesInputs,
  UsesBound          \* bound on the uses of an unlimited invite

ASSUME OwnerAssumption == Owner \in Users
ASSUME GrantsAssumption == CustomGrants \in [Users -> SUBSET GroupPerm]
ASSUME WorkersAssumption == IsFiniteSet(Workers)
ASSUME InputsAssumption ==
  /\ VisibilityInputs \subseteq {"public", "private", "invite"}
  /\ RoleInputs \subseteq Role
  /\ MaxUsesInputs \subseteq Nat
  /\ UsesBound \in Nat
  /\ RowIds \subseteq Nat

VARIABLES
  visibility, isDeleted,  \* the Group row
  member,                 \* [user -> its GroupMember row]
  invite,                 \* the Invite row
  row,                    \* [row id -> JoinRequest]
  req,                    \* the request each worker serves
  pc,                     \* its next step
  snap                    \* what it has read and not read again

shared == <<visibility, isDeleted, member, invite, row>>
vars == <<visibility, isDeleted, member, invite, row, req, pc, snap>>

NoMember == [role |-> "member", status |-> "none"]
NoInvite == [created |-> FALSE, maxUses |-> 0, uses |-> 0, revoked |-> FALSE]
NoRow == [user |-> Owner, status |-> "none"]
NoReq == [op |-> "none", by |-> Owner, on |-> Owner, arg |-> "none"]
NoSnap == [visibility |-> "public", status |-> "none", role |-> "member"]

Init ==
  /\ visibility \in VisibilityInputs
  /\ isDeleted = FALSE
  /\ member = [u \in Users |->
       IF u = Owner THEN [role |-> "owner", status |-> "active"] ELSE NoMember]
  /\ invite = NoInvite
  /\ row = [r \in RowIds |-> NoRow]
  /\ req = [w \in Workers |-> NoReq]
  /\ pc = [w \in Workers |-> "idle"]
  /\ snap = [w \in Workers |-> NoSnap]

-----------------------------------------------------------------------------
(* Requests *)

Active(u) == IsActive(member[u])
Banned(u) == member[u].status = "banned"
Holds(u, perm) == Can(member[u], CustomGrants[u], perm)

\* Mutant of IsUsable: the uses are not counted.
IsLive(inv) == inv.created /\ ~inv.revoked
IsUsable(inv) ==
  inv.created /\ ~(inv.revoked \/ (inv.maxUses > 0 /\ inv.uses >= inv.maxUses))

\* The permission _require asks of the actor, by operation.
Needs == [kick |-> "kick_members", ban |-> "ban_members", unban |-> "ban_members",
          set_role |-> "manage_roles", create_invite |-> "manage_invites",
          revoke_invite |-> "manage_invites", approve |-> "approve_requests",
          reject |-> "approve_requests", update |-> "manage_group"]

Joining == {"join", "redeem"}

\* What a client may send.
Requests ==
  {[op |-> o, by |-> u, on |-> u, arg |-> "none"] :
     o \in {"join", "redeem", "leave"} \intersect Ops, u \in Users}
  \union [op : {"kick", "ban", "unban"} \intersect Ops, by : Users, on : Users, arg : {"none"}]
  \union [op : {"set_role"} \intersect Ops, by : Users, on : Users, arg : RoleInputs]
  \union [op : {"create_invite"} \intersect Ops, by : Users, on : {Owner}, arg : MaxUsesInputs]
  \union [op : {"revoke_invite", "delete"} \intersect Ops, by : Users, on : {Owner}, arg : {"none"}]
  \union [op : {"update"} \intersect Ops, by : Users, on : {Owner}, arg : VisibilityInputs]
  \union [op : {"approve", "reject"} \intersect Ops, by : Users, on : Users, arg : RowIds]

Goto(w, label) == pc' = [pc EXCEPT ![w] = label]

\* A refused or finished request leaves no trace in its worker.
Over(w) ==
  /\ Goto(w, "idle")
  /\ req' = [req EXCEPT ![w] = NoReq]
  /\ snap' = [snap EXCEPT ![w] = NoSnap]

\* Check a condition on what is read now: go on, or refuse.
Proceed(w, ok, label, s) ==
  IF ok THEN /\ Goto(w, label)
             /\ snap' = [snap EXCEPT ![w] = s]
             /\ UNCHANGED req
        ELSE Over(w)

\* Bounds: one invite row; enough request rows for every request in flight.
WithinBounds(q) ==
  /\ q.op = "create_invite" =>
       ~invite.created /\ \A w \in Workers : req[w].op # "create_invite"
  /\ q.op = "redeem" => invite.uses < UsesBound
  /\ q.op = "join" =>
       Cardinality({r \in RowIds : row[r] = NoRow}) >= Cardinality(Workers)

Arrive(w, q) ==
  /\ pc[w] = "idle"
  /\ WithinBounds(q)
  /\ req' = [req EXCEPT ![w] = q]
  /\ Goto(w, "load")
  /\ UNCHANGED <<visibility, isDeleted, member, invite, row, snap>>

-----------------------------------------------------------------------------
(* Reads *)

\* Mutant of Load: the group is looked up among all rows.
LoadAnyGroup(w) ==
  LET q == req[w]
  IN /\ pc[w] = "load"
     /\ Proceed(w, q.op \notin {"redeem", "revoke_invite", "approve", "reject"},
                IF q.op \in Joining \union {"leave"} THEN "target" ELSE "actor",
                [snap[w] EXCEPT !.visibility = visibility])
     /\ UNCHANGED shared

\* The view's lookups: the live group by its slug, the request row, or the
\* invite by its code (usable when read, its group not looked at).
Load(w) ==
  LET q == req[w]
      found == CASE q.op = "redeem" -> IsUsable(invite)
                 [] q.op = "revoke_invite" -> invite.created
                 [] q.op = "unban" -> TRUE
                 [] q.op \in {"approve", "reject"} ->
                      ~isDeleted /\ row[q.arg] # NoRow /\ row[q.arg].user = q.on
                 [] OTHER -> ~isDeleted
      seen == IF q.op \in {"approve", "reject"} THEN row[q.arg].status ELSE "none"
  IN /\ pc[w] = "load"
     /\ Proceed(w, found, IF q.op \in Joining \union {"leave"} THEN "target" ELSE "actor",
                [snap[w] EXCEPT !.visibility = visibility, !.status = seen])
     /\ UNCHANGED shared

\* _require (or delete's own check): the actor's row, read once.
CheckActor(w) ==
  LET q == req[w]
      ok == CASE q.op = "delete" -> member[q.by].role = "owner"
              [] q.op \in {"approve", "reject"} ->
                   Holds(q.by, Needs[q.op]) /\ snap[w].status = "pending"
              [] OTHER -> Holds(q.by, Needs[q.op])
      next == CASE q.op \in {"kick", "ban", "unban", "set_role"} -> "target"
                [] q.op = "approve" -> "get"
                [] OTHER -> "save"
  IN /\ pc[w] = "actor"
     /\ Proceed(w, ok, next, [snap[w] EXCEPT !.role = member[q.by].role])
     /\ UNCHANGED shared

\* Mutant of TargetOK: join and redeem do not look for a ban.
TargetUnbanned(w) ==
  LET q == req[w]
      m == member[q.on]
      above == Outranks([role |-> snap[w].role], m)
  IN CASE q.op \in Joining -> ~IsActive(m)
       [] q.op = "leave" -> IsActive(m) /\ m.role # "owner"
       [] q.op \in {"kick", "ban"} -> IsActive(m) /\ m.role # "owner" /\ above
       [] q.op = "unban" -> Banned(q.on)
       [] q.op = "set_role" ->
            q.arg # "owner" /\ IsActive(m) /\ (above \/ q.by = Owner)
       [] OTHER -> FALSE

\* Mutant of TargetOK: set_role and the moderation forget the owner.
TargetActive(w) ==
  LET q == req[w]
      m == member[q.on]
  IN CASE q.op \in Joining -> ~Banned(q.on) /\ ~IsActive(m)
       [] q.op = "unban" -> Banned(q.on)
       [] OTHER -> IsActive(m)

\* The target's row against what was read of the actor's.
TargetOK(w) ==
  LET q == req[w]
      m == member[q.on]
      above == Outranks([role |-> snap[w].role], m)
  IN CASE q.op \in Joining -> ~Banned(q.on) /\ ~IsActive(m)
       [] q.op = "leave" -> IsActive(m) /\ m.role # "owner"
       [] q.op \in {"kick", "ban"} -> IsActive(m) /\ m.role # "owner" /\ above
       [] q.op = "unban" -> Banned(q.on)
       [] q.op = "set_role" ->
            q.arg # "owner" /\ IsActive(m) /\ (above \/ q.by = Owner)
       [] OTHER -> FALSE

CheckTarget(w) ==
  LET q == req[w]
      open == q.op = "redeem" \/ snap[w].visibility # "invite"
      next == IF q.op = "redeem" \/ (q.op = "join" /\ snap[w].visibility = "public")
                THEN "get" ELSE "save"
  IN /\ pc[w] = "target"
     /\ Proceed(w, TargetOK(w) /\ (q.op \in Joining => open), next, snap[w])
     /\ UNCHANGED shared

\* _activate's get_or_create: the row as it is now, role included.
GetRow(w) ==
  /\ pc[w] = "get"
  /\ Proceed(w, TRUE, "save", [snap[w] EXCEPT !.role = member[req[w].on].role])
  /\ UNCHANGED shared

-----------------------------------------------------------------------------
(* Writes *)

Saving(w, op) == pc[w] = "save" /\ req[w].op = op /\ Over(w)

\* Mutant of Activated: everyone comes back as a plain member.
ActivatedAsMember(w) ==
  [member EXCEPT ![req[w].on] = [role |-> "member", status |-> "active"]]

\* _activate saves every column of the row that GetRow read.
Activated(w) ==
  [member EXCEPT ![req[w].on] = [role |-> snap[w].role, status |-> "active"]]

SavePublicJoin(w) ==
  /\ snap[w].visibility = "public"
  /\ Saving(w, "join")
  /\ member' = Activated(w)
  /\ UNCHANGED <<visibility, isDeleted, invite, row>>

\* JoinRequest.get_or_create: uniq_pending_request_per_user leaves one
\* pending row per user.
SaveJoinRequest(w) ==
  /\ snap[w].visibility = "private"
  /\ Saving(w, "join")
  /\ LET u == req[w].on
         free == {r \in RowIds : row[r] = NoRow}
     IN IF \E r \in RowIds : row[r] = [user |-> u, status |-> "pending"]
          THEN UNCHANGED row
          ELSE \E r \in free :
                 /\ \A s \in free : r <= s
                 /\ row' = [row EXCEPT ![r] = [user |-> u, status |-> "pending"]]
  /\ UNCHANGED <<visibility, isDeleted, member, invite>>

\* Mutant of SaveRedeem: the counter is run down instead of up.
SaveRedeemDown(w) ==
  /\ Saving(w, "redeem")
  /\ member' = Activated(w)
  /\ invite' = [invite EXCEPT !.uses = @ - 1]
  /\ UNCHANGED <<visibility, isDeleted, row>>

SaveRedeem(w) ==
  /\ Saving(w, "redeem")
  /\ member' = Activated(w)
  /\ invite' = [invite EXCEPT !.uses = @ + 1]
  /\ UNCHANGED <<visibility, isDeleted, row>>

SaveStatus(w) ==
  LET status == [leave |-> "left", kick |-> "kicked", ban |-> "banned", unban |-> "left"]
  IN \E op \in DOMAIN status :
       /\ Saving(w, op)
       /\ member' = [member EXCEPT ![req[w].on].status = status[op]]
       /\ UNCHANGED <<visibility, isDeleted, invite, row>>

SaveRole(w) ==
  /\ Saving(w, "set_role")
  /\ member' = [member EXCEPT ![req[w].on].role = req[w].arg]
  /\ UNCHANGED <<visibility, isDeleted, invite, row>>

SaveNewInvite(w) ==
  /\ Saving(w, "create_invite")
  /\ invite' = [NoInvite EXCEPT !.created = TRUE, !.maxUses = req[w].arg]
  /\ UNCHANGED <<visibility, isDeleted, member, row>>

SaveRevoked(w) ==
  /\ Saving(w, "revoke_invite")
  /\ invite' = [invite EXCEPT !.revoked = TRUE]
  /\ UNCHANGED <<visibility, isDeleted, member, row>>

SaveApproval(w) ==
  /\ Saving(w, "approve")
  /\ member' = Activated(w)
  /\ row' = [row EXCEPT ![req[w].arg].status = "approved"]
  /\ UNCHANGED <<visibility, isDeleted, invite>>

SaveRejection(w) ==
  /\ Saving(w, "reject")
  /\ row' = [row EXCEPT ![req[w].arg].status = "rejected"]
  /\ UNCHANGED <<visibility, isDeleted, member, invite>>

\* Group.save() writes every column of the object loaded while the group was
\* alive, is_deleted = FALSE with them.
SaveGroup(w) ==
  /\ Saving(w, "update")
  /\ visibility' = req[w].arg
  /\ isDeleted' = FALSE
  /\ UNCHANGED <<member, invite, row>>

SaveDeleted(w) ==
  /\ Saving(w, "delete")
  /\ isDeleted' = TRUE
  /\ UNCHANGED <<visibility, member, invite, row>>

-----------------------------------------------------------------------------
Next ==
  \E w \in Workers :
    \/ \E q \in Requests : Arrive(w, q)
    \/ Load(w) \/ CheckActor(w) \/ CheckTarget(w) \/ GetRow(w)
    \/ SavePublicJoin(w) \/ SaveJoinRequest(w) \/ SaveRedeem(w)
    \/ SaveStatus(w) \/ SaveRole(w)
    \/ SaveNewInvite(w) \/ SaveRevoked(w)
    \/ SaveApproval(w) \/ SaveRejection(w)
    \/ SaveGroup(w) \/ SaveDeleted(w)

Spec == Init /\ [][Next]_vars
-----------------------------------------------------------------------------
(* Safety that survives the races *)

TypeOK ==
  /\ visibility \in {"public", "private", "invite"} /\ isDeleted \in BOOLEAN
  /\ member \in [Users -> [role : Role, status : Status]]
  /\ invite \in [created : BOOLEAN, maxUses : Nat, uses : Nat, revoked : BOOLEAN]
  /\ \A r \in RowIds : row[r] = NoRow \/
       row[r] \in [user : Users, status : {"pending", "approved", "rejected"}]
  /\ pc \in [Workers -> {"idle", "load", "actor", "target", "get", "save"}]

\* However requests overlap, the role "owner" stays on the creator's row, and
\* that row is active: the writes after a stale check never touch it.
OwnerSeat ==
  \A u \in Users : member[u].role = "owner" => u = Owner /\ Active(u)

\* A limited invite is overdrawn by at most one use for every other redeem in
\* flight: each worker checks is_usable once before each use.
OverdraftBounded ==
  invite.maxUses > 0 => invite.uses <= invite.maxUses + Cardinality(Workers) - 1

\* An update that loaded the group is what may bring it back.  Once none is
\* under way the tombstone is final: requests that start later do not find it.
Sealed ==
  isDeleted /\ \A w \in Workers : req[w].op = "update" => pc[w] = "load"
SealedForever == [][Sealed => Sealed']_vars

\* A ban may be undone by a join, a departure or a kick that was checked before
\* it.  Once none is under way it holds until an unban or an approval.
Settled(u) ==
  /\ Banned(u)
  /\ \A w \in Workers :
       req[w].on = u /\ req[w].op \in Joining \union {"leave", "kick", "ban"}
         => pc[w] \notin {"get", "save"}
SettledBanHolds ==
  [][\A u \in Users : Settled(u) =>
       \/ Settled(u)'
       \/ \E w \in Workers : /\ req[w].on = u /\ pc[w] = "save"
                            /\ req[w].op \in {"unban", "approve"}]_vars

-----------------------------------------------------------------------------
(* One request at a time is GroupService *)

\* The status of the latest JoinRequest row of u.
LatestStatus(u) ==
  LET mine == {r \in RowIds : row[r] # NoRow /\ row[r].user = u}
  IN IF mine = {} THEN "none"
     ELSE row[CHOOSE r \in mine : \A s \in mine : s <= r].status

Serial == INSTANCE GroupService WITH
  InviteIds <- {Link},
  CustomGrants <- CustomGrants,
  UsesBound <- UsesBound,
  member <- [u \in Users |-> [role |-> member[u].role, status |-> member[u].status,
                              muted |-> FALSE]],
  invite <- [i \in {Link} |-> [created |-> invite.created, maxUses |-> invite.maxUses,
                               uses |-> invite.uses, expiry |-> "never",
                               revoked |-> invite.revoked]],
  request <- [u \in Users |-> LatestStatus(u)]

\* A single worker's requests, read and written step by step, do what
\* GroupService says the whole request does.
ImplementsGroupService == Serial!Spec

-----------------------------------------------------------------------------
(* What the repository says and overlapping requests break *)

\* common/models.py:37, "Rows are tombstoned": no operation of the service
\* restores a deleted group.
TombstoneStays == [][isDeleted => isDeleted']_vars
=============================================================================
