------------------------ MODULE GroupRequestsProofs ------------------------
(***************************************************************************)
(* Proofs about overlapping requests, for any number of workers, users,    *)
(* request rows and bounds.                                                *)
(***************************************************************************)
EXTENDS GroupRequests, FiniteSetTheorems, TLAPS

USE OwnerAssumption, InputsAssumption

Visibility == {"public", "private", "invite"}
RowStatus == {"none", "pending", "approved", "rejected"}
Snap == [visibility : Visibility, status : RowStatus, role : Role]
Self == {"join", "redeem", "leave"}
Moderation == {"kick", "ban", "unban", "set_role"}

(* What every request carries, and what it has read.                       *)
RequestsOK ==
  /\ req \in [Workers -> Requests \cup {NoReq}]
  /\ snap \in [Workers -> Snap]
  /\ row \in [RowIds -> [user : Users, status : RowStatus]]

(* Where a request stands and what it has checked: a decision has found    *)
(* its row, and nobody is made owner.                                      *)
Place(w) ==
  LET q == req[w] IN
  /\ pc[w] = "actor" => q.op \notin Self
  /\ pc[w] = "target" => q.op \in Self \cup Moderation
  /\ pc[w] = "get" => q.op \in {"join", "redeem", "approve"}
  /\ pc[w] \in {"actor", "get", "save"} /\ q.op \in {"approve", "reject"} =>
       row[q.arg] # NoRow /\ row[q.arg].user = q.on
  /\ pc[w] = "save" /\ q.op = "set_role" => q.arg # "owner"

Typed == TypeOK /\ RequestsOK /\ \A w \in Workers : Place(w)

-----------------------------------------------------------------------------
(* What a request does *)

\* What a request names is of its kind.
LEMMA RequestFacts ==
  ASSUME NEW q \in Requests \cup {NoReq}
  PROVE  /\ q.by \in Users /\ q.on \in Users
         /\ q.op = "set_role" => q.arg \in RoleInputs /\ q.arg \in Role
         /\ q.op = "create_invite" => q.arg \in MaxUsesInputs /\ q.arg \in Nat
         /\ q.op = "update" => q.arg \in VisibilityInputs /\ q.arg \in Visibility
         /\ q.op \in {"approve", "reject"} => q.arg \in RowIds
  <1>1. CASE q = NoReq
    BY <1>1 DEF NoReq
  <1>2. CASE q \in Requests
    <2>1. CASE q \in {[op |-> o, by |-> u, on |-> u, arg |-> "none"] :
                        o \in {"join", "redeem", "leave"} \intersect Ops, u \in Users}
      BY <2>1
    <2>2. CASE q \in [op : {"kick", "ban", "unban"} \intersect Ops, by : Users, on : Users, arg : {"none"}]
      BY <2>2
    <2>3. CASE q \in [op : {"set_role"} \intersect Ops, by : Users, on : Users, arg : RoleInputs]
      BY <2>3
    <2>4. CASE q \in [op : {"create_invite"} \intersect Ops, by : Users, on : {Owner}, arg : MaxUsesInputs]
      BY <2>4
    <2>5. CASE q \in [op : {"revoke_invite", "delete"} \intersect Ops, by : Users, on : {Owner}, arg : {"none"}]
      BY <2>5
    <2>6. CASE q \in [op : {"update"} \intersect Ops, by : Users, on : {Owner}, arg : VisibilityInputs]
      BY <2>6 DEF Visibility
    <2>7. CASE q \in [op : {"approve", "reject"} \intersect Ops, by : Users, on : Users, arg : RowIds]
      BY <2>7
    <2> QED BY <1>2, <2>1, <2>2, <2>3, <2>4, <2>5, <2>6, <2>7 DEF Requests
  <1> QED BY <1>1, <1>2

(* A request goes on to label, having read s; or is refused.               *)
Onward(w, label, s) ==
  /\ Goto(w, label)
  /\ snap' = [snap EXCEPT ![w] = s]
  /\ UNCHANGED req

\* The four reading steps: what they check by operation, and what they read.
LEMMA LoadStep ==
  ASSUME NEW w \in Workers, Load(w)
  PROVE  /\ pc[w] = "load" /\ UNCHANGED shared
         /\ \/ Over(w)
            \/ /\ Onward(w, IF req[w].op \in Self THEN "target" ELSE "actor",
                         [snap[w] EXCEPT !.visibility = visibility,
                            !.status = IF req[w].op \in {"approve", "reject"} THEN row[req[w].arg].status ELSE "none"])
               /\ req[w].op = "redeem" => IsUsable(invite)
               /\ req[w].op = "update" => ~isDeleted
               /\ req[w].op \in {"approve", "reject"} => row[req[w].arg] # NoRow /\ row[req[w].arg].user = req[w].on
  <1> DEFINE q == req[w]
             found == CASE q.op = "redeem" -> IsUsable(invite)
                        [] q.op = "revoke_invite" -> invite.created
                        [] q.op = "unban" -> TRUE
                        [] q.op \in {"approve", "reject"} ->
                             ~isDeleted /\ row[q.arg] # NoRow /\ row[q.arg].user = q.on
                        [] OTHER -> ~isDeleted
             label == IF q.op \in Joining \union {"leave"} THEN "target" ELSE "actor"
             seen == IF q.op \in {"approve", "reject"} THEN row[q.arg].status ELSE "none"
             s == [snap[w] EXCEPT !.visibility = visibility, !.status = seen]
  <1>1. pc[w] = "load" /\ Proceed(w, found, label, s) /\ UNCHANGED shared
    BY Zenon DEF Load
  <1>2. found => /\ q.op = "redeem" => IsUsable(invite)
                 /\ q.op = "update" => ~isDeleted
                 /\ q.op \in {"approve", "reject"} => row[q.arg] # NoRow /\ row[q.arg].user = q.on
    <2> HIDE DEF q
    <2> QED OBVIOUS
  <1>3. label = IF q.op \in Self THEN "target" ELSE "actor"
    BY DEF Joining, Self
  <1> HIDE DEF found, label, s
  <1>4. Over(w) \/ (found /\ Onward(w, label, s))
    BY <1>1 DEF Proceed, Onward
  <1> QED BY <1>1, <1>2, <1>3, <1>4, Zenon DEF s

LEMMA ActorStep ==
  ASSUME NEW w \in Workers, CheckActor(w)
  PROVE  /\ pc[w] = "actor" /\ UNCHANGED shared
         /\ \/ Over(w)
            \/ Onward(w, IF req[w].op \in Moderation THEN "target"
                         ELSE IF req[w].op = "approve" THEN "get" ELSE "save",
                      [snap[w] EXCEPT !.role = member[req[w].by].role])
  <1> DEFINE q == req[w]
             ok == CASE q.op = "delete" -> member[q.by].role = "owner"
                     [] q.op \in {"approve", "reject"} ->
                          Holds(q.by, Needs[q.op]) /\ snap[w].status = "pending"
                     [] OTHER -> Holds(q.by, Needs[q.op])
             next == CASE q.op \in {"kick", "ban", "unban", "set_role"} -> "target"
                       [] q.op = "approve" -> "get"
                       [] OTHER -> "save"
             s == [snap[w] EXCEPT !.role = member[q.by].role]
  <1>1. pc[w] = "actor" /\ Proceed(w, ok, next, s) /\ UNCHANGED shared
    BY Zenon DEF CheckActor
  <1>2. next = IF q.op \in Moderation THEN "target" ELSE IF q.op = "approve" THEN "get" ELSE "save"
    <2> HIDE DEF q
    <2> QED BY DEF Moderation
  <1> HIDE DEF ok, next, s
  <1>3. Over(w) \/ Onward(w, next, s)
    BY <1>1 DEF Proceed, Onward
  <1> QED BY <1>1, <1>2, <1>3, Zenon DEF s

LEMMA TargetStep ==
  ASSUME NEW w \in Workers, CheckTarget(w)
  PROVE  /\ pc[w] = "target" /\ UNCHANGED shared
         /\ \/ Over(w)
            \/ LET q == req[w] IN
               /\ Onward(w, IF q.op = "redeem" \/ (q.op = "join" /\ snap[w].visibility = "public")
                            THEN "get" ELSE "save", snap[w])
               /\ q.op \in Joining => ~Banned(q.on) /\ ~Active(q.on)
               /\ q.op \in {"leave", "kick", "ban"} => Active(q.on) /\ member[q.on].role # "owner"
               /\ q.op = "unban" => Banned(q.on)
               /\ q.op = "set_role" => q.arg # "owner"
               /\ q.op \in Self \cup Moderation
  <1> DEFINE q == req[w]
             ok == TargetOK(w) /\ (q.op \in Joining => q.op = "redeem" \/ snap[w].visibility # "invite")
             next == IF q.op = "redeem" \/ (q.op = "join" /\ snap[w].visibility = "public") THEN "get" ELSE "save"
  <1>1. pc[w] = "target" /\ Proceed(w, ok, next, snap[w]) /\ UNCHANGED shared
    BY Zenon DEF CheckTarget
  <1>2. TargetOK(w) =>
          /\ q.op \in Joining => ~Banned(q.on) /\ ~Active(q.on)
          /\ q.op \in {"leave", "kick", "ban"} => Active(q.on) /\ member[q.on].role # "owner"
          /\ q.op = "unban" => Banned(q.on)
          /\ q.op = "set_role" => q.arg # "owner"
          /\ q.op \in Self \cup Moderation
    BY DEF TargetOK, Joining, Active, Self, Moderation
  <1> HIDE DEF next
  <1>3. Over(w) \/ (TargetOK(w) /\ Onward(w, next, snap[w]))
    BY <1>1 DEF Proceed, Onward
  <1> QED BY <1>1, <1>2, <1>3, Zenon DEF next

LEMMA GetRowStep ==
  ASSUME NEW w \in Workers, GetRow(w)
  PROVE  /\ pc[w] = "get" /\ UNCHANGED shared
         /\ Onward(w, "save", [snap[w] EXCEPT !.role = member[req[w].on].role])
  BY DEF GetRow, Proceed, Onward

-----------------------------------------------------------------------------
(* Type correctness *)

WorkerTypes ==
  /\ req \in [Workers -> Requests \cup {NoReq}]
  /\ snap \in [Workers -> Snap]
  /\ pc \in [Workers -> {"idle", "load", "actor", "target", "get", "save"}]

\* A request that arrives, ends or goes on leaves the others alone.
LEMMA Ends ==
  ASSUME Typed, NEW w \in Workers, Over(w)
  PROVE  /\ WorkerTypes'
         /\ pc'[w] = "idle" /\ req'[w] = NoReq
         /\ \A v \in Workers \ {w} : pc'[v] = pc[v] /\ req'[v] = req[v] /\ snap'[v] = snap[v]
  BY DEF Typed, TypeOK, RequestsOK, WorkerTypes, Over, Goto, NoSnap, Snap, Visibility, RowStatus, Role

LEMMA Goes ==
  ASSUME Typed, NEW w \in Workers, NEW label \in {"actor", "target", "get", "save"}, NEW s \in Snap,
         Onward(w, label, s)
  PROVE  /\ WorkerTypes'
         /\ pc'[w] = label /\ snap'[w] = s /\ req'[w] = req[w]
         /\ \A v \in Workers \ {w} : pc'[v] = pc[v] /\ req'[v] = req[v] /\ snap'[v] = snap[v]
  BY DEF Typed, TypeOK, RequestsOK, WorkerTypes, Onward, Goto

LEMMA Comes ==
  ASSUME Typed, NEW w \in Workers, NEW q \in Requests, Arrive(w, q)
  PROVE  /\ WorkerTypes' /\ UNCHANGED shared
         /\ pc[w] = "idle" /\ pc'[w] = "load" /\ snap'[w] = snap[w] /\ req'[w] = q
         /\ \A v \in Workers \ {w} : pc'[v] = pc[v] /\ req'[v] = req[v] /\ snap'[v] = snap[v]
  BY DEF Typed, TypeOK, RequestsOK, WorkerTypes, Arrive, Goto, shared

\* No JoinRequest row is lost, or passes to another user.
RowsKept == \A r \in RowIds : row[r] # NoRow => row'[r] # NoRow /\ row'[r].user = row[r].user

LEMMA Placed ==
  ASSUME Typed, NEW w \in Workers, RowsKept, Place(w)',
         \A v \in Workers \ {w} : pc'[v] = pc[v] /\ req'[v] = req[v] /\ snap'[v] = snap[v]
  PROVE  \A v \in Workers : Place(v)'
  <1>1. ASSUME NEW v \in Workers \ {w} PROVE Place(v)'
    <2>1. req[v] \in Requests \cup {NoReq} /\ pc'[v] = pc[v] /\ req'[v] = req[v] /\ Place(v)
      BY DEF Typed, RequestsOK
    <2>2. req[v].op \in {"approve", "reject"} => req[v].arg \in RowIds
      BY <2>1, RequestFacts
    <2>3. /\ pc'[v] = "actor" => req'[v].op \notin Self
          /\ pc'[v] = "target" => req'[v].op \in Self \cup Moderation
          /\ pc'[v] = "get" => req'[v].op \in {"join", "redeem", "approve"}
          /\ pc'[v] = "save" /\ req'[v].op = "set_role" => req'[v].arg # "owner"
      BY <2>1 DEF Place
    <2>4. pc'[v] \in {"actor", "get", "save"} /\ req'[v].op \in {"approve", "reject"} =>
            row'[req'[v].arg] # NoRow /\ row'[req'[v].arg].user = req'[v].on
      <3> SUFFICES ASSUME pc[v] \in {"actor", "get", "save"}, req[v].op \in {"approve", "reject"}
                   PROVE  row'[req[v].arg] # NoRow /\ row'[req[v].arg].user = req[v].on
        BY <2>1
      <3>1. row[req[v].arg] # NoRow /\ row[req[v].arg].user = req[v].on
        BY <2>1 DEF Place
      <3> QED BY <2>2, <3>1 DEF RowsKept
    <2> QED BY <2>3, <2>4, Zenon DEF Place, NoRow
  <1> QED BY <1>1

\* The reading steps keep the types and the places.
LEMMA ReadTyped ==
  ASSUME Typed, NEW w \in Workers, Load(w) \/ CheckActor(w) \/ CheckTarget(w) \/ GetRow(w)
  PROVE  Typed'
  <1> DEFINE q == req[w]
  <1>0. q \in Requests \cup {NoReq} /\ snap[w] \in Snap /\ Place(w) /\ UNCHANGED shared
    BY LoadStep, ActorStep, TargetStep, GetRowStep DEF Typed, RequestsOK
  <1>1. q.by \in Users /\ q.on \in Users /\ (q.op \in {"approve", "reject"} => q.arg \in RowIds)
    BY <1>0, RequestFacts
  <1>2. RowsKept
    BY <1>0 DEF RowsKept, shared
  <1>3. ASSUME WorkerTypes', Place(w)',
               \A v \in Workers \ {w} : pc'[v] = pc[v] /\ req'[v] = req[v] /\ snap'[v] = snap[v]
        PROVE  Typed'
    <2>1. \A v \in Workers : Place(v)'
      BY <1>2, <1>3, Placed
    <2>2. TypeOK' /\ RequestsOK'
      BY <1>0, <1>3 DEF Typed, TypeOK, RequestsOK, WorkerTypes, shared
    <2> QED BY <2>1, <2>2 DEF Typed
  <1>4. CASE Over(w)
    BY <1>3, <1>4, Ends DEF Place
  <1>5. ASSUME NEW label \in {"actor", "target", "get", "save"}, NEW s \in Snap, Onward(w, label, s),
               label = "actor" => q.op \notin Self,
               label = "target" => q.op \in Self \cup Moderation,
               label = "get" => q.op \in {"join", "redeem", "approve"},
               label # "target" /\ q.op \in {"approve", "reject"} => row[q.arg] # NoRow /\ row[q.arg].user = q.on,
               label = "save" /\ q.op = "set_role" => q.arg # "owner"
        PROVE  Typed'
    <2>1. pc'[w] = label /\ req'[w] = q /\ row' = row
      BY <1>0, <1>5, Goes DEF shared
    <2>2. Place(w)'
      BY <1>5, <2>1 DEF Place
    <2> QED BY <1>3, <1>5, <2>2, Goes
  <1>6. CASE Load(w)
    <2> DEFINE seen == IF q.op \in {"approve", "reject"} THEN row[q.arg].status ELSE "none"
               s == [snap[w] EXCEPT !.visibility = visibility, !.status = seen]
    <2>1. seen \in RowStatus
      BY <1>1 DEF Typed, RequestsOK, RowStatus
    <2> HIDE DEF seen
    <2>2. s \in Snap
      BY <1>0, <2>1 DEF Typed, TypeOK, Snap, Visibility
    <2> HIDE DEF s
    <2>3. \/ Over(w)
          \/ /\ Onward(w, IF q.op \in Self THEN "target" ELSE "actor", s)
             /\ q.op \in {"approve", "reject"} => row[q.arg] # NoRow /\ row[q.arg].user = q.on
      BY <1>6, LoadStep DEF s, seen
    <2> QED BY <1>4, <1>5, <2>2, <2>3
  <1>7. CASE CheckActor(w)
    <2> DEFINE s == [snap[w] EXCEPT !.role = member[q.by].role]
    <2>1. s \in Snap
      BY <1>0, <1>1 DEF Typed, TypeOK, Snap
    <2>2. pc[w] = "actor"
          /\ \/ Over(w)
             \/ Onward(w, IF q.op \in Moderation THEN "target" ELSE IF q.op = "approve" THEN "get" ELSE "save", s)
      BY <1>7, ActorStep
    <2> HIDE DEF s
    <2>3. q.op \in {"approve", "reject"} => row[q.arg] # NoRow /\ row[q.arg].user = q.on
      BY <1>0, <2>2 DEF Place
    <2> QED BY <1>4, <1>5, <2>1, <2>2, <2>3 DEF Moderation
  <1>8. CASE CheckTarget(w)
    <2>1. \/ Over(w)
          \/ /\ Onward(w, IF q.op = "redeem" \/ (q.op = "join" /\ snap[w].visibility = "public")
                          THEN "get" ELSE "save", snap[w])
             /\ q.op = "set_role" => q.arg # "owner"
             /\ q.op \in Self \cup Moderation
      BY <1>8, TargetStep
    <2> QED BY <1>0, <1>4, <1>5, <2>1 DEF Self, Moderation
  <1>9. CASE GetRow(w)
    <2> DEFINE s == [snap[w] EXCEPT !.role = member[q.on].role]
    <2>1. s \in Snap
      BY <1>0, <1>1 DEF Typed, TypeOK, Snap
    <2>2. pc[w] = "get" /\ Onward(w, "save", s)
      BY <1>9, GetRowStep
    <2> HIDE DEF s
    <2>3. q.op \in {"join", "redeem", "approve"}
          /\ (q.op \in {"approve", "reject"} => row[q.arg] # NoRow /\ row[q.arg].user = q.on)
      BY <1>0, <2>2 DEF Place
    <2> QED BY <1>5, <2>1, <2>2, <2>3
  <1> QED BY <1>6, <1>7, <1>8, <1>9

-----------------------------------------------------------------------------
(* The writing steps.                                                      *)
Saves(w) ==
  \/ SavePublicJoin(w) \/ SaveJoinRequest(w) \/ SaveRedeem(w) \/ SaveStatus(w) \/ SaveRole(w)
  \/ SaveNewInvite(w) \/ SaveRevoked(w) \/ SaveApproval(w) \/ SaveRejection(w)
  \/ SaveGroup(w) \/ SaveDeleted(w)

\* Every write ends its request; no write loses a JoinRequest row.
LEMMA SaveStep ==
  ASSUME Typed, NEW w \in Workers, Saves(w)
  PROVE  /\ pc[w] = "save" /\ Over(w) /\ RowsKept
         /\ row' \in [RowIds -> [user : Users, status : RowStatus]]
         /\ \A r \in RowIds : row'[r] = NoRow \/ row'[r].status # "none"
  <1> DEFINE q == req[w]
  <1>0. q \in Requests \cup {NoReq} /\ q.on \in Users /\ Place(w)
        /\ (q.op \in {"approve", "reject"} => q.arg \in RowIds)
    BY RequestFacts DEF Typed, RequestsOK
  <1>1. pc[w] = "save" /\ Over(w)
    BY DEF Saves, Saving, SavePublicJoin, SaveJoinRequest, SaveRedeem, SaveStatus, SaveRole,
           SaveNewInvite, SaveRevoked, SaveApproval, SaveRejection, SaveGroup, SaveDeleted
  <1>2. /\ row \in [RowIds -> [user : Users, status : RowStatus]]
        /\ \A r \in RowIds : row[r] = NoRow \/ row[r].status # "none"
    BY DEF Typed, TypeOK, RequestsOK
  <1>3. CASE row' = row
    BY <1>1, <1>2, <1>3 DEF RowsKept
  <1>4. CASE SaveJoinRequest(w)
    <2>1. \/ row' = row
          \/ \E r \in RowIds : row[r] = NoRow /\ row' = [row EXCEPT ![r] = [user |-> q.on, status |-> "pending"]]
      BY <1>4 DEF SaveJoinRequest
    <2> QED BY <1>0, <1>1, <1>2, <1>3, <2>1 DEF RowsKept, RowStatus, NoRow
  <1>5. CASE SaveApproval(w) \/ SaveRejection(w)
    <2>1. PICK status \in {"approved", "rejected"} :
            row' = [row EXCEPT ![q.arg].status = status] /\ q.op \in {"approve", "reject"}
      BY <1>5 DEF SaveApproval, SaveRejection, Saving
    <2>2. q.arg \in RowIds /\ row[q.arg] # NoRow
      BY <1>0, <1>1, <2>1 DEF Place
    <2> QED BY <1>1, <1>2, <2>1, <2>2 DEF RowsKept, RowStatus, NoRow
  <1>6. row' = row \/ SaveJoinRequest(w) \/ SaveApproval(w) \/ SaveRejection(w)
    BY DEF Saves, SavePublicJoin, SaveRedeem, SaveStatus, SaveRole, SaveNewInvite, SaveRevoked,
           SaveGroup, SaveDeleted
  <1> QED BY <1>3, <1>4, <1>5, <1>6

LEMMA SaveTyped ==
  ASSUME Typed, NEW w \in Workers, Saves(w)
  PROVE  Typed'
  <1> DEFINE q == req[w]
             Members == [Users -> [role : Role, status : Status]]
             Invites == [created : BOOLEAN, maxUses : Nat, uses : Nat, revoked : BOOLEAN]
  <1>0. q.on \in Users /\ snap[w].role \in Role /\ member \in Members /\ invite \in Invites
        /\ (q.op = "set_role" => q.arg \in Role)
        /\ (q.op = "create_invite" => q.arg \in Nat)
        /\ (q.op = "update" => q.arg \in Visibility)
    BY RequestFacts DEF Typed, TypeOK, RequestsOK, Snap
  <1>1. Over(w) /\ RowsKept /\ WorkerTypes' /\ Place(w)'
    BY SaveStep, Ends DEF Place
  <1>2. \A v \in Workers : Place(v)'
    BY <1>1, Ends, Placed
  <1>3. RequestsOK' /\ \A r \in RowIds : row'[r] = NoRow \/
                         row'[r] \in [user : Users, status : {"pending", "approved", "rejected"}]
    BY <1>1, SaveStep DEF RequestsOK, WorkerTypes, RowStatus
  <1>4. member' \in Members
    <2>1. Activated(w) \in Members
      BY <1>0 DEF Activated, Status
    <2>2. \A status \in Status : [member EXCEPT ![q.on].status = status] \in Members
      BY <1>0
    <2>3. q.op = "set_role" => [member EXCEPT ![q.on].role = q.arg] \in Members
      BY <1>0
    <2>4. SaveStatus(w) => \E status \in Status : member' = [member EXCEPT ![q.on].status = status]
      <3> SUFFICES ASSUME SaveStatus(w) PROVE \E status \in Status : member' = [member EXCEPT ![q.on].status = status]
        OBVIOUS
      <3> DEFINE left == [leave |-> "left", kick |-> "kicked", ban |-> "banned", unban |-> "left"]
      <3>1. PICK op \in DOMAIN left : member' = [member EXCEPT ![q.on].status = left[op]]
        BY DEF SaveStatus
      <3>2. left[op] \in Status
        BY DEF Status
      <3> QED BY <3>1, <3>2
    <2>5. SaveRole(w) => q.op = "set_role" /\ member' = [member EXCEPT ![q.on].role = q.arg]
      BY DEF SaveRole, Saving
    <2>6. member' = member \/ member' = Activated(w) \/ SaveStatus(w) \/ SaveRole(w)
      BY DEF Saves, SavePublicJoin, SaveJoinRequest, SaveRedeem, SaveNewInvite, SaveRevoked, SaveApproval,
             SaveRejection, SaveGroup, SaveDeleted
    <2> HIDE DEF Members, q
    <2> QED BY <1>0, <2>1, <2>2, <2>3, <2>4, <2>5, <2>6
  <1>5. invite' \in Invites
    <2>1. CASE SaveNewInvite(w)
      BY <1>0, <2>1 DEF SaveNewInvite, Saving, NoInvite
    <2>2. CASE invite' = [invite EXCEPT !.uses = @ + 1]
      BY <1>0, <2>2
    <2>3. CASE invite' = [invite EXCEPT !.revoked = TRUE]
      BY <1>0, <2>3
    <2> QED BY <1>0, <2>1, <2>2, <2>3 DEF Saves, SavePublicJoin, SaveJoinRequest, SaveRedeem, SaveStatus, SaveRole,
               SaveRevoked, SaveApproval, SaveRejection, SaveGroup, SaveDeleted
  <1>6. visibility' \in Visibility /\ isDeleted' \in BOOLEAN
    BY <1>0 DEF Typed, TypeOK, Visibility, Saves, Saving, SavePublicJoin, SaveJoinRequest, SaveRedeem, SaveStatus,
           SaveRole, SaveNewInvite, SaveRevoked, SaveApproval, SaveRejection, SaveGroup, SaveDeleted
  <1> QED BY <1>1, <1>2, <1>3, <1>4, <1>5, <1>6 DEF Typed, TypeOK, WorkerTypes, Visibility

LEMMA InitTyped == Init => Typed
  <1> SUFFICES ASSUME Init PROVE Typed
    OBVIOUS
  <1>1. /\ visibility \in {"public", "private", "invite"} /\ isDeleted \in BOOLEAN
        /\ invite \in [created : BOOLEAN, maxUses : Nat, uses : Nat, revoked : BOOLEAN]
    BY DEF Init, NoInvite
  <1>2. member \in [Users -> [role : Role, status : Status]]
    BY DEF Init, NoMember, Role, Status
  <1>3. /\ row = [r \in RowIds |-> NoRow] /\ NoRow \in [user : Users, status : RowStatus]
        /\ pc = [w \in Workers |-> "idle"]
    BY DEF Init, NoRow, RowStatus
  <1>4. /\ snap \in [Workers -> Snap]
        /\ req \in [Workers -> Requests \cup {NoReq}]
    BY DEF Init, NoSnap, Snap, Visibility, RowStatus, Role
  <1>5. \A w \in Workers : Place(w)
    BY <1>3 DEF Place
  <1> QED BY <1>1, <1>2, <1>3, <1>4, <1>5 DEF Typed, TypeOK, RequestsOK

LEMMA NextTyped == Typed /\ [Next]_vars => Typed'
  <1> SUFFICES ASSUME Typed, [Next]_vars PROVE Typed'
    OBVIOUS
  <1>1. CASE UNCHANGED vars
    BY <1>1 DEF vars, Typed, TypeOK, RequestsOK, Place
  <1>2. ASSUME NEW w \in Workers, NEW q \in Requests, Arrive(w, q) PROVE Typed'
    <2>1. WorkerTypes' /\ UNCHANGED shared /\ RowsKept /\ Place(w)'
      BY <1>2, Comes DEF RowsKept, Place, shared
    <2>2. \A v \in Workers : Place(v)'
      BY <1>2, <2>1, Comes, Placed
    <2> QED BY <2>1, <2>2 DEF Typed, TypeOK, RequestsOK, WorkerTypes, shared
  <1>3. ASSUME NEW w \in Workers, Load(w) \/ CheckActor(w) \/ CheckTarget(w) \/ GetRow(w) PROVE Typed'
    BY <1>3, ReadTyped
  <1>4. ASSUME NEW w \in Workers, Saves(w) PROVE Typed'
    BY <1>4, SaveTyped
  <1> QED BY <1>1, <1>2, <1>3, <1>4, Zenon DEF Next, Saves

\* Whatever overlaps, every row, request and snapshot keeps its type: a
\* decision never lands on a row that does not exist.
THEOREM TypeCorrect == Spec => []TypeOK
  <1>1. Typed => TypeOK
    BY DEF Typed
  <1> QED BY <1>1, InitTyped, NextTyped, PTL DEF Spec

-----------------------------------------------------------------------------
(* The owner's seat *)

(* The operations whose check on the target an owner would not pass.       *)
Barred == Self \cup {"kick", "ban", "unban"}

(* While the creator has the seat, no request that may change his row has  *)
(* got past its checks, and he has asked for nothing.                      *)
Seated ==
  /\ Active(Owner)
  /\ \A r \in RowIds : row[r].user = Owner => row[r] = NoRow
  /\ \A w \in Workers : req[w].on = Owner /\ pc[w] \in {"get", "save"} => req[w].op \notin Barred

(* A request that will save a role it has read has not read "owner".       *)
RoleRead(w) ==
  pc[w] = "save" /\ (req[w].op \in {"redeem", "approve"} \/ (req[w].op = "join" /\ snap[w].visibility = "public"))
    => snap[w].role # "owner"

SeatInv ==
  /\ \A u \in Users \ {Owner} : member[u].role # "owner"
  /\ member[Owner].role = "owner" => Seated
  /\ \A w \in Workers : RoleRead(w)

\* A step of w that changes no membership and no JoinRequest row.
LEMMA SeatFrame ==
  ASSUME Typed, SeatInv, NEW w \in Workers, member' = member, row' = row, RoleRead(w)',
         \A v \in Workers \ {w} : pc'[v] = pc[v] /\ req'[v] = req[v] /\ snap'[v] = snap[v],
         \/ pc'[w] \notin {"get", "save"}
         \/ member[Owner].role = "owner" /\ req'[w].on = Owner => req'[w].op \notin Barred
  PROVE  SeatInv'
  <1>1. \A v \in Workers : RoleRead(v)'
    <2>1. ASSUME NEW v \in Workers \ {w} PROVE RoleRead(v)'
      BY <2>1 DEF RoleRead, SeatInv
    <2> QED BY <2>1
  <1>2. member[Owner].role = "owner" => Seated'
    <2> SUFFICES ASSUME member[Owner].role = "owner", Seated PROVE Seated'
      BY DEF SeatInv
    <2>1. \A v \in Workers : req'[v].on = Owner /\ pc'[v] \in {"get", "save"} => req'[v].op \notin Barred
      <3> SUFFICES ASSUME NEW v \in Workers, req'[v].on = Owner, pc'[v] \in {"get", "save"}
                   PROVE  req'[v].op \notin Barred
        OBVIOUS
      <3>1. CASE v = w
        BY <3>1
      <3>2. CASE v # w
        BY <3>2 DEF Seated
      <3> QED BY <3>1, <3>2
    <2>2. Active(Owner)' /\ \A r \in RowIds : row'[r].user = Owner => row'[r] = NoRow
      BY DEF Seated, Active
    <2> QED BY <2>1, <2>2 DEF Seated, NoRow
  <1> QED BY <1>1, <1>2 DEF SeatInv

LEMMA ReadSeat ==
  ASSUME Typed, SeatInv, NEW w \in Workers, Load(w) \/ CheckActor(w) \/ CheckTarget(w) \/ GetRow(w)
  PROVE  SeatInv'
  <1> DEFINE q == req[w]
  <1>0. q \in Requests \cup {NoReq} /\ snap[w] \in Snap /\ Place(w) /\ member' = member /\ row' = row
    BY LoadStep, ActorStep, TargetStep, GetRowStep DEF Typed, RequestsOK, shared
  <1>1. q.by \in Users /\ q.on \in Users /\ (q.op \in {"approve", "reject"} => q.arg \in RowIds)
    BY <1>0, RequestFacts
  <1>2. CASE Over(w)
    BY <1>0, <1>2, Ends, SeatFrame DEF RoleRead
  <1>3. CASE Load(w)
    <2> DEFINE seen == IF q.op \in {"approve", "reject"} THEN row[q.arg].status ELSE "none"
               s == [snap[w] EXCEPT !.visibility = visibility, !.status = seen]
    <2>1. s \in Snap
      BY <1>0, <1>1 DEF Typed, TypeOK, RequestsOK, Snap, Visibility, RowStatus
    <2>2. Over(w) \/ \E label \in {"target", "actor"} : Onward(w, label, s)
      BY <1>3, LoadStep
    <2> HIDE DEF s
    <2>3. ASSUME NEW label \in {"target", "actor"}, Onward(w, label, s) PROVE SeatInv'
      BY <1>0, <2>1, <2>3, Goes, SeatFrame DEF RoleRead
    <2> QED BY <1>2, <2>2, <2>3
  <1>4. CASE CheckActor(w)
    <2> DEFINE s == [snap[w] EXCEPT !.role = member[q.by].role]
               next == IF q.op \in Moderation THEN "target" ELSE IF q.op = "approve" THEN "get" ELSE "save"
    <2>1. s \in Snap
      BY <1>0, <1>1 DEF Typed, TypeOK, Snap
    <2>2. pc[w] = "actor" /\ (Over(w) \/ Onward(w, next, s))
      BY <1>4, ActorStep
    <2> HIDE DEF s
    <2>3. next = "get" => q.on # Owner \/ member[Owner].role # "owner"
      BY <1>0, <1>1, <2>2 DEF Place, SeatInv, Seated, Moderation
    <2>4. next = "save" => q.op \notin Barred \cup {"approve"}
      BY <1>0, <2>2 DEF Place, Moderation, Barred
    <2>5. next \in {"target", "get", "save"}
      OBVIOUS
    <2> HIDE DEF next
    <2>6. ASSUME Onward(w, next, s) PROVE SeatInv'
      <3>1. pc'[w] = next /\ req'[w] = q
        BY <2>1, <2>5, <2>6, Goes
      <3>2. RoleRead(w)'
        BY <2>4, <3>1 DEF RoleRead, Barred, Self
      <3> QED BY <1>0, <2>1, <2>3, <2>4, <2>5, <2>6, <3>1, <3>2, Goes, SeatFrame
    <2> QED BY <1>2, <2>2, <2>6
  <1>5. CASE CheckTarget(w)
    <2> DEFINE next == IF q.op = "redeem" \/ (q.op = "join" /\ snap[w].visibility = "public") THEN "get" ELSE "save"
               ok == /\ q.op \in Joining => ~Banned(q.on) /\ ~Active(q.on)
                     /\ q.op \in {"leave", "kick", "ban"} => Active(q.on) /\ member[q.on].role # "owner"
                     /\ q.op = "unban" => Banned(q.on)
                     /\ q.op \in Self \cup Moderation
    <2>1. Over(w) \/ (ok /\ Onward(w, next, snap[w]))
      BY <1>5, TargetStep
    <2>2. ok /\ member[Owner].role = "owner" /\ q.on = Owner => q.op \notin Barred
      BY DEF SeatInv, Seated, Active, IsActive, Banned, Joining, Barred, Self
    <2>3. ok /\ next = "save" => q.op # "redeem" /\ q.op # "approve" /\ (q.op = "join" => snap[w].visibility # "public")
      BY DEF Self, Moderation
    <2>4. next \in {"get", "save"}
      OBVIOUS
    <2> HIDE DEF next, ok
    <2>5. ASSUME ok, Onward(w, next, snap[w]) PROVE SeatInv'
      <3>1. pc'[w] = next /\ req'[w] = q /\ snap'[w] = snap[w]
        BY <1>0, <2>4, <2>5, Goes
      <3>2. RoleRead(w)'
        BY <2>3, <2>5, <3>1 DEF RoleRead
      <3> QED BY <1>0, <2>2, <2>4, <2>5, <3>1, <3>2, Goes, SeatFrame
    <2> QED BY <1>2, <2>1, <2>5
  <1>6. CASE GetRow(w)
    <2> DEFINE s == [snap[w] EXCEPT !.role = member[q.on].role]
    <2>1. s \in Snap /\ s.role = member[q.on].role
      BY <1>0, <1>1 DEF Typed, TypeOK, Snap
    <2>2. pc[w] = "get" /\ Onward(w, "save", s)
      BY <1>6, GetRowStep
    <2> HIDE DEF s
    <2>3. q.op \in {"join", "redeem", "approve"}
      BY <1>0, <2>2 DEF Place
    <2>4. q.on = Owner => member[Owner].role # "owner"
      <3> SUFFICES ASSUME q.on = Owner, Seated PROVE FALSE
        BY DEF SeatInv
      <3>1. q.op = "approve"
        BY <2>2, <2>3 DEF Seated, Barred, Self
      <3> QED BY <1>0, <1>1, <2>2, <3>1 DEF Place, Seated
    <2>5. member[q.on].role # "owner"
      BY <1>1, <2>4 DEF SeatInv
    <2>6. pc'[w] = "save" /\ req'[w] = q /\ snap'[w] = s
      BY <2>1, <2>2, Goes
    <2>7. RoleRead(w)'
      BY <2>1, <2>5, <2>6 DEF RoleRead
    <2> QED BY <1>0, <2>1, <2>2, <2>4, <2>6, <2>7, Goes, SeatFrame
  <1> QED BY <1>3, <1>4, <1>5, <1>6

\* What a write does to the seat: it gives nobody the role of owner, and
\* leaves a seated creator his status.
LEMMA SaveMember ==
  ASSUME Typed, SeatInv, NEW w \in Workers, Saves(w), NEW u \in Users
  PROVE  /\ member'[u].role = "owner" => member[u].role = "owner"
         /\ u = Owner /\ member[u].role = "owner" /\ member'[u].role = "owner" => member'[u].status = member[u].status
  <1> DEFINE q == req[w]
  <1>0. q.on \in Users /\ member \in [Users -> [role : Role, status : Status]] /\ pc[w] = "save" /\ Place(w) /\ RoleRead(w)
    BY RequestFacts, SaveStep DEF Typed, TypeOK, RequestsOK, SeatInv
  <1>1. CASE member' = Activated(w) /\ snap[w].role # "owner"
    BY <1>0, <1>1 DEF Activated
  <1>2. CASE SavePublicJoin(w) \/ SaveRedeem(w) \/ SaveApproval(w)
    <2>1. snap[w].role # "owner"
      BY <1>0, <1>2 DEF RoleRead, SavePublicJoin, SaveRedeem, SaveApproval, Saving
    <2> QED BY <1>1, <1>2, <2>1 DEF SavePublicJoin, SaveRedeem, SaveApproval
  <1>3. CASE SaveStatus(w)
    <2> DEFINE left == [leave |-> "left", kick |-> "kicked", ban |-> "banned", unban |-> "left"]
    <2>1. PICK op \in DOMAIN left : q.op = op /\ member' = [member EXCEPT ![q.on].status = left[op]]
      BY <1>3, Zenon DEF SaveStatus, Saving
    <2>2. q.op \in {"leave", "kick", "ban", "unban"}
      BY <2>1
    <2>3. member[Owner].role = "owner" => q.on # Owner
      BY <1>0, <2>2 DEF SeatInv, Seated, Barred, Self
    <2> HIDE DEF left
    <2> QED BY <1>0, <2>1, <2>3
  <1>4. CASE SaveRole(w)
    BY <1>0, <1>4 DEF SaveRole, Saving, Place
  <1>5. CASE member' = member
    BY <1>5
  <1> QED BY <1>2, <1>3, <1>4, <1>5 DEF Saves, SaveJoinRequest, SaveNewInvite, SaveRevoked, SaveRejection,
          SaveGroup, SaveDeleted

\* ...and to the requests of a seated creator: he gets none.
LEMMA SaveRow ==
  ASSUME Typed, SeatInv, NEW w \in Workers, Saves(w), Seated
  PROVE  \A r \in RowIds : row'[r].user = Owner => row'[r] = NoRow
  <1> DEFINE q == req[w]
  <1>0. /\ q.on \in Users /\ pc[w] = "save" /\ Place(w)
        /\ row \in [RowIds -> [user : Users, status : RowStatus]]
        /\ q.op \in {"approve", "reject"} => q.arg \in RowIds
    BY RequestFacts, SaveStep DEF Typed, RequestsOK
  <1>1. CASE SaveJoinRequest(w)
    <2>1. q.op = "join" /\ (\/ row' = row
                            \/ \E r \in RowIds : row' = [row EXCEPT ![r] = [user |-> q.on, status |-> "pending"]])
      BY <1>1 DEF SaveJoinRequest, Saving
    <2>2. q.on # Owner
      BY <1>0, <2>1 DEF Seated, Barred, Self
    <2> QED BY <1>0, <2>1, <2>2 DEF Seated
  <1>2. CASE SaveApproval(w) \/ SaveRejection(w)
    <2>1. PICK status \in RowStatus : row' = [row EXCEPT ![q.arg].status = status] /\ q.op \in {"approve", "reject"}
      BY <1>2 DEF SaveApproval, SaveRejection, Saving, RowStatus
    <2>2. q.arg \in RowIds /\ row[q.arg].user # Owner
      BY <1>0, <2>1 DEF Place, Seated
    <2> QED BY <1>0, <2>1, <2>2 DEF Seated
  <1>3. CASE row' = row
    BY <1>3 DEF Seated
  <1> QED BY <1>1, <1>2, <1>3 DEF Saves, SavePublicJoin, SaveRedeem, SaveStatus, SaveRole, SaveNewInvite, SaveRevoked,
          SaveGroup, SaveDeleted

LEMMA SaveSeat ==
  ASSUME Typed, SeatInv, NEW w \in Workers, Saves(w)
  PROVE  SeatInv'
  <1>1. pc[w] = "save" /\ Over(w)
    BY SaveStep
  <1>2. /\ pc'[w] = "idle"
        /\ \A v \in Workers \ {w} : pc'[v] = pc[v] /\ req'[v] = req[v] /\ snap'[v] = snap[v]
    BY <1>1, Ends
  <1>3. ASSUME NEW v \in Workers PROVE RoleRead(v)'
    BY <1>2 DEF RoleRead, SeatInv
  <1>4. \A u \in Users \ {Owner} : member'[u].role # "owner"
    BY SaveMember DEF SeatInv
  <1>5. ASSUME member'[Owner].role = "owner" PROVE Seated'
    <2>1. Seated /\ member'[Owner].status = member[Owner].status
      BY <1>5, SaveMember DEF SeatInv
    <2>2. Active(Owner)'
      BY <2>1 DEF Seated, Active, IsActive
    <2>3. \A r \in RowIds : row'[r].user = Owner => row'[r] = NoRow
      BY <2>1, SaveRow
    <2>4. ASSUME NEW v \in Workers, req'[v].on = Owner, pc'[v] \in {"get", "save"} PROVE req'[v].op \notin Barred
      BY <1>2, <2>1, <2>4 DEF Seated
    <2> QED BY <2>2, <2>3, <2>4 DEF Seated, NoRow
  <1> QED BY <1>3, <1>4, <1>5 DEF SeatInv

LEMMA NextSeat == Typed /\ SeatInv /\ [Next]_vars => SeatInv'
  <1> SUFFICES ASSUME Typed, SeatInv, [Next]_vars PROVE SeatInv'
    OBVIOUS
  <1>1. CASE UNCHANGED vars
    BY <1>1 DEF vars, SeatInv, Seated, RoleRead, Active
  <1>2. ASSUME NEW w \in Workers, NEW q \in Requests, Arrive(w, q) PROVE SeatInv'
    <2>1. member' = member /\ row' = row /\ pc'[w] = "load"
      BY <1>2, Comes DEF shared
    <2>2. RoleRead(w)'
      BY <2>1 DEF RoleRead
    <2> QED BY <1>2, <2>1, <2>2, Comes, SeatFrame
  <1>3. ASSUME NEW w \in Workers, Load(w) \/ CheckActor(w) \/ CheckTarget(w) \/ GetRow(w) PROVE SeatInv'
    BY <1>3, ReadSeat
  <1>4. ASSUME NEW w \in Workers, Saves(w) PROVE SeatInv'
    BY <1>4, SaveSeat
  <1> QED BY <1>1, <1>2, <1>3, <1>4, Zenon DEF Next, Saves

LEMMA InitSeat == Init => SeatInv
  BY DEF Init, SeatInv, Seated, RoleRead, Active, IsActive, NoMember, NoRow

\* However many requests overlap, the role of owner stays on the creator's
\* row, and that row is active (services.py: leave, kick, ban, set_role and
\* _activate all save rows read before).
THEOREM OwnerSeatHolds == Spec => []OwnerSeat
  <1>1. Typed /\ SeatInv => OwnerSeat
    BY DEF Typed, SeatInv, Seated, OwnerSeat
  <1> QED BY <1>1, InitTyped, NextTyped, InitSeat, NextSeat, PTL DEF Spec

-----------------------------------------------------------------------------
(* What a deletion and a ban still promise *)

\* Once no update has read the deleted group, nothing brings it back: update
\* is the only write of is_deleted besides delete, and get_group no longer
\* finds the row for those that start.
THEOREM SealedForeverHolds == Spec => SealedForever
  <1>1. ASSUME Typed, Sealed, [Next]_vars PROVE Sealed'
    <2>1. CASE UNCHANGED vars
      BY <1>1, <2>1 DEF vars, Sealed
    <2>2. ASSUME NEW w \in Workers, isDeleted',
                 \A v \in Workers \ {w} : pc'[v] = pc[v] /\ req'[v] = req[v],
                 req'[w].op = "update" => pc'[w] = "load"
          PROVE  Sealed'
      BY <1>1, <2>2 DEF Sealed
    <2>3. ASSUME NEW w \in Workers, NEW q \in Requests, Arrive(w, q) PROVE Sealed'
      <3>1. /\ isDeleted' = isDeleted /\ pc'[w] = "load"
            /\ \A v \in Workers \ {w} : pc'[v] = pc[v] /\ req'[v] = req[v]
        BY <1>1, <2>3, Comes DEF shared
      <3> QED BY <1>1, <2>2, <3>1 DEF Sealed
    <2>4. ASSUME NEW w \in Workers, Over(w), isDeleted' PROVE Sealed'
      <3>1. req'[w].op # "update"
        BY <1>1, <2>4, Ends DEF NoReq
      <3> QED BY <1>1, <2>2, <2>4, <3>1, Ends
    <2>5. ASSUME NEW w \in Workers, Load(w) \/ CheckActor(w) \/ CheckTarget(w) \/ GetRow(w) PROVE Sealed'
      <3>1. isDeleted'
        BY <1>1, <2>5, LoadStep, ActorStep, TargetStep, GetRowStep DEF shared, Sealed
      <3>2. ASSUME req[w].op # "update" PROVE Sealed'
        <4>1. \/ Over(w)
              \/ \E label, s : Onward(w, label, s)
          BY <2>5, LoadStep, ActorStep, TargetStep, GetRowStep
        <4>2. ASSUME NEW label, NEW s, Onward(w, label, s) PROVE Sealed'
          <5>1. req' = req /\ \A v \in Workers \ {w} : pc'[v] = pc[v]
            BY <1>1, <4>2 DEF Onward, Goto, Typed, TypeOK
          <5> QED BY <2>2, <3>1, <3>2, <5>1
        <4> QED BY <2>4, <3>1, <4>1, <4>2
      <3>3. ASSUME req[w].op = "update" PROVE Sealed'
        <4>1. Load(w)
          BY <1>1, <2>5, <3>3, ActorStep, TargetStep, GetRowStep DEF Sealed
        <4>2. Over(w)
          BY <1>1, <3>3, <4>1, LoadStep DEF Sealed
        <4> QED BY <2>4, <3>1, <4>2
      <3> QED BY <3>2, <3>3
    <2>6. ASSUME NEW w \in Workers, Saves(w) PROVE Sealed'
      <3>1. pc[w] = "save" /\ Over(w)
        BY <1>1, <2>6, SaveStep
      <3>2. ~SaveGroup(w)
        BY <1>1, <3>1 DEF SaveGroup, Saving, Sealed
      <3>3. isDeleted'
        BY <1>1, <2>6, <3>2 DEF Sealed, Saves, SavePublicJoin, SaveJoinRequest, SaveRedeem, SaveStatus, SaveRole,
               SaveNewInvite, SaveRevoked, SaveApproval, SaveRejection, SaveDeleted
      <3> QED BY <2>4, <3>1, <3>3
    <2> QED BY <1>1, <2>1, <2>3, <2>5, <2>6, Zenon DEF Next, Saves
  <1>2. Typed /\ [Next]_vars => [Sealed => Sealed']_vars
    BY <1>1
  <1> QED BY <1>2, InitTyped, NextTyped, PTL DEF Spec, SealedForever

(* The operations whose check passed before a ban may still undo it.       *)
Undoing == Joining \cup {"leave", "kick", "ban"}

(* A write that may lift the ban of u.                                     *)
Lifts(u) == \E w \in Workers : req[w].on = u /\ pc[w] = "save" /\ req[w].op \in {"unban", "approve"}

\* A settled ban survives every step that is not such a write.
LEMMA SettledStep ==
  ASSUME Typed, [Next]_vars, NEW u \in Users, Settled(u)
  PROVE  Settled(u)' \/ Lifts(u)
  <1>0. /\ Banned(u)
        /\ \A w \in Workers : req[w].on = u /\ req[w].op \in Undoing => pc[w] \notin {"get", "save"}
    BY DEF Settled, Undoing
  <1>1. CASE UNCHANGED vars
    BY <1>1 DEF vars, Settled, Banned
  <1>2. ASSUME NEW w \in Workers, Banned(u)',
               \A v \in Workers \ {w} : pc'[v] = pc[v] /\ req'[v] = req[v],
               req'[w].on = u /\ req'[w].op \in Undoing => pc'[w] \notin {"get", "save"}
        PROVE  Settled(u)'
    <2>1. \A v \in Workers : req'[v].on = u /\ req'[v].op \in Undoing => pc'[v] \notin {"get", "save"}
      <3> SUFFICES ASSUME NEW v \in Workers
                   PROVE  req'[v].on = u /\ req'[v].op \in Undoing => pc'[v] \notin {"get", "save"}
        OBVIOUS
      <3> QED BY <1>0, <1>2
    <2> QED BY <1>2, <2>1 DEF Settled, Undoing, Joining
  <1>3. ASSUME NEW w \in Workers, NEW q \in Requests, Arrive(w, q) PROVE Settled(u)'
    BY <1>0, <1>2, <1>3, Comes DEF shared, Banned
  <1>4. ASSUME NEW w \in Workers, Over(w), Banned(u)' PROVE Settled(u)'
    <2>1. pc'[w] = "idle" /\ \A v \in Workers \ {w} : pc'[v] = pc[v] /\ req'[v] = req[v]
      BY <1>4, Ends
    <2> QED BY <1>2, <1>4, <2>1
  <1>5. ASSUME NEW w \in Workers, Load(w) \/ CheckActor(w) \/ CheckTarget(w) \/ GetRow(w) PROVE Settled(u)'
    <2>0. Banned(u)' /\ Place(w)
      BY <1>0, <1>5, LoadStep, ActorStep, TargetStep, GetRowStep DEF shared, Banned, Typed
    <2>1. ASSUME NEW label, NEW s, Onward(w, label, s),
                 req[w].on = u /\ req[w].op \in Undoing => label \notin {"get", "save"}
          PROVE  Settled(u)'
      <3>1. req' = req /\ pc'[w] = label /\ \A v \in Workers \ {w} : pc'[v] = pc[v]
        BY <2>1 DEF Onward, Goto, Typed, TypeOK
      <3> QED BY <1>2, <2>0, <2>1, <3>1
    <2>2. CASE Load(w)
      <3>1. Over(w) \/ \E s : Onward(w, IF req[w].op \in Self THEN "target" ELSE "actor", s)
        BY <2>2, LoadStep
      <3> QED BY <1>4, <2>0, <2>1, <3>1
    <2>3. CASE CheckActor(w)
      <3>1. pc[w] = "actor"
            /\ (Over(w) \/ \E s : Onward(w, IF req[w].op \in Moderation THEN "target"
                                            ELSE IF req[w].op = "approve" THEN "get" ELSE "save", s))
        BY <2>3, ActorStep
      <3>2. req[w].op \in Undoing => req[w].op \in Moderation
        BY <2>0, <3>1 DEF Place, Undoing, Joining, Moderation, Self
      <3> QED BY <1>4, <2>0, <2>1, <3>1, <3>2
    <2>4. CASE CheckTarget(w)
      <3>1. \/ Over(w)
            \/ /\ \E label : Onward(w, label, snap[w])
               /\ req[w].op \in Joining => ~Banned(req[w].on)
               /\ req[w].op \in {"leave", "kick", "ban"} => Active(req[w].on)
        BY <2>4, TargetStep
      <3>2. Banned(u) /\ ~Active(u)
        BY <1>0 DEF Banned, Active, IsActive
      <3> QED BY <1>4, <2>0, <2>1, <3>1, <3>2 DEF Undoing
    <2>5. CASE GetRow(w)
      <3>1. pc[w] = "get" /\ \E s : Onward(w, "save", s)
        BY <2>5, GetRowStep
      <3> QED BY <1>0, <2>1, <3>1
    <2> QED BY <1>5, <2>2, <2>3, <2>4, <2>5
  <1>6. ASSUME NEW w \in Workers, Saves(w) PROVE Settled(u)' \/ Lifts(u)
    <2> DEFINE q == req[w]
    <2>0. pc[w] = "save" /\ Over(w) /\ q.on \in Users /\ member \in [Users -> [role : Role, status : Status]]
      BY <1>6, SaveStep, RequestFacts DEF Typed, TypeOK, RequestsOK
    <2>1. q.on = u => q.op \notin Undoing
      BY <1>0, <2>0
    <2>2. Banned(u)' \/ Lifts(u)
      <3>1. CASE member' = member
        BY <1>0, <3>1 DEF Banned
      <3>2. CASE SavePublicJoin(w) \/ SaveRedeem(w)
        <4>1. q.op \in Undoing /\ member' = Activated(w)
          BY <3>2 DEF SavePublicJoin, SaveRedeem, Saving, Undoing, Joining
        <4> QED BY <1>0, <2>0, <2>1, <4>1 DEF Activated, Banned
      <3>3. CASE SaveApproval(w)
        <4>1. q.op = "approve" /\ member' = Activated(w)
          BY <3>3 DEF SaveApproval, Saving
        <4> QED BY <1>0, <2>0, <4>1 DEF Activated, Banned, Lifts
      <3>4. CASE SaveRole(w)
        BY <1>0, <2>0, <3>4 DEF SaveRole, Banned
      <3>5. CASE SaveStatus(w)
        <4> DEFINE left == [leave |-> "left", kick |-> "kicked", ban |-> "banned", unban |-> "left"]
        <4>1. PICK op \in DOMAIN left : q.op = op /\ member' = [member EXCEPT ![q.on].status = left[op]]
          BY <3>5, Zenon DEF SaveStatus, Saving
        <4>2. q.op \in Undoing \/ q.op = "unban"
          BY <4>1 DEF Undoing
        <4> HIDE DEF left
        <4> QED BY <1>0, <2>0, <2>1, <4>1, <4>2 DEF Banned, Lifts
      <3> QED BY <1>6, <3>1, <3>2, <3>3, <3>4, <3>5 DEF Saves, SaveJoinRequest, SaveNewInvite, SaveRevoked,
              SaveRejection, SaveGroup, SaveDeleted
    <2> QED BY <1>4, <2>0, <2>2
  <1> QED BY <1>1, <1>3, <1>5, <1>6, Zenon DEF Next, Saves

\* Only an unban or an approval lifts a ban that no earlier check can undo:
\* join, redeem, leave, kick and ban all refuse a banned target.
THEOREM SettledBanHoldsAlways == Spec => SettledBanHolds
  <1>1. Typed /\ [Next]_vars => [\A u \in Users : Settled(u) => Settled(u)' \/ Lifts(u)]_vars
    BY SettledStep
  <1>2. Typed /\ [Next]_vars =>
          [\A u \in Users : Settled(u) =>
             \/ Settled(u)'
             \/ \E w \in Workers : /\ req[w].on = u /\ pc[w] = "save"
                                  /\ req[w].op \in {"unban", "approve"}]_vars
    BY <1>1 DEF Lifts
  <1> QED BY <1>2, InitTyped, NextTyped, PTL DEF Spec, SettledBanHolds

-----------------------------------------------------------------------------
(* The limit of an invite *)

(* The redeems that found the invite usable and have still to use it.      *)
Holders == {w \in Workers : req[w].op = "redeem" /\ pc[w] \in {"target", "get", "save"}}

\* Each redeem in flight was admitted when a use was left.
Admitted ==
  invite.maxUses > 0 => invite.uses + Cardinality(Holders) <= invite.maxUses + Cardinality(Workers) - 1

LEMMA HoldersFinite ==
  ASSUME Typed
  PROVE  /\ IsFiniteSet(Holders) /\ Cardinality(Holders) \in Nat
         /\ Cardinality(Workers) \in Nat /\ Cardinality(Holders) <= Cardinality(Workers)
         /\ invite.uses \in Nat /\ invite.maxUses \in Nat
  BY WorkersAssumption, FS_Subset, FS_CardinalityType DEF Holders, Typed, TypeOK

\* A step of w that leaves the uses alone and does not admit w.
LEMMA AdmittedFrame ==
  ASSUME Typed, Typed', Admitted, NEW w \in Workers, UNCHANGED <<invite.uses, invite.maxUses>>,
         \A v \in Workers \ {w} : pc'[v] = pc[v] /\ req'[v] = req[v],
         w \in Holders' => w \in Holders
  PROVE  Admitted'
  <1>1. Holders' \subseteq Holders
    BY DEF Holders
  <1>2. Cardinality(Holders') <= Cardinality(Holders)
    BY <1>1, HoldersFinite, FS_Subset
  <1>3. Cardinality(Holders)' \in Nat
    BY HoldersFinite, FS_Subset, FS_CardinalityType, <1>1
  <1> QED BY <1>2, <1>3, HoldersFinite DEF Admitted

LEMMA InitAdmitted == Init => Admitted
  BY DEF Init, NoInvite, Admitted

LEMMA NextAdmitted == Typed /\ Admitted /\ [Next]_vars => Admitted'
  <1> SUFFICES ASSUME Typed, Admitted, [Next]_vars PROVE Admitted'
    OBVIOUS
  <1>0. Typed' /\ IsFiniteSet(Holders') /\ Cardinality(Holders') \in Nat
        /\ Cardinality(Holders') <= Cardinality(Workers) /\ Cardinality(Workers) \in Nat
    <2>1. Typed'
      BY NextTyped
    <2>2. Holders' \subseteq Workers
      BY DEF Holders
    <2> QED BY <2>1, <2>2, WorkersAssumption, FS_Subset, FS_CardinalityType
  <1>1. CASE UNCHANGED vars
    BY <1>1 DEF vars, Admitted, Holders
  <1>2. ASSUME NEW w \in Workers, NEW q \in Requests, Arrive(w, q) PROVE Admitted'
    <2>1. w \notin Holders' /\ invite' = invite
      BY <1>2, Comes DEF Holders, shared
    <2> QED BY <1>0, <1>2, <2>1, Comes, AdmittedFrame
  <1>3. ASSUME NEW w \in Workers, Over(w), invite' = invite PROVE Admitted'
    <2>1. w \notin Holders'
      BY <1>3, Ends DEF Holders
    <2> QED BY <1>0, <1>3, <2>1, Ends, AdmittedFrame
  <1>4. ASSUME NEW w \in Workers, Load(w) PROVE Admitted'
    <2>1. invite' = invite
      BY <1>4, LoadStep DEF shared
    <2>2. CASE req[w].op = "redeem" /\ ~Over(w)
      <3>1. IsUsable(invite)
        BY <1>4, <2>2, LoadStep
      <3>2. invite.maxUses > 0 => invite.uses <= invite.maxUses - 1
        BY <3>1, HoldersFinite DEF IsUsable
      <3> QED BY <1>0, <2>1, <3>2, HoldersFinite DEF Admitted
    <2>3. ASSUME req[w].op # "redeem", ~Over(w) PROVE Admitted'
      <3>1. \E label, s : Onward(w, label, s)
        BY <1>4, <2>3, LoadStep, Zenon
      <3>2. req' = req /\ \A v \in Workers \ {w} : pc'[v] = pc[v]
        BY <3>1 DEF Onward, Goto, Typed, TypeOK
      <3>3. w \notin Holders'
        BY <2>3, <3>2 DEF Holders
      <3> QED BY <1>0, <2>1, <3>2, <3>3, AdmittedFrame
    <2> QED BY <1>3, <2>1, <2>2, <2>3
  <1>5. ASSUME NEW w \in Workers, CheckActor(w) \/ CheckTarget(w) \/ GetRow(w) PROVE Admitted'
    <2>1. invite' = invite /\ pc[w] \in {"actor", "target", "get"} /\ Place(w)
      BY <1>5, ActorStep, TargetStep, GetRowStep DEF shared, Typed
    <2>2. Over(w) \/ \E label, s : Onward(w, label, s)
      BY <1>5, ActorStep, TargetStep, GetRowStep
    <2>3. ASSUME NEW label, NEW s, Onward(w, label, s) PROVE Admitted'
      <3>1. req' = req /\ \A v \in Workers \ {w} : pc'[v] = pc[v]
        BY <2>3 DEF Onward, Goto, Typed, TypeOK
      <3>2. w \in Holders' => w \in Holders
        BY <2>1, <3>1 DEF Holders, Place, Self
      <3> QED BY <1>0, <2>1, <3>1, <3>2, AdmittedFrame
    <2> QED BY <1>3, <2>1, <2>2, <2>3
  <1>6. ASSUME NEW w \in Workers, Saves(w) PROVE Admitted'
    <2>0. pc[w] = "save" /\ Over(w) /\ w \notin Holders'
      BY <1>6, SaveStep, Ends DEF Holders
    <2>1. CASE invite' = invite
      BY <1>3, <2>0, <2>1
    <2>2. CASE SaveRedeem(w)
      <3>1. w \in Holders /\ Holders' = Holders \ {w}
        BY <2>0, <2>2, Ends DEF SaveRedeem, Saving, Holders
      <3>2. Cardinality(Holders') = Cardinality(Holders) - 1
        BY <3>1, HoldersFinite, FS_RemoveElement
      <3>3. invite'.uses = invite.uses + 1 /\ invite'.maxUses = invite.maxUses
        BY <2>2 DEF SaveRedeem, Typed, TypeOK
      <3> QED BY <3>2, <3>3, HoldersFinite DEF Admitted
    <2>3. CASE SaveNewInvite(w)
      <3>1. invite'.uses = 0
        BY <2>3 DEF SaveNewInvite, NoInvite
      <3>2. invite'.maxUses \in Nat
        BY <1>0 DEF Typed, TypeOK
      <3> QED BY <1>0, <3>1, <3>2 DEF Admitted
    <2>4. CASE SaveRevoked(w)
      <3>1. invite'.uses = invite.uses /\ invite'.maxUses = invite.maxUses
        BY <2>4 DEF SaveRevoked, Typed, TypeOK
      <3> QED BY <1>0, <2>0, <3>1, Ends, AdmittedFrame
    <2> QED BY <1>6, <2>1, <2>2, <2>3, <2>4 DEF Saves, SavePublicJoin, SaveJoinRequest, SaveStatus, SaveRole,
            SaveApproval, SaveRejection, SaveGroup, SaveDeleted
  <1> QED BY <1>1, <1>2, <1>4, <1>5, <1>6, Zenon DEF Next, Saves

\* However many workers redeem at once, an invite is overdrawn by less than
\* one use for each of them: is_usable is asked once before each use.
THEOREM OverdraftBoundedHolds == Spec => []OverdraftBounded
  <1>1. Typed /\ Admitted => OverdraftBounded
    BY HoldersFinite DEF Admitted, OverdraftBounded
  <1> QED BY <1>1, InitTyped, NextTyped, InitAdmitted, NextAdmitted, PTL DEF Spec

-----------------------------------------------------------------------------
(* The rows of join requests *)

(* The request rows of u, and the latest of them.                          *)
Mine(u) == {r \in RowIds : row[r] # NoRow /\ row[r].user = u}
Latest(u, r) == r \in Mine(u) /\ \A s \in Mine(u) : s <= r

(* Rows are used in the order of their numbers, and a pending row is the   *)
(* latest of its user: there is one at most.                               *)
RowsInOrder ==
  /\ \A r, s \in RowIds : row[s] # NoRow /\ r < s => row[r] # NoRow
  /\ \A u \in Users : Mine(u) # {} => \E r \in Mine(u) : Latest(u, r)
  /\ \A r \in RowIds : row[r].status = "pending" => Latest(row[r].user, r)

\* The status of u's latest row is what GroupService calls his request.
LEMMA LatestOnly == \A u \in Users : \A r \in RowIds : Latest(u, r) => LatestStatus(u) = row[r].status
  <1> SUFFICES ASSUME NEW u \in Users, NEW r \in RowIds, Latest(u, r) PROVE LatestStatus(u) = row[r].status
    OBVIOUS
  <1> DEFINE greatest(x) == \A s \in Mine(u) : s <= x
             top == CHOOSE x \in Mine(u) : greatest(x)
  <1>1. r \in Mine(u) /\ greatest(r)
    BY DEF Latest
  <1>2. top \in Mine(u) /\ greatest(top)
    BY <1>1
  <1>3. Mine(u) \subseteq Nat
    BY DEF Mine
  <1>4. top = r
    <2> HIDE DEF top
    <2>1. top <= r /\ r <= top
      BY <1>1, <1>2
    <2> QED BY <1>1, <1>2, <1>3, <2>1
  <1>5. LatestStatus(u) = IF Mine(u) = {} THEN "none" ELSE row[top].status
    BY Zenon DEF LatestStatus, Mine
  <1> HIDE DEF top
  <1> QED BY <1>1, <1>4, <1>5

LEMMA LatestPrimed == (\A u \in Users : \A r \in RowIds : Latest(u, r) => LatestStatus(u) = row[r].status)'
  BY LatestOnly, PTL

\* A decision changes the status of one row, and leaves it used.
LEMMA DecidedRows ==
  ASSUME Typed, RowsInOrder, NEW r \in RowIds, row[r] # NoRow, NEW status \in {"approved", "rejected"},
         row' = [row EXCEPT ![r].status = status]
  PROVE  RowsInOrder' /\ \A u \in Users : Mine(u)' = Mine(u)
  <1>1. row \in [RowIds -> [user : Users, status : RowStatus]]
    BY DEF Typed, RequestsOK
  <1>2. \A s \in RowIds : /\ row'[s].user = row[s].user /\ (row'[s] = NoRow <=> row[s] = NoRow)
                          /\ row'[s].status = IF s = r THEN status ELSE row[s].status
    BY <1>1 DEF NoRow
  <1>3. ASSUME NEW u PROVE Mine(u)' = Mine(u)
    BY <1>2 DEF Mine, NoRow
  <1>4. \A u, s : Latest(u, s)' <=> Latest(u, s)
    BY <1>3 DEF Latest
  <1>5. \A s, t \in RowIds : row'[t] # NoRow /\ s < t => row'[s] # NoRow
    BY <1>2 DEF RowsInOrder
  <1>6. \A u \in Users : Mine(u)' # {} => \E s \in Mine(u)' : Latest(u, s)'
    BY <1>3, <1>4 DEF RowsInOrder
  <1>7. ASSUME NEW s \in RowIds, row'[s].status = "pending" PROVE Latest(row[s].user, s)'
    BY <1>2, <1>4, <1>7 DEF RowsInOrder
  <1> QED BY <1>3, <1>5, <1>6, <1>7, Zenon DEF RowsInOrder

\* A new row is the latest of its user.
LEMMA AddedRow ==
  ASSUME Typed, RowsInOrder, NEW r \in RowIds, row[r] = NoRow, \A s \in RowIds : row[s] = NoRow => r <= s,
         NEW u \in Users, \A s \in RowIds : row[s] # [user |-> u, status |-> "pending"],
         row' = [row EXCEPT ![r] = [user |-> u, status |-> "pending"]]
  PROVE  /\ RowsInOrder' /\ Latest(u, r)'
         /\ \A v \in Users \ {u} : Mine(v)' = Mine(v)
  <1>1. row \in [RowIds -> [user : Users, status : RowStatus]]
    BY DEF Typed, RequestsOK
  <1>2. \A s \in RowIds \ {r} : row'[s] = row[s]
    BY <1>1
  <1>3. row'[r] = [user |-> u, status |-> "pending"] /\ row'[r] # NoRow
    BY <1>1 DEF NoRow
  <1>4. \A s \in RowIds : row[s] # NoRow => s < r
    BY DEF RowsInOrder
  <1>5. ASSUME NEW v, v # u PROVE Mine(v)' = Mine(v)
    BY <1>2, <1>3, <1>5 DEF Mine, NoRow
  <1>6. Mine(u)' = Mine(u) \cup {r}
    BY <1>2, <1>3 DEF Mine, NoRow
  <1>7. Latest(u, r)'
    BY <1>4, <1>6 DEF Latest, Mine
  <1>8. \A s, t \in RowIds : row'[t] # NoRow /\ s < t => row'[s] # NoRow
    BY <1>2, <1>3, <1>4 DEF RowsInOrder
  <1>9. ASSUME NEW v \in Users, Mine(v)' # {} PROVE \E s \in Mine(v)' : Latest(v, s)'
    <2>1. CASE v = u
      BY <1>7, <2>1 DEF Latest
    <2>2. CASE v # u
      BY <1>5, <1>9, <2>2 DEF RowsInOrder, Latest
    <2> QED BY <2>1, <2>2
  <1>10. ASSUME NEW s \in RowIds, row'[s].status = "pending" PROVE Latest(row[s].user, s)'
    <2>1. CASE s = r
      BY <1>3, <1>7, <2>1
    <2>2. CASE s # r
      <3>1. row[s].status = "pending" /\ row'[s] = row[s] /\ row[s] \in [user : Users, status : RowStatus]
        BY <1>1, <1>2, <1>10, <2>2
      <3>2. row[s].user # u
        BY <3>1
      <3>3. Latest(row[s].user, s) /\ Mine(row[s].user)' = Mine(row[s].user)
        BY <1>5, <3>1, <3>2 DEF RowsInOrder
      <3> QED BY <3>1, <3>3 DEF Latest
    <2> QED BY <2>1, <2>2
  <1> QED BY <1>5, <1>7, <1>8, <1>9, <1>10, Zenon DEF RowsInOrder

LEMMA NextRows == Typed /\ RowsInOrder /\ [Next]_vars => RowsInOrder'
  <1> SUFFICES ASSUME Typed, RowsInOrder, [Next]_vars PROVE RowsInOrder'
    OBVIOUS
  <1>1. CASE row' = row
    BY <1>1 DEF RowsInOrder, Latest, Mine
  <1>2. ASSUME NEW w \in Workers, SaveJoinRequest(w) PROVE RowsInOrder'
    <2>1. req[w].on \in Users
      BY RequestFacts DEF Typed, RequestsOK
    <2>2. CASE \E r \in RowIds : row[r] = [user |-> req[w].on, status |-> "pending"]
      BY <1>1, <1>2, <2>2 DEF SaveJoinRequest
    <2>3. CASE ~ \E r \in RowIds : row[r] = [user |-> req[w].on, status |-> "pending"]
      <3>1. PICK r \in RowIds : /\ row[r] = NoRow /\ \A s \in RowIds : row[s] = NoRow => r <= s
                                /\ row' = [row EXCEPT ![r] = [user |-> req[w].on, status |-> "pending"]]
        BY <1>2, <2>3 DEF SaveJoinRequest
      <3> QED BY <2>1, <2>3, <3>1, AddedRow
    <2> QED BY <2>2, <2>3
  <1>3. ASSUME NEW w \in Workers, SaveApproval(w) \/ SaveRejection(w) PROVE RowsInOrder'
    <2>1. req[w].arg \in RowIds /\ row[req[w].arg] # NoRow
      BY <1>3, RequestFacts DEF Typed, RequestsOK, Place, SaveApproval, SaveRejection, Saving
    <2> QED BY <1>3, <2>1, DecidedRows DEF SaveApproval, SaveRejection
  <1>4. ASSUME NEW w \in Workers, Load(w) \/ CheckActor(w) \/ CheckTarget(w) \/ GetRow(w) PROVE RowsInOrder'
    BY <1>1, <1>4, LoadStep, ActorStep, TargetStep, GetRowStep DEF shared
  <1>5. ASSUME NEW w \in Workers, Saves(w) PROVE RowsInOrder'
    BY <1>1, <1>2, <1>3, <1>5 DEF Saves, SavePublicJoin, SaveRedeem, SaveStatus, SaveRole, SaveNewInvite, SaveRevoked,
           SaveGroup, SaveDeleted
  <1>6. ASSUME NEW w \in Workers, NEW q \in Requests, Arrive(w, q) PROVE RowsInOrder'
    BY <1>1, <1>6 DEF Arrive
  <1>7. CASE UNCHANGED vars
    BY <1>1, <1>7 DEF vars
  <1> QED BY <1>4, <1>5, <1>6, <1>7, Zenon DEF Next, Saves

LEMMA InitRows == Init => RowsInOrder /\ \A u \in Users : Mine(u) = {}
  <1> SUFFICES ASSUME Init PROVE RowsInOrder /\ \A u \in Users : Mine(u) = {}
    OBVIOUS
  <1>1. \A r \in RowIds : row[r] = NoRow
    BY DEF Init
  <1>2. \A u \in Users : Mine(u) = {}
    BY <1>1 DEF Mine
  <1> QED BY <1>1, <1>2 DEF RowsInOrder, NoRow

-----------------------------------------------------------------------------
(* One request at a time *)

(* What a request has found, what allows it, and what the operations that  *)
(* save a role have read, are still true: nobody else is at work.          *)
Found(q, s) ==
  /\ q.op = "redeem" => IsUsable(invite)
  /\ q.op = "revoke_invite" => invite.created
  /\ q.op \notin {"redeem", "revoke_invite", "unban"} => ~isDeleted
  /\ q.op = "join" => s.visibility = visibility
  /\ q.op \in {"approve", "reject"} => s.status = row[q.arg].status

Allowed(q, s) ==
  /\ q.op = "delete" => member[q.by].role = "owner"
  /\ q.op # "delete" => Holds(q.by, Needs[q.op])
  /\ q.op \in {"approve", "reject"} => s.status = "pending"
  /\ q.op \in Moderation => s.role = member[q.by].role

Resaves(q, s) == q.op \in {"redeem", "approve"} \/ (q.op = "join" /\ s.visibility = "public")

UpToDate(w) ==
  LET q == req[w]
      s == snap[w]
  IN /\ pc[w] # "idle" /\ q.op = "create_invite" => ~invite.created
     /\ pc[w] # "idle" /\ q.op = "redeem" => invite.uses < UsesBound
     /\ pc[w] \in {"actor", "target", "get", "save"} => Found(q, s)
     /\ pc[w] \in {"target", "get", "save"} /\ q.op \notin Self => Allowed(q, s)
     /\ pc[w] \in {"get", "save"} /\ q.op \in Self \cup Moderation =>
          TargetOK(w) /\ (q.op = "join" => s.visibility # "invite")
     /\ pc[w] = "save" /\ Resaves(q, s) => s.role = member[q.on].role

\* A request that goes on keeps what it has found.
LEMMA LoadFresh ==
  ASSUME Typed, NEW w \in Workers, UpToDate(w), Load(w), ~Over(w)
  PROVE  UpToDate(w)'
  <1> DEFINE q == req[w]
             found == CASE q.op = "redeem" -> IsUsable(invite)
                        [] q.op = "revoke_invite" -> invite.created
                        [] q.op = "unban" -> TRUE
                        [] q.op \in {"approve", "reject"} ->
                             ~isDeleted /\ row[q.arg] # NoRow /\ row[q.arg].user = q.on
                        [] OTHER -> ~isDeleted
             label == IF q.op \in Joining \union {"leave"} THEN "target" ELSE "actor"
             seen == IF q.op \in {"approve", "reject"} THEN row[q.arg].status ELSE "none"
             s == [snap[w] EXCEPT !.visibility = visibility, !.status = seen]
  <1>1. pc[w] = "load" /\ Proceed(w, found, label, s) /\ UNCHANGED shared
    BY Zenon DEF Load
  <1>2. label = IF q.op \in Self THEN "target" ELSE "actor"
    BY DEF Joining, Self
  <1>3. /\ found => /\ q.op = "redeem" => IsUsable(invite)
                    /\ q.op = "revoke_invite" => invite.created
                    /\ q.op \notin {"redeem", "revoke_invite", "unban"} => ~isDeleted
    <2> HIDE DEF q
    <2> QED OBVIOUS
  <1>4. snap[w] \in Snap
    BY DEF Typed, RequestsOK
  <1>5. /\ s.visibility = visibility
        /\ q.op \in {"approve", "reject"} => s.status = row[q.arg].status
    <2> HIDE DEF q
    <2> QED BY <1>4 DEF Snap
  <1> HIDE DEF found, label, s
  <1>6. found /\ Onward(w, label, s)
    BY <1>1 DEF Proceed, Onward
  <1>7. pc'[w] = label /\ snap'[w] = s /\ req'[w] = q
    BY <1>6 DEF Onward, Goto, Typed, TypeOK, RequestsOK
  <1>8. Found(q, s)
    BY <1>3, <1>5, <1>6 DEF Found
  <1>9. (Found(req[w], snap[w]))'
    BY <1>1, <1>7, <1>8 DEF Found, shared, IsUsable
  <1> QED BY <1>1, <1>2, <1>7, <1>9 DEF UpToDate, shared

LEMMA ActorFresh ==
  ASSUME Typed, NEW w \in Workers, UpToDate(w), CheckActor(w), ~Over(w)
  PROVE  UpToDate(w)'
  <1> DEFINE q == req[w]
             ok == CASE q.op = "delete" -> member[q.by].role = "owner"
                     [] q.op \in {"approve", "reject"} ->
                          Holds(q.by, Needs[q.op]) /\ snap[w].status = "pending"
                     [] OTHER -> Holds(q.by, Needs[q.op])
             next == CASE q.op \in {"kick", "ban", "unban", "set_role"} -> "target"
                       [] q.op = "approve" -> "get"
                       [] OTHER -> "save"
             s == [snap[w] EXCEPT !.role = member[q.by].role]
  <1>1. pc[w] = "actor" /\ Proceed(w, ok, next, s) /\ UNCHANGED shared
    BY Zenon DEF CheckActor
  <1>2. next = IF q.op \in Moderation THEN "target" ELSE IF q.op = "approve" THEN "get" ELSE "save"
    <2> HIDE DEF q
    <2> QED BY DEF Moderation
  <1>3. snap[w] \in Snap /\ Place(w) /\ q.op \notin Self
    BY <1>1 DEF Typed, RequestsOK, Place
  <1>4. /\ s.role = member[q.by].role /\ s.visibility = snap[w].visibility /\ s.status = snap[w].status
    <2> HIDE DEF q
    <2> QED BY <1>3 DEF Snap
  <1>5. ok => /\ q.op = "delete" => member[q.by].role = "owner"
              /\ q.op # "delete" => Holds(q.by, Needs[q.op])
              /\ q.op \in {"approve", "reject"} => snap[w].status = "pending"
    <2> HIDE DEF q
    <2> QED OBVIOUS
  <1> HIDE DEF ok, next, s
  <1>6. ok /\ Onward(w, next, s)
    BY <1>1 DEF Proceed, Onward
  <1>7. pc'[w] = next /\ snap'[w] = s /\ req'[w] = q
    BY <1>6 DEF Onward, Goto, Typed, TypeOK, RequestsOK
  <1>8. Allowed(q, s)
    BY <1>4, <1>5, <1>6, Zenon DEF Allowed
  <1>9. (Allowed(req[w], snap[w]))'
    BY <1>1, <1>7, <1>8 DEF Allowed, shared, Holds
  <1>10. Found(q, snap[w])
    BY <1>1 DEF UpToDate
  <1>11. (Found(req[w], snap[w]))'
    BY <1>1, <1>4, <1>7, <1>10 DEF Found, shared, IsUsable
  <1>12. next \notin {"get", "save"} \/ q.op \notin Self \cup Moderation
    BY <1>2, <1>3
  <1>13. next # "save" \/ ~Resaves(q, s)
    BY <1>2, <1>3 DEF Resaves, Self
  <1> QED BY <1>1, <1>2, <1>7, <1>9, <1>11, <1>12, <1>13 DEF UpToDate, shared, Resaves, Moderation

LEMMA TargetFresh ==
  ASSUME Typed, NEW w \in Workers, UpToDate(w), CheckTarget(w), ~Over(w)
  PROVE  UpToDate(w)'
  <1> DEFINE q == req[w]
             ok == TargetOK(w) /\ (q.op \in Joining => q.op = "redeem" \/ snap[w].visibility # "invite")
             next == IF q.op = "redeem" \/ (q.op = "join" /\ snap[w].visibility = "public") THEN "get" ELSE "save"
  <1>1. pc[w] = "target" /\ Proceed(w, ok, next, snap[w]) /\ UNCHANGED shared
    BY Zenon DEF CheckTarget
  <1>2. Place(w)
    BY DEF Typed
  <1>3. ok /\ Onward(w, next, snap[w])
    BY <1>1, Zenon DEF Proceed, Onward
  <1>4. pc'[w] = next /\ snap'[w] = snap[w] /\ req'[w] = q
    BY <1>3 DEF Onward, Goto, Typed, TypeOK, RequestsOK
  <1>5. Found(q, snap[w]) /\ (q.op \notin Self => Allowed(q, snap[w]))
    BY <1>1 DEF UpToDate
  <1>6. (Found(req[w], snap[w]))' /\ (q.op \notin Self => (Allowed(req[w], snap[w]))')
    BY <1>1, <1>4, <1>5 DEF Found, Allowed, shared, IsUsable, Holds
  <1>7. TargetOK(w)' /\ (q.op = "join" => snap[w].visibility # "invite")
    <2>1. TargetOK(w) /\ (q.op = "join" => snap[w].visibility # "invite")
      BY <1>3 DEF Joining
    <2>2. TargetOK(w)'
      BY <1>1, <1>4, <2>1 DEF TargetOK, shared, Banned
    <2> QED BY <2>1, <2>2
  <1>8. q.op \in Self \cup Moderation /\ next \in {"get", "save"}
    BY <1>1, <1>2 DEF Place
  <1>9. next # "save" \/ ~Resaves(q, snap[w])
    BY <1>8 DEF Resaves, Self, Moderation
  <1> HIDE DEF next
  <1> QED BY <1>1, <1>4, <1>6, <1>7, <1>8, <1>9 DEF UpToDate, shared, Resaves

LEMMA GetFresh ==
  ASSUME Typed, NEW w \in Workers, UpToDate(w), GetRow(w)
  PROVE  UpToDate(w)'
  <1> DEFINE q == req[w]
             s == [snap[w] EXCEPT !.role = member[q.on].role]
  <1>1. pc[w] = "get" /\ UNCHANGED shared /\ Onward(w, "save", s)
    BY GetRowStep
  <1>2. snap[w] \in Snap /\ Place(w) /\ q.op \in {"join", "redeem", "approve"}
    BY <1>1 DEF Typed, RequestsOK, Place
  <1>3. /\ s.role = member[q.on].role /\ s.visibility = snap[w].visibility /\ s.status = snap[w].status
    <2> HIDE DEF q
    <2> QED BY <1>2 DEF Snap
  <1> HIDE DEF s
  <1>4. pc'[w] = "save" /\ snap'[w] = s /\ req'[w] = q
    BY <1>1 DEF Onward, Goto, Typed, TypeOK, RequestsOK
  <1>5. /\ Found(q, snap[w]) /\ (q.op \notin Self => Allowed(q, snap[w]))
        /\ q.op \in Self \cup Moderation => TargetOK(w) /\ (q.op = "join" => snap[w].visibility # "invite")
    BY <1>1 DEF UpToDate
  <1>6. (Found(req[w], snap[w]))'
    BY <1>1, <1>3, <1>4, <1>5 DEF Found, shared, IsUsable
  <1>7. q.op \notin Self => (Allowed(req[w], snap[w]))'
    BY <1>1, <1>2, <1>3, <1>4, <1>5 DEF Allowed, shared, Holds, Moderation
  <1>8. q.op \in Self \cup Moderation => TargetOK(w)' /\ (q.op = "join" => s.visibility # "invite")
    <2> SUFFICES ASSUME q.op \in Self \cup Moderation PROVE TargetOK(w)' /\ (q.op = "join" => s.visibility # "invite")
      OBVIOUS
    <2>1. q.op \in Joining
      BY <1>2 DEF Joining, Self, Moderation
    <2> QED BY <1>1, <1>3, <1>4, <1>5, <2>1 DEF TargetOK, shared, Banned, Joining
  <1>9. (Resaves(req[w], snap[w]) => snap[w].role = member[req[w].on].role)'
    BY <1>1, <1>3, <1>4 DEF shared
  <1> QED BY <1>1, <1>4, <1>6, <1>7, <1>8, <1>9 DEF UpToDate, shared

LEMMA NextFresh ==
  ASSUME Typed, NEW w, Workers = {w}, UpToDate(w), [Next]_vars
  PROVE  UpToDate(w)'
  <1>0. w \in Workers
    OBVIOUS
  <1>1. CASE UNCHANGED vars
    BY <1>1 DEF vars, UpToDate, Found, Allowed, Resaves, TargetOK, Banned, Holds, IsUsable
  <1>2. CASE Over(w)
    BY <1>0, <1>2, Ends DEF UpToDate
  <1>3. ASSUME NEW q \in Requests, Arrive(w, q) PROVE UpToDate(w)'
    <2>1. pc'[w] = "load" /\ req'[w] = q /\ invite' = invite
      BY <1>0, <1>3, Comes DEF shared
    <2>2. (q.op = "create_invite" => ~invite.created) /\ (q.op = "redeem" => invite.uses < UsesBound)
      BY <1>3 DEF Arrive, WithinBounds
    <2> QED BY <2>1, <2>2 DEF UpToDate
  <1>4. CASE GetRow(w)
    BY <1>0, <1>4, GetFresh
  <1>5. CASE Load(w) \/ CheckActor(w) \/ CheckTarget(w)
    BY <1>0, <1>2, <1>5, LoadFresh, ActorFresh, TargetFresh
  <1>6. CASE Saves(w)
    BY <1>0, <1>2, <1>6, SaveStep
  <1>7. (\E v \in Workers :
          \/ \E q \in Requests : Arrive(v, q)
          \/ Load(v) \/ CheckActor(v) \/ CheckTarget(v) \/ GetRow(v) \/ Saves(v)) \/ UNCHANGED vars
    BY Zenon DEF Next, Saves
  <1> QED BY <1>1, <1>3, <1>4, <1>5, <1>6, <1>7

(* The rows as GroupService has them.                                      *)
Listed == [u \in Users |-> [role |-> member[u].role, status |-> member[u].status, muted |-> FALSE]]
Links == [i \in {Link} |-> [created |-> invite.created, maxUses |-> invite.maxUses,
                            uses |-> invite.uses, expiry |-> "never", revoked |-> invite.revoked]]
Statuses == [u \in Users |-> LatestStatus(u)]

\* GroupService asks of its rows what a request here asks of the rows it reads.
LEMMA GuardsAgree ==
  ASSUME NEW u \in Users
  PROVE  /\ Serial!Active(u) <=> Active(u)
         /\ Serial!Banned(u) <=> Banned(u)
         /\ \A perm : Serial!Require(u, perm) <=> Holds(u, perm)
         /\ Listed[u].role = member[u].role /\ Listed[u].status = member[u].status
  <1>1. Listed[u].role = member[u].role /\ Listed[u].status = member[u].status
    BY DEF Listed
  <1>2. (Serial!Active(u) <=> Active(u)) /\ (Serial!Banned(u) <=> Banned(u))
    BY DEF Serial!Active, Serial!Banned, Serial!IsActive, Active, Banned, IsActive
  <1>3. ASSUME NEW perm PROVE Serial!Require(u, perm) <=> Holds(u, perm)
    BY DEF Serial!Require, Serial!Can, Serial!EffectivePermissions, Serial!IsActive, Serial!ROLE_DEFAULTS,
           Serial!OwnerPerms, Serial!AdminPerms, Serial!ModeratorPerms, Serial!MemberPerms,
           Holds, Can, EffectivePermissions, IsActive, ROLE_DEFAULTS, OwnerPerms, AdminPerms, ModeratorPerms, MemberPerms
  <1> QED BY <1>1, <1>2, <1>3

LEMMA UsableAgrees ==
  ASSUME Typed
  PROVE  Serial!IsUsable(Links[Link]) <=> IsUsable(invite)
  BY DEF Typed, TypeOK, Serial!IsUsable, Serial!IsExpired, Serial!IsExhausted, Links, IsUsable

\* What no row changes, GroupService does not see change.
LEMMA SameStatuses ==
  ASSUME RowsInOrder, row' = row
  PROVE  Statuses' = Statuses
  <1>1. ASSUME NEW u \in Users PROVE LatestStatus(u)' = LatestStatus(u)
    <2>1. CASE Mine(u) = {}
      <3>1. Mine(u)' = {}
        BY <2>1 DEF Mine
      <3> QED BY <2>1, <3>1 DEF LatestStatus, Mine
    <2>2. CASE Mine(u) # {}
      <3>1. PICK r \in Mine(u) : Latest(u, r)
        BY <2>2 DEF RowsInOrder
      <3>2. r \in RowIds /\ Latest(u, r)'
        BY <3>1 DEF Latest, Mine
      <3>3. LatestStatus(u)' = row'[r].status
        BY <3>2, LatestPrimed
      <3> QED BY <3>1, <3>2, <3>3, LatestOnly
    <2> QED BY <2>1, <2>2
  <1> QED BY <1>1 DEF Statuses

LEMMA SameLists ==
  /\ member' = member => Listed' = Listed
  /\ invite' = invite => Links' = Links
  BY DEF Listed, Links

\* The status of one user's latest row becomes s.
LEMMA OneStatus ==
  ASSUME RowsInOrder, NEW u \in Users, NEW r \in RowIds, NEW s, Latest(u, r)', row'[r].status = s,
         \A v \in Users \ {u} : Mine(v)' = Mine(v),
         \A t \in RowIds \ {r} : row'[t] = row[t],
         row'[r].user = u
  PROVE  Statuses' = [Statuses EXCEPT ![u] = s]
  <1>1. LatestStatus(u)' = s
    BY LatestPrimed
  <1>2. ASSUME NEW v \in Users \ {u} PROVE LatestStatus(v)' = LatestStatus(v)
    <2>1. CASE Mine(v) = {}
      <3>1. Mine(v)' = {}
        BY <2>1
      <3> QED BY <2>1, <3>1 DEF LatestStatus, Mine
    <2>2. CASE Mine(v) # {}
      <3>1. PICK t \in Mine(v) : Latest(v, t)
        BY <2>2 DEF RowsInOrder
      <3>2. t \in RowIds /\ t \in Mine(v)' /\ Latest(v, t)'
        BY <3>1 DEF Latest, Mine
      <3>3. t # r
        BY <3>2 DEF Mine
      <3>4. LatestStatus(v)' = row'[t].status /\ LatestStatus(v) = row[t].status
        BY <3>1, <3>2, LatestOnly, LatestPrimed
      <3> QED BY <3>2, <3>3, <3>4
    <2> QED BY <2>1, <2>2
  <1> QED BY <1>1, <1>2 DEF Statuses

\* The list of members changes as the membership rows do.
LEMMA OneListed ==
  ASSUME NEW f, f \in [Users -> [role : Role, status : Status, muted : BOOLEAN]], NEW u \in Users
  PROVE  /\ \A s \in Status : \A v \in Users : [f EXCEPT ![u].status = s][v] =
              IF v = u THEN [role |-> f[v].role, status |-> s, muted |-> f[v].muted] ELSE f[v]
         /\ \A r \in Role : \A v \in Users : [f EXCEPT ![u].role = r][v] =
              IF v = u THEN [role |-> r, status |-> f[v].status, muted |-> f[v].muted] ELSE f[v]
  OBVIOUS

LEMMA ListedAs ==
  ASSUME Typed, NEW f, DOMAIN f = Users, f = [v \in DOMAIN f |-> f[v]],
         \A v \in Users : f[v] = [role |-> member'[v].role, status |-> member'[v].status, muted |-> FALSE]
  PROVE  Listed' = f
  <1>1. Listed' = [v \in Users |-> [role |-> member'[v].role, status |-> member'[v].status, muted |-> FALSE]]
    BY DEF Listed
  <1> QED BY <1>1

LEMMA ListedType ==
  ASSUME Typed
  PROVE  /\ Listed \in [Users -> [role : Role, status : Status, muted : BOOLEAN]]
         /\ \A u \in Users : Listed[u].role = member[u].role /\ Listed[u].status = member[u].status
                            /\ Listed[u].muted = FALSE
                            /\ Listed[u] = [role |-> member[u].role, status |-> member[u].status, muted |-> FALSE]
  BY DEF Listed, Typed, TypeOK

LEMMA Restatus ==
  ASSUME Typed, NEW u \in Users, NEW s \in Status, member' = [member EXCEPT ![u].status = s]
  PROVE  Listed' = [Listed EXCEPT ![u].status = s]
  <1> DEFINE f == [Listed EXCEPT ![u].status = s]
  <1>1. \A v \in Users : /\ member'[v].role = member[v].role
                          /\ member'[v].status = IF v = u THEN s ELSE member[v].status
    BY DEF Typed, TypeOK
  <1>2. \A v \in Users : f[v] = IF v = u THEN [role |-> Listed[v].role, status |-> s, muted |-> Listed[v].muted] ELSE Listed[v]
    BY ListedType, OneListed
  <1>3. DOMAIN f = Users /\ f = [v \in DOMAIN f |-> f[v]]
    BY ListedType
  <1> HIDE DEF f
  <1>4. ASSUME NEW v \in Users PROVE f[v] = [role |-> member'[v].role, status |-> member'[v].status, muted |-> FALSE]
    <2> DEFINE l == Listed[v]
               n == member'[v]
               m == member[v]
    <2>1. l = [role |-> m.role, status |-> m.status, muted |-> FALSE] /\ l.role = m.role /\ l.status = m.status /\ l.muted = FALSE
      BY ListedType
    <2>2. f[v] = IF v = u THEN [role |-> l.role, status |-> s, muted |-> l.muted] ELSE l
      BY <1>2
    <2>3. n.role = m.role /\ n.status = IF v = u THEN s ELSE m.status
      BY <1>1
    <2> HIDE DEF l, m, n
    <2>4. f[v] = [role |-> n.role, status |-> n.status, muted |-> FALSE]
      BY <2>1, <2>2, <2>3, Zenon
    <2> QED BY <2>4 DEF n
  <1>5. Listed' = f
    BY <1>3, <1>4, ListedAs
  <1> QED BY <1>5 DEF f

LEMMA Reroles ==
  ASSUME Typed, NEW u \in Users, NEW r \in Role, member' = [member EXCEPT ![u].role = r]
  PROVE  Listed' = [Listed EXCEPT ![u].role = r]
  <1> DEFINE f == [Listed EXCEPT ![u].role = r]
  <1>1. \A v \in Users : /\ member'[v].status = member[v].status
                          /\ member'[v].role = IF v = u THEN r ELSE member[v].role
    BY DEF Typed, TypeOK
  <1>2. \A v \in Users : f[v] = IF v = u THEN [role |-> r, status |-> Listed[v].status, muted |-> Listed[v].muted] ELSE Listed[v]
    BY ListedType, OneListed
  <1>3. DOMAIN f = Users /\ f = [v \in DOMAIN f |-> f[v]]
    BY ListedType
  <1> HIDE DEF f
  <1>4. ASSUME NEW v \in Users PROVE f[v] = [role |-> member'[v].role, status |-> member'[v].status, muted |-> FALSE]
    <2> DEFINE l == Listed[v]
               n == member'[v]
               m == member[v]
    <2>1. l = [role |-> m.role, status |-> m.status, muted |-> FALSE] /\ l.role = m.role /\ l.status = m.status /\ l.muted = FALSE
      BY ListedType
    <2>2. f[v] = IF v = u THEN [role |-> r, status |-> l.status, muted |-> l.muted] ELSE l
      BY <1>2
    <2>3. n.status = m.status /\ n.role = IF v = u THEN r ELSE m.role
      BY <1>1
    <2> HIDE DEF l, m, n
    <2>4. f[v] = [role |-> n.role, status |-> n.status, muted |-> FALSE]
      BY <2>1, <2>2, <2>3, Zenon
    <2> QED BY <2>4 DEF n
  <1>5. Listed' = f
    BY <1>3, <1>4, ListedAs
  <1> QED BY <1>5 DEF f

\* A membership saved with the role its row has now changes its status only.
LEMMA Reactivates ==
  ASSUME Typed, NEW w \in Workers, NEW u \in Users, u = req[w].on, snap[w].role = member[u].role, member' = Activated(w)
  PROVE  Listed' = [Listed EXCEPT ![u].status = "active"]
  <1>1. Activated(w) = [member EXCEPT ![u].status = "active"]
    <2>1. \A v \in Users : [member EXCEPT ![u].status = "active"][v] =
            IF v = u THEN [role |-> member[u].role, status |-> "active"] ELSE member[v]
      BY DEF Typed, TypeOK
    <2>2. Activated(w) = [v \in Users |-> IF v = u THEN [role |-> member[u].role, status |-> "active"] ELSE member[v]]
      BY Zenon DEF Activated, Typed, TypeOK
    <2>3. [member EXCEPT ![u].status = "active"] = [v \in Users |-> [member EXCEPT ![u].status = "active"][v]]
      BY DEF Typed, TypeOK
    <2> QED BY <2>1, <2>2, <2>3, Zenon
  <1> QED BY <1>1, Restatus DEF Status

(* What a request about to write knows of the rows.                        *)
Fresh(w) == Typed /\ RowsInOrder /\ UpToDate(w) /\ pc[w] = "save"

LEMMA WriteJoin ==
  ASSUME NEW w \in Workers, Fresh(w), SavePublicJoin(w), NEW u \in Users, u = req[w].on
  PROVE  Serial!JoinPublic(u)
  <1>1. req[w].op = "join" /\ snap[w].visibility = "public" /\ member' = Activated(w)
        /\ UNCHANGED <<visibility, isDeleted, invite, row>>
    BY DEF SavePublicJoin, Saving
  <1>2. /\ ~isDeleted /\ visibility = "public" /\ snap[w].role = member[u].role
        /\ ~Banned(u) /\ ~Active(u)
    BY <1>1 DEF Fresh, UpToDate, Found, Resaves, TargetOK, Self, Joining, Active
  <1>3. Listed' = [Listed EXCEPT ![u].status = "active"]
    BY <1>1, <1>2, Reactivates DEF Fresh
  <1>4. Links' = Links /\ Statuses' = Statuses
    BY <1>1, SameLists, SameStatuses DEF Fresh
  <1> QED BY <1>1, <1>2, <1>3, <1>4, GuardsAgree DEF Serial!JoinPublic, Serial!Routed, Serial!Activate, Listed, Links, Statuses

LEMMA WriteRequest ==
  ASSUME NEW w \in Workers, Fresh(w), SaveJoinRequest(w), NEW u \in Users, u = req[w].on
  PROVE  Serial!RequestToJoin(u)
  <1>1. req[w].op = "join" /\ snap[w].visibility = "private" /\ UNCHANGED <<visibility, isDeleted, member, invite>>
    BY DEF SaveJoinRequest, Saving
  <1>2. /\ ~isDeleted /\ visibility = "private" /\ ~Banned(u) /\ ~Active(u)
    BY <1>1 DEF Fresh, UpToDate, Found, TargetOK, Self, Joining, Active
  <1>3. Statuses' = [Statuses EXCEPT ![u] = "pending"]
    <2>1. CASE \E r \in RowIds : row[r] = [user |-> u, status |-> "pending"]
      <3>1. row' = row
        BY <2>1 DEF SaveJoinRequest
      <3>2. PICK r \in RowIds : row[r] = [user |-> u, status |-> "pending"]
        BY <2>1
      <3>3. Latest(u, r)
        <4>1. \A q \in RowIds : row[q].status = "pending" => Latest(row[q].user, q)
          BY DEF Fresh, RowsInOrder
        <4>2. row[r].status = "pending" /\ row[r].user = u
          BY <3>2
        <4> QED BY <4>1, <4>2
      <3>4. Statuses[u] = "pending"
        BY <3>2, <3>3, LatestOnly DEF Statuses
      <3>5. Statuses' = Statuses
        BY <3>1, SameStatuses DEF Fresh
      <3> QED BY <3>4, <3>5 DEF Statuses
    <2>2. CASE ~ \E r \in RowIds : row[r] = [user |-> u, status |-> "pending"]
      <3>1. PICK r \in RowIds : /\ row[r] = NoRow /\ \A s \in RowIds : row[s] = NoRow => r <= s
                                /\ row' = [row EXCEPT ![r] = [user |-> u, status |-> "pending"]]
        BY <2>2 DEF SaveJoinRequest
      <3>2. Latest(u, r)' /\ \A v \in Users \ {u} : Mine(v)' = Mine(v)
        BY <2>2, <3>1, AddedRow DEF Fresh
      <3>3. row'[r] = [user |-> u, status |-> "pending"] /\ \A t \in RowIds \ {r} : row'[t] = row[t]
        BY <3>1 DEF Fresh, Typed, RequestsOK
      <3>4. row'[r].status = "pending" /\ row'[r].user = u
        BY <3>3
      <3>5. RowsInOrder /\ \A t \in RowIds \ {r} : row'[t] = row[t]
        BY <3>3 DEF Fresh
      <3> HIDE DEF Fresh
      <3> QED BY <3>2, <3>4, <3>5, OneStatus
    <2> QED BY <2>1, <2>2
  <1>4. Links' = Links /\ Listed' = Listed
    BY <1>1, SameLists
  <1> QED BY <1>1, <1>2, <1>3, <1>4, GuardsAgree DEF Serial!RequestToJoin, Serial!Routed, Listed, Links, Statuses

\* The invite's row of the list changes as the invite does.
LEMMA LinkAs ==
  ASSUME NEW i \in [created : BOOLEAN, maxUses : Nat, uses : Nat, revoked : BOOLEAN], invite' = i
  PROVE  Links' = [Links EXCEPT ![Link] = [created |-> i.created, maxUses |-> i.maxUses, uses |-> i.uses,
                                          expiry |-> "never", revoked |-> i.revoked]]
  <1>1. Links' = [l \in {Link} |-> [created |-> i.created, maxUses |-> i.maxUses, uses |-> i.uses,
                                    expiry |-> "never", revoked |-> i.revoked]]
    BY DEF Links
  <1>2. DOMAIN Links = {Link}
    BY DEF Links
  <1> HIDE DEF Links
  <1> QED BY <1>1, <1>2

LEMMA WriteRedeem ==
  ASSUME NEW w \in Workers, Fresh(w), SaveRedeem(w), NEW u \in Users, u = req[w].on
  PROVE  Serial!JoinWithInvite(u, Link)
  <1>1. /\ req[w].op = "redeem" /\ member' = Activated(w) /\ invite' = [invite EXCEPT !.uses = @ + 1]
        /\ UNCHANGED <<visibility, isDeleted, row>>
    BY DEF SaveRedeem, Saving
  <1>2. /\ IsUsable(invite) /\ invite.uses < UsesBound /\ ~Banned(u) /\ ~Active(u) /\ snap[w].role = member[u].role
    BY <1>1 DEF Fresh, UpToDate, Found, Resaves, TargetOK, Self, Joining, Active
  <1>3. Listed' = [Listed EXCEPT ![u].status = "active"]
    BY <1>1, <1>2, Reactivates DEF Fresh
  <1>4. Statuses' = Statuses
    BY <1>1, SameStatuses DEF Fresh
  <1>5. Links' = [Links EXCEPT ![Link].uses = @ + 1]
    <2> DEFINE Rows == [created : BOOLEAN, maxUses : Nat, uses : Nat, expiry : {"never"}, revoked : BOOLEAN]
               i == [created |-> invite.created, maxUses |-> invite.maxUses, uses |-> invite.uses + 1, revoked |-> invite.revoked]
    <2>1. invite \in [created : BOOLEAN, maxUses : Nat, uses : Nat, revoked : BOOLEAN]
      BY DEF Fresh, Typed, TypeOK
    <2>2. invite' = i
      BY <1>1, <2>1
    <2>3. Links' = [Links EXCEPT ![Link] = [created |-> invite.created, maxUses |-> invite.maxUses, uses |-> invite.uses + 1,
                                            expiry |-> "never", revoked |-> invite.revoked]]
      BY <2>1, <2>2, LinkAs
    <2>4. Links \in [{Link} -> Rows] /\ Links[Link] = [created |-> invite.created, maxUses |-> invite.maxUses,
                            uses |-> invite.uses, expiry |-> "never", revoked |-> invite.revoked]
      BY <2>1 DEF Links
    <2>5. [Links EXCEPT ![Link].uses = @ + 1][Link] = [created |-> invite.created, maxUses |-> invite.maxUses, uses |-> invite.uses + 1,
                                            expiry |-> "never", revoked |-> invite.revoked]
      BY <2>1, <2>4
    <2> QED BY <2>3, <2>4, <2>5
  <1>6. Serial!IsUsable(Links[Link]) /\ Links[Link].uses < UsesBound
    BY <1>2, UsableAgrees DEF Fresh, Links
  <1> QED BY <1>1, <1>2, <1>3, <1>4, <1>5, <1>6, GuardsAgree DEF Serial!JoinWithInvite, Serial!Activate, Listed, Links, Statuses

LEMMA RanksAgree ==
  ASSUME NEW a \in Users, NEW u \in Users
  PROVE  Serial!Outranks(Listed[a], Listed[u]) <=> Outranks([role |-> member[a].role], member[u])
  <1>1. Listed[a].role = member[a].role /\ Listed[u].role = member[u].role
    BY DEF Listed
  <1> QED BY <1>1 DEF Serial!Outranks, Serial!ROLE_RANK, Outranks, ROLE_RANK

LEMMA WriteStatus ==
  ASSUME NEW w \in Workers, Fresh(w), SaveStatus(w), NEW a \in Users, NEW u \in Users, a = req[w].by, u = req[w].on
  PROVE  (req[w].op = "leave" /\ Serial!Leave(u)) \/ Serial!Kick(a, u) \/ Serial!Ban(a, u) \/ Serial!Unban(a, u)
  <1> DEFINE left == [leave |-> "left", kick |-> "kicked", ban |-> "banned", unban |-> "left"]
             q == req[w]
  <1>1. PICK op \in DOMAIN left : /\ q.op = op /\ member' = [member EXCEPT ![u].status = left[op]]
                                  /\ UNCHANGED <<visibility, isDeleted, invite, row>>
    BY Zenon DEF SaveStatus, Saving
  <1>2. op \in {"leave", "kick", "ban", "unban"} /\ left[op] \in Status
    BY <1>1 DEF Status
  <1>3. Listed' = [Listed EXCEPT ![u].status = left[op]]
    BY <1>1, <1>2, Restatus DEF Fresh
  <1>4. Links' = Links /\ Statuses' = Statuses
    BY <1>1, SameLists, SameStatuses DEF Fresh
  <1>5. Found(q, snap[w]) /\ TargetOK(w) /\ (op # "leave" => Allowed(q, snap[w]))
    BY <1>1, <1>2 DEF Fresh, UpToDate, Self, Moderation
  <1>6. op # "unban" => ~isDeleted
    BY <1>1, <1>2, <1>5 DEF Found
  <1>7. CASE op = "leave"
    <2>1. Active(u) /\ member[u].role # "owner" /\ left[op] = "left"
      BY <1>1, <1>5, <1>7 DEF TargetOK, Joining, Active
    <2> HIDE DEF left
    <2> QED BY <1>1, <1>3, <1>4, <1>6, <1>7, <2>1, GuardsAgree
            DEF Serial!Leave, Serial!Routed, Serial!SetStatus, Listed, Links, Statuses
  <1>8. ASSUME op \in {"kick", "ban"} PROVE Serial!Kick(a, u) \/ Serial!Ban(a, u)
    <2>1. /\ Active(u) /\ member[u].role # "owner" /\ Outranks([role |-> snap[w].role], member[u])
      BY <1>1, <1>5, <1>8 DEF TargetOK, Joining, Active
    <2>2. Outranks([role |-> member[a].role], member[u]) /\ Holds(a, Needs[op])
      BY <1>1, <1>5, <1>8, <2>1 DEF Allowed, Moderation
    <2>3. CASE op = "kick"
      <3>1. Needs[op] = "kick_members" /\ left[op] = "kicked"
        BY <2>3 DEF Needs
      <3> HIDE DEF left
      <3> QED BY <1>1, <1>3, <1>4, <1>6, <2>1, <2>2, <2>3, <3>1, GuardsAgree, RanksAgree
              DEF Serial!Kick, Serial!Moderate, Serial!Routed, Serial!SetStatus, Listed, Links, Statuses
    <2>4. CASE op = "ban"
      <3>1. Needs[op] = "ban_members" /\ left[op] = "banned"
        BY <2>4 DEF Needs
      <3> HIDE DEF left
      <3> QED BY <1>1, <1>3, <1>4, <1>6, <2>1, <2>2, <2>4, <3>1, GuardsAgree, RanksAgree
              DEF Serial!Ban, Serial!Moderate, Serial!Routed, Serial!SetStatus, Listed, Links, Statuses
    <2> QED BY <1>8, <2>3, <2>4
  <1>9. CASE op = "unban"
    <2>1. Banned(u) /\ Holds(a, "ban_members") /\ left[op] = "left"
      BY <1>1, <1>5, <1>9 DEF TargetOK, Joining, Allowed, Needs
    <2> HIDE DEF left
    <2> QED BY <1>1, <1>3, <1>4, <1>9, <2>1, GuardsAgree
            DEF Serial!Unban, Serial!SetStatus, Listed, Links, Statuses
  <1> QED BY <1>1, <1>2, <1>7, <1>8, <1>9

LEMMA WriteRole ==
  ASSUME NEW w \in Workers, Fresh(w), SaveRole(w), NEW a \in Users, NEW u \in Users, a = req[w].by, u = req[w].on,
         NEW r \in Role, r = req[w].arg
  PROVE  Serial!SetRole(a, u, r)
  <1>1. /\ req[w].op = "set_role" /\ member' = [member EXCEPT ![u].role = r]
        /\ UNCHANGED <<visibility, isDeleted, invite, row>>
    BY DEF SaveRole, Saving
  <1>2. Listed' = [Listed EXCEPT ![u].role = r]
    BY <1>1, Reroles DEF Fresh
  <1>3. Links' = Links /\ Statuses' = Statuses
    BY <1>1, SameLists, SameStatuses DEF Fresh
  <1>4. Found(req[w], snap[w]) /\ TargetOK(w) /\ Allowed(req[w], snap[w])
    BY <1>1 DEF Fresh, UpToDate, Self, Moderation
  <1>5. ~isDeleted /\ r # "owner" /\ Active(u)
        /\ (Outranks([role |-> snap[w].role], member[u]) \/ a = Owner)
    BY <1>1, <1>4 DEF TargetOK, Joining, Active, Found
  <1>6. Holds(a, "manage_roles") /\ snap[w].role = member[a].role
    BY <1>1, <1>4 DEF Allowed, Needs, Moderation
  <1> QED BY <1>1, <1>2, <1>3, <1>5, <1>6, GuardsAgree, RanksAgree
          DEF Serial!SetRole, Serial!Routed, Listed, Links, Statuses

LEMMA WriteInvite ==
  ASSUME NEW w \in Workers, Fresh(w), SaveNewInvite(w), NEW a \in Users, a = req[w].by, NEW n \in Nat, n = req[w].arg
  PROVE  Serial!CreateInvite(a, Link, n, "never")
  <1>1. /\ req[w].op = "create_invite" /\ invite' = [NoInvite EXCEPT !.created = TRUE, !.maxUses = n]
        /\ UNCHANGED <<visibility, isDeleted, member, row>>
    BY DEF SaveNewInvite, Saving
  <1>2. ~isDeleted /\ ~invite.created /\ Holds(a, "manage_invites")
    BY <1>1 DEF Fresh, UpToDate, Found, Allowed, Needs, Self
  <1>3. Listed' = Listed /\ Statuses' = Statuses
    BY <1>1, SameLists, SameStatuses DEF Fresh
  <1>4. Links' = [Links EXCEPT ![Link] = [created |-> TRUE, maxUses |-> IF n < 0 THEN 0 ELSE n, uses |-> 0,
                                          expiry |-> "never", revoked |-> FALSE]]
    <2> DEFINE i == [created |-> TRUE, maxUses |-> n, uses |-> 0, revoked |-> FALSE]
    <2>1. invite' = i /\ i \in [created : BOOLEAN, maxUses : Nat, uses : Nat, revoked : BOOLEAN]
      BY <1>1 DEF NoInvite
    <2>2. Links' = [Links EXCEPT ![Link] = [created |-> i.created, maxUses |-> i.maxUses, uses |-> i.uses,
                                            expiry |-> "never", revoked |-> i.revoked]]
      BY <2>1, LinkAs
    <2>3. (IF n < 0 THEN 0 ELSE n) = n
      OBVIOUS
    <2> QED BY <2>2, <2>3
  <1>5. ~Links[Link].created
    BY <1>2 DEF Links
  <1> QED BY <1>1, <1>2, <1>3, <1>4, <1>5, GuardsAgree DEF Serial!CreateInvite, Serial!Routed, Listed, Links, Statuses

LEMMA Revoked ==
  ASSUME NEW f, f \in [{Link} -> [created : BOOLEAN, maxUses : Nat, uses : Nat, expiry : {"never"}, revoked : BOOLEAN]]
  PROVE  [f EXCEPT ![Link].revoked = TRUE][Link] =
           [created |-> f[Link].created, maxUses |-> f[Link].maxUses, uses |-> f[Link].uses, expiry |-> f[Link].expiry, revoked |-> TRUE]
  OBVIOUS

LEMMA WriteRevoked ==
  ASSUME NEW w \in Workers, Fresh(w), SaveRevoked(w), NEW a \in Users, a = req[w].by
  PROVE  Serial!RevokeInvite(a, Link)
  <1>1. /\ req[w].op = "revoke_invite" /\ invite' = [invite EXCEPT !.revoked = TRUE]
        /\ UNCHANGED <<visibility, isDeleted, member, row>>
    BY DEF SaveRevoked, Saving
  <1>2. invite.created /\ Holds(a, "manage_invites")
    BY <1>1 DEF Fresh, UpToDate, Found, Allowed, Needs, Self
  <1>3. Listed' = Listed /\ Statuses' = Statuses
    BY <1>1, SameLists, SameStatuses DEF Fresh
  <1>4. Links' = [Links EXCEPT ![Link].revoked = TRUE]
    <2> DEFINE Rows == [created : BOOLEAN, maxUses : Nat, uses : Nat, expiry : {"never"}, revoked : BOOLEAN]
               i == [created |-> invite.created, maxUses |-> invite.maxUses, uses |-> invite.uses, revoked |-> TRUE]
    <2>1. invite \in [created : BOOLEAN, maxUses : Nat, uses : Nat, revoked : BOOLEAN]
      BY DEF Fresh, Typed, TypeOK
    <2>2. invite' = i
      BY <1>1, <2>1
    <2>3. Links' = [Links EXCEPT ![Link] = [created |-> i.created, maxUses |-> i.maxUses, uses |-> i.uses,
                                            expiry |-> "never", revoked |-> i.revoked]]
      <3>1. i \in [created : BOOLEAN, maxUses : Nat, uses : Nat, revoked : BOOLEAN]
        BY <2>1
      <3> HIDE DEF i
      <3> QED BY <2>2, <3>1, LinkAs
    <2>4. Links \in [{Link} -> Rows] /\ Links[Link] = [created |-> invite.created, maxUses |-> invite.maxUses,
                            uses |-> invite.uses, expiry |-> "never", revoked |-> invite.revoked]
      BY <2>1 DEF Links
    <2>5. [Links EXCEPT ![Link].revoked = TRUE][Link] =
            [created |-> i.created, maxUses |-> i.maxUses, uses |-> i.uses, expiry |-> "never", revoked |-> i.revoked]
      <3>1. Links[Link].created = i.created /\ Links[Link].maxUses = i.maxUses /\ Links[Link].uses = i.uses
            /\ Links[Link].expiry = "never" /\ i.revoked = TRUE
        BY <2>4
      <3>2. [Links EXCEPT ![Link].revoked = TRUE][Link] =
              [created |-> Links[Link].created, maxUses |-> Links[Link].maxUses, uses |-> Links[Link].uses,
               expiry |-> Links[Link].expiry, revoked |-> TRUE]
        <4> HIDE DEF i
        <4> QED BY <2>4, Revoked
      <3> HIDE DEF i
      <3> QED BY <3>1, <3>2, Zenon
    <2> HIDE DEF i
    <2> QED BY <2>3, <2>4, <2>5
  <1>5. Links[Link].created
    BY <1>2 DEF Links
  <1> QED BY <1>1, <1>2, <1>3, <1>4, <1>5, GuardsAgree DEF Serial!RevokeInvite, Listed, Links, Statuses

\* A decision is about a row that is the latest of its user, and pending.
LEMMA Decision ==
  ASSUME NEW w \in Workers, Fresh(w), req[w].op \in {"approve", "reject"}, NEW u \in Users, u = req[w].on,
         NEW status \in {"approved", "rejected"}, row' = [row EXCEPT ![req[w].arg].status = status]
  PROVE  /\ ~isDeleted /\ Holds(req[w].by, "approve_requests") /\ Statuses[u] = "pending"
         /\ Statuses' = [Statuses EXCEPT ![u] = status]
  <1>0. /\ Place(w) /\ req[w] \in Requests \cup {NoReq} /\ row \in [RowIds -> [user : Users, status : RowStatus]]
        /\ RowsInOrder /\ Found(req[w], snap[w]) /\ Allowed(req[w], snap[w])
    BY DEF Fresh, Typed, RequestsOK, UpToDate, Self
  <1>1. PICK r \in RowIds : r = req[w].arg
    BY <1>0, RequestFacts
  <1>2. row[r] # NoRow /\ row[r].user = u /\ row[r].status = "pending"
    BY <1>0, <1>1 DEF Place, Fresh, Found, Allowed
  <1>3. ~isDeleted /\ Holds(req[w].by, "approve_requests")
    BY <1>0 DEF Found, Allowed, Needs
  <1>4. Latest(u, r)
    BY <1>0, <1>2 DEF RowsInOrder
  <1>5. row' = [row EXCEPT ![r].status = status]
    BY <1>1
  <1>6. \A v \in Users : Mine(v)' = Mine(v)
    BY <1>2, <1>5, DecidedRows DEF Fresh
  <1>7. Latest(u, r)'
    BY <1>4, <1>6 DEF Latest
  <1>8. row'[r].status = status /\ row'[r].user = u /\ \A t \in RowIds \ {r} : row'[t] = row[t]
    BY <1>0, <1>2, <1>5
  <1>9. Statuses' = [Statuses EXCEPT ![u] = status]
    BY <1>0, <1>6, <1>7, <1>8, OneStatus
  <1>10. Statuses[u] = "pending"
    BY <1>2, <1>4, LatestOnly DEF Statuses
  <1> QED BY <1>3, <1>9, <1>10

LEMMA WriteApproval ==
  ASSUME NEW w \in Workers, Fresh(w), SaveApproval(w), NEW a \in Users, NEW u \in Users, a = req[w].by, u = req[w].on
  PROVE  Serial!ApproveRequest(a, u)
  <1>1. /\ req[w].op = "approve" /\ member' = Activated(w)
        /\ row' = [row EXCEPT ![req[w].arg].status = "approved"]
        /\ UNCHANGED <<visibility, isDeleted, invite>>
    BY DEF SaveApproval, Saving
  <1>2. /\ ~isDeleted /\ Holds(a, "approve_requests") /\ Statuses[u] = "pending"
        /\ Statuses' = [Statuses EXCEPT ![u] = "approved"]
    BY <1>1, Decision
  <1>3. snap[w].role = member[u].role
    BY <1>1 DEF Fresh, UpToDate, Resaves
  <1>4. Listed' = [Listed EXCEPT ![u].status = "active"]
    BY <1>1, <1>3, Reactivates DEF Fresh
  <1>5. Links' = Links
    BY <1>1, SameLists
  <1> QED BY <1>1, <1>2, <1>4, <1>5, GuardsAgree
          DEF Serial!ApproveRequest, Serial!Routed, Serial!Activate, Listed, Links, Statuses

LEMMA WriteRejection ==
  ASSUME NEW w \in Workers, Fresh(w), SaveRejection(w), NEW a \in Users, NEW u \in Users, a = req[w].by, u = req[w].on
  PROVE  Serial!RejectRequest(a, u)
  <1>1. /\ req[w].op = "reject" /\ row' = [row EXCEPT ![req[w].arg].status = "rejected"]
        /\ UNCHANGED <<visibility, isDeleted, member, invite>>
    BY DEF SaveRejection, Saving
  <1>2. /\ ~isDeleted /\ Holds(a, "approve_requests") /\ Statuses[u] = "pending"
        /\ Statuses' = [Statuses EXCEPT ![u] = "rejected"]
    BY <1>1, Decision
  <1>3. Links' = Links /\ Listed' = Listed
    BY <1>1, SameLists
  <1> QED BY <1>1, <1>2, <1>3, GuardsAgree DEF Serial!RejectRequest, Serial!Routed, Listed, Links, Statuses

LEMMA WriteGroup ==
  ASSUME NEW w \in Workers, Fresh(w), SaveGroup(w), NEW a \in Users, a = req[w].by, NEW v \in VisibilityInputs, v = req[w].arg
  PROVE  Serial!Update(a, v)
  <1>1. /\ req[w].op = "update" /\ visibility' = v /\ isDeleted' = FALSE
        /\ UNCHANGED <<member, invite, row>>
    BY DEF SaveGroup, Saving
  <1>2. ~isDeleted /\ Holds(a, "manage_group") /\ isDeleted \in BOOLEAN
    BY <1>1 DEF Fresh, UpToDate, Found, Allowed, Needs, Self, Typed, TypeOK
  <1>3. Links' = Links /\ Listed' = Listed /\ Statuses' = Statuses
    BY <1>1, SameLists, SameStatuses DEF Fresh
  <1> QED BY <1>1, <1>2, <1>3, GuardsAgree DEF Serial!Update, Serial!Routed, Listed, Links, Statuses

LEMMA WriteDeleted ==
  ASSUME NEW w \in Workers, Fresh(w), SaveDeleted(w), NEW a \in Users, a = req[w].by
  PROVE  Serial!Delete(a)
  <1>1. req[w].op = "delete" /\ isDeleted' /\ UNCHANGED <<visibility, member, invite, row>> /\ isDeleted' = TRUE
    BY DEF SaveDeleted, Saving
  <1>2. ~isDeleted /\ member[a].role = "owner"
    BY <1>1 DEF Fresh, UpToDate, Found, Allowed, Self
  <1>3. Links' = Links /\ Listed' = Listed /\ Statuses' = Statuses
    BY <1>1, SameLists, SameStatuses DEF Fresh
  <1> QED BY <1>1, <1>2, <1>3, GuardsAgree DEF Serial!Delete, Serial!Routed, Listed, Links, Statuses

-----------------------------------------------------------------------------
\* Every step of a request by itself is a step of GroupService, or none.
LEMMA StepImplements ==
  ASSUME Typed, RowsInOrder, NEW w, Workers = {w}, UpToDate(w), [Next]_vars
  PROVE  [Serial!Next]_Serial!vars
  <1>0. w \in Workers /\ req[w] \in Requests \cup {NoReq}
    BY DEF Typed, RequestsOK
  <1>1. PICK a \in Users, u \in Users : a = req[w].by /\ u = req[w].on
    BY <1>0, RequestFacts
  <1>2. ASSUME UNCHANGED shared PROVE UNCHANGED Serial!vars
    <2>1. UNCHANGED <<visibility, isDeleted, member, invite, row>>
      BY <1>2 DEF shared
    <2>2. Links' = Links /\ Listed' = Listed /\ Statuses' = Statuses
      BY <2>1, SameLists, SameStatuses
    <2> QED BY <2>1, <2>2 DEF Serial!vars, Listed, Links, Statuses
  <1>3. ASSUME Saves(w) PROVE Serial!Next
    <2>0. Fresh(w)
      BY <1>0, <1>3, SaveStep DEF Fresh
    <2>1. CASE SavePublicJoin(w)
      BY <1>0, <1>1, <2>0, <2>1, WriteJoin DEF Serial!Next
    <2>2. CASE SaveJoinRequest(w)
      BY <1>0, <1>1, <2>0, <2>2, WriteRequest DEF Serial!Next
    <2>3. CASE SaveRedeem(w)
      BY <1>0, <1>1, <2>0, <2>3, WriteRedeem DEF Serial!Next
    <2>4. CASE SaveStatus(w)
      BY <1>0, <1>1, <2>0, <2>4, WriteStatus DEF Serial!Next
    <2>5. CASE SaveRole(w)
      <3>1. req[w].op = "set_role" /\ req[w].arg \in RoleInputs /\ req[w].arg \in Role
        BY <1>0, <2>5, RequestFacts DEF SaveRole, Saving
      <3>2. PICK r \in RoleInputs : r = req[w].arg /\ r \in Role
        BY <3>1
      <3>3. Serial!SetRole(a, u, r)
        BY <1>0, <1>1, <2>0, <2>5, <3>2, WriteRole
      <3> QED BY <3>3, Zenon DEF Serial!Next
    <2>6. CASE SaveNewInvite(w)
      <3>1. req[w].op = "create_invite" /\ req[w].arg \in MaxUsesInputs /\ req[w].arg \in Nat
        BY <1>0, <2>6, RequestFacts DEF SaveNewInvite, Saving
      <3>2. PICK n \in MaxUsesInputs : n = req[w].arg /\ n \in Nat
        BY <3>1
      <3>3. Serial!CreateInvite(a, Link, n, "never") /\ "never" \in Serial!Expiry
        BY <1>0, <1>1, <2>0, <2>6, <3>2, WriteInvite DEF Serial!Expiry
      <3> QED BY <3>2, <3>3, Zenon DEF Serial!Next
    <2>7. CASE SaveRevoked(w)
      BY <1>0, <1>1, <2>0, <2>7, WriteRevoked DEF Serial!Next
    <2>8. CASE SaveApproval(w)
      BY <1>0, <1>1, <2>0, <2>8, WriteApproval DEF Serial!Next
    <2>9. CASE SaveRejection(w)
      BY <1>0, <1>1, <2>0, <2>9, WriteRejection DEF Serial!Next
    <2>10. CASE SaveGroup(w)
      <3>1. req[w].arg \in VisibilityInputs
        BY <1>0, <2>10, RequestFacts DEF SaveGroup, Saving
      <3>2. PICK v \in VisibilityInputs : v = req[w].arg
        BY <3>1
      <3> QED BY <1>0, <1>1, <2>0, <2>10, <3>2, WriteGroup DEF Serial!Next
    <2>11. CASE SaveDeleted(w)
      BY <1>0, <1>1, <2>0, <2>11, WriteDeleted DEF Serial!Next
    <2> QED BY <1>3, <2>1, <2>2, <2>3, <2>4, <2>5, <2>6, <2>7, <2>8, <2>9, <2>10, <2>11 DEF Saves
  <1>4. ASSUME NEW q \in Requests, Arrive(w, q) PROVE UNCHANGED shared
    BY <1>4 DEF Arrive, shared
  <1>5. ASSUME Load(w) \/ CheckActor(w) \/ CheckTarget(w) \/ GetRow(w) PROVE UNCHANGED shared
    BY <1>5 DEF Load, CheckActor, CheckTarget, GetRow
  <1>6. UNCHANGED vars => UNCHANGED shared
    BY DEF vars, shared
  <1>7. (\E v \in Workers :
          \/ \E q \in Requests : Arrive(v, q)
          \/ Load(v) \/ CheckActor(v) \/ CheckTarget(v) \/ GetRow(v) \/ Saves(v)) \/ UNCHANGED vars
    BY Zenon DEF Next, Saves
  <1> QED BY <1>2, <1>3, <1>4, <1>5, <1>6, <1>7

LEMMA InitImplements == Init => Serial!Init
  <1> SUFFICES ASSUME Init PROVE Serial!Init
    OBVIOUS
  <1>1. Statuses = [u \in Users |-> "none"]
    <2>1. \A u \in Users : LatestStatus(u) = "none"
      BY InitRows, Zenon DEF LatestStatus, Mine
    <2> QED BY <2>1 DEF Statuses
  <1>2. Links = [i \in {Link} |-> [created |-> FALSE, maxUses |-> 0, uses |-> 0, expiry |-> "never", revoked |-> FALSE]]
    BY DEF Init, NoInvite, Links
  <1>3. Listed = [u \in Users |-> IF u = Owner THEN [role |-> "owner", status |-> "active", muted |-> FALSE]
                                               ELSE [role |-> "member", status |-> "none", muted |-> FALSE]]
    BY DEF Init, NoMember, Listed
  <1>4. [Serial!NoMember EXCEPT !.role = "owner", !.status = "active"] = [role |-> "owner", status |-> "active", muted |-> FALSE]
    <2> DEFINE R == [role : {"owner", "member"}, status : {"active", "none"}, muted : {FALSE}]
    <2>1. ASSUME NEW m \in R PROVE [m EXCEPT !.role = "owner"] \in R /\ [m EXCEPT !.role = "owner"].role = "owner"
      OBVIOUS
    <2>2. ASSUME NEW m \in R PROVE [m EXCEPT !.status = "active"] \in R /\ [m EXCEPT !.status = "active"].status = "active"
                                   /\ [m EXCEPT !.status = "active"].role = m.role
      OBVIOUS
    <2>3. Serial!NoMember \in R
      BY DEF Serial!NoMember
    <2>4. ASSUME NEW m \in R PROVE m = [role |-> m.role, status |-> m.status, muted |-> FALSE]
      OBVIOUS
    <2> DEFINE o == [Serial!NoMember EXCEPT !.role = "owner"]
               p == [o EXCEPT !.status = "active"]
    <2>5. o \in R /\ o.role = "owner"
      BY <2>1, <2>3
    <2> HIDE DEF o
    <2>6. p \in R /\ p.role = "owner" /\ p.status = "active"
      BY <2>2, <2>5
    <2> HIDE DEF p, R
    <2>7. p = [role |-> "owner", status |-> "active", muted |-> FALSE]
      BY <2>4, <2>6
    <2> QED BY <2>7, Zenon DEF o, p
  <1> QED BY <1>1, <1>2, <1>3, <1>4 DEF Init, Serial!Init, Serial!NoMember, Serial!NoInvite, Listed, Links, Statuses

(* One request is served at a time.                                        *)
OneWorker == Cardinality(Workers) = 1

\* One request at a time, read and written step by step, does what GroupService
\* says the whole request does in one step.
THEOREM GroupServiceImplemented == OneWorker => (Spec => ImplementsGroupService)
  <1> SUFFICES ASSUME OneWorker PROVE Spec => ImplementsGroupService
    OBVIOUS
  <1>1. PICK w : Workers = {w}
    BY WorkersAssumption, FS_Singleton DEF OneWorker
  <1>2. Init => Typed /\ RowsInOrder /\ UpToDate(w) /\ Serial!Init
    <2>1. Init => UpToDate(w)
      BY <1>1 DEF Init, UpToDate
    <2> QED BY <2>1, InitTyped, InitRows, InitImplements
  <1>3. Typed /\ RowsInOrder /\ UpToDate(w) /\ [Next]_vars => Typed' /\ RowsInOrder' /\ UpToDate(w)'
    BY <1>1, NextTyped, NextRows, NextFresh
  <1>4. Typed /\ RowsInOrder /\ UpToDate(w) /\ [Next]_vars => [Serial!Next]_Serial!vars
    BY <1>1, StepImplements
  <1> QED BY <1>2, <1>3, <1>4, PTL DEF Spec, ImplementsGroupService, Serial!Spec
=============================================================================
