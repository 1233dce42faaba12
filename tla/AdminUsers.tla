----------------------------- MODULE AdminUsers -----------------------------
(* User administration (app/api/routes/admin.py): admins create users,       *)
(* change roles, deactivate and activate accounts, and an active admin must  *)
(* remain. Within one backend a handler runs from its first query to its     *)
(* commit without an await, so requests interleave only between backends;    *)
(* the row locks of lock_active_admins are there for them.                   *)
(*                                                                           *)
(* PostgreSQL runs at READ COMMITTED. SELECT ... FOR UPDATE finds its rows   *)
(* in a snapshot, waits for those another transaction has locked, and drops  *)
(* those that no longer match once it has them. The audit event each commit  *)
(* carries is left out; that of a creation is a commit of its own.           *)
EXTENDS FiniteSets, Integers, UnitOfWork

CONSTANTS
    Users,      (* accounts, by e-mail                                       *)
    Backends,   (* backend processes, each with one request at a time        *)
    Removable,  (* bound: users who may be demoted or deactivated            *)
    Raisable,   (* bound: users who may be promoted or activated             *)
    None        (* no row, no request                                        *)

VARIABLES
    users,      (* the rows of users, with the name of their role            *)
    requests    (* what each backend is doing                                *)

vars == <<users, requests>>

Roles == {"admin", "operator"}

User == [role : Roles, active : BOOLEAN]

(* A request has been authorized, has loaded its user, waits for the locks   *)
(* on the rows its statement found, or has only its commit before it.        *)
Request == [actor : Users,
            op    : {"create", "role", "deactivate", "activate"},
            user  : Users,
            role  : Roles \cup {None},
            stage : {"authorized", "loaded", "waiting", "checked"},
            copy  : User \cup {None},
            found : SUBSET Users,
            held  : SUBSET Users]

ASSUME UsersAssumption ==
    /\ IsFiniteSet(Users)
    /\ None \notin User \cup Request \cup Roles

TypeOK ==
    /\ users \in [Users -> User \cup {None}]
    /\ requests \in [Backends -> Request \cup {None}]

-----------------------------------------------------------------------------
IsActiveAdmin(row) == row # None /\ row.role = "admin" /\ row.active

ActiveAdmins == {u \in Users : IsActiveAdmin(users[u])}

(* Rows a backend other than b has locked.                                   *)
NothingHeld(b) == {}                                           (* variant *)

HeldByOthers(b) == UNION {requests[c].held :
                             c \in {c \in Backends \ {b} : requests[c] # None}}

Lowers(op, role) == op = "deactivate" \/ (op = "role" /\ role # "admin")

Raises(op, role) == op = "activate" \/ (op = "role" /\ role = "admin")

(* The roles a request may carry: an unknown one is refused (400).           *)
AnyRole(op) == IF op \in {"create", "role"} THEN Roles \cup {None}
               ELSE {None}                                     (* variant *)

RolesFor(op) == IF op \in {"create", "role"} THEN Roles ELSE {None}

(* Whether the handler, by the row it loaded, has to count the active admins. *)
MustCount(r, copy) == Lowers(r.op, r.role) /\ IsActiveAdmin(copy)

(* What the handler assigns.                                                 *)
Assigned(r) ==
    IF r.op = "role" THEN [r.copy EXCEPT !.role = r.role]
                     ELSE [r.copy EXCEPT !.active = r.op = "activate"]

SavedWhole(row, r) == Assigned(r)                              (* variant *)

(* The row after the handler's commit.                                       *)
Saved(row, r) ==
    [role   |-> NetChange(row.role, r.copy.role, Assigned(r).role),
     active |-> NetChange(row.active, r.copy.active, Assigned(r).active)]

(* Enough active admins are left without the one to go.                      *)
Any(locked) == locked # {}                                     (* variant *)

Enough(locked) == Cardinality(locked) > 1

-----------------------------------------------------------------------------
(* The bootstrap has left an active admin.                                   *)
Init ==
    /\ users \in [Users -> User \cup {None}]
    /\ ActiveAdmins # {}
    /\ requests = [b \in Backends |-> None]

(* get_current_user and require_role read the actor's row again for every    *)
(* request. Nobody deactivates the own account.                              *)
Authorize(b, actor, op, u, role) ==
    /\ requests[b] = None
    /\ actor \in ActiveAdmins
    /\ role \in RolesFor(op)
    /\ Lowers(op, role) => u \in Removable
    /\ Raises(op, role) => u \in Raisable
    /\ op = "deactivate" => u # actor
    /\ requests' = [requests EXCEPT ![b] =
                      [actor |-> actor, op |-> op, user |-> u, role |-> role,
                       stage |-> "authorized", copy |-> None,
                       found |-> {}, held |-> {}]]
    /\ UNCHANGED users

InStage(b, stage) == requests[b] # None /\ requests[b].stage = stage

(* The request ends without a commit: not found, refused, or the process     *)
(* dies. Its transaction is rolled back and its locks are released.          *)
End(b) == requests' = [requests EXCEPT ![b] = None]

(* The INSERT of a user whose e-mail is taken violates the unique constraint. *)
Create(b) ==
    /\ InStage(b, "authorized")
    /\ requests[b].op = "create"
    /\ LET r == requests[b]
       IN  users' = IF users[r.user] = None
                    THEN [users EXCEPT ![r.user] = [role |-> r.role,
                                                    active |-> TRUE]]
                    ELSE users
    /\ End(b)

Load(b) ==
    /\ InStage(b, "authorized")
    /\ requests[b].op # "create"
    /\ LET copy == users[requests[b].user]
       IN  IF copy = None
           THEN End(b)
           ELSE requests' = [requests EXCEPT
                   ![b].copy = copy,
                   ![b].stage = IF MustCount(requests[b], copy)
                                THEN "loaded" ELSE "checked"]
    /\ UNCHANGED users

Find(b) ==
    /\ InStage(b, "loaded")
    /\ requests' = [requests EXCEPT ![b].stage = "waiting",
                                    ![b].found = ActiveAdmins]
    /\ UNCHANGED users

(* The locks are granted together: a statement that held some of its rows    *)
(* while it waits for the others would only keep others waiting too.         *)
Lock(b) ==
    /\ InStage(b, "waiting")
    /\ requests[b].found \cap HeldByOthers(b) = {}
    /\ LET locked == requests[b].found \cap ActiveAdmins
       IN  IF Enough(locked)
           THEN requests' = [requests EXCEPT ![b].stage = "checked",
                                             ![b].held = locked]
           ELSE End(b)
    /\ UNCHANGED users

(* The UPDATE waits for a lock on the row it writes, the audit event's       *)
(* foreign key for one on the actor's.                                       *)
Commit(b) ==
    /\ InStage(b, "checked")
    /\ LET r == requests[b]
           u == r.user
       IN  /\ r.actor \notin HeldByOthers(b)
           /\ Assigned(r) # r.copy => u \notin HeldByOthers(b)
           /\ users' = [users EXCEPT ![u] = Saved(users[u], r)]
    /\ End(b)

Crash(b) ==
    /\ requests[b] # None
    /\ End(b)
    /\ UNCHANGED users

Next == \E b \in Backends :
    \/ \E actor, u \in Users, role \in Roles \cup {None},
          op \in {"create", "role", "deactivate", "activate"} :
             Authorize(b, actor, op, u, role)
    \/ Create(b)
    \/ Load(b)
    \/ Find(b)
    \/ Lock(b)
    \/ Commit(b)
    \/ Crash(b)

Spec == Init /\ [][Next]_vars

-----------------------------------------------------------------------------
(* Properties, for any number of backends. The first and the last need that  *)
(* nobody is lowered and raised: a handler that loaded a user who was no     *)
(* active admin takes no lock, and may lower one who has become the last.    *)

Disjoint == Removable \cap Raisable = {}

(* There is an active admin, however many requests demote or deactivate at   *)
(* once (admin.py:45-53, 226-228, 254-256).                                  *)
AdminRemains == Disjoint => ActiveAdmins # {}

(* What a request counted under its locks is still so when it commits.       *)
CountHolds ==
    \A b \in Backends : requests[b] # None =>
        requests[b].held \subseteq ActiveAdmins

(* A committed change has been made, and no other of the same user undone,   *)
(* although it was computed from an older row (admin.py:229, 257, 281).      *)
ChangesLand ==
    [][Disjoint => \A b \in Backends : Commit(b) =>
          LET r   == requests[b]
              row == users[r.user]
          IN  users'[r.user] =
                 IF r.op = "role" THEN [row EXCEPT !.role = r.role]
                 ELSE [row EXCEPT !.active = r.op = "activate"]]_vars

=============================================================================
