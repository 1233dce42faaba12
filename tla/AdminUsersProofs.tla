-------------------------- MODULE AdminUsersProofs --------------------------
(* Theorems about AdminUsers, for any finite set of accounts and any number  *)
(* of backends.                                                              *)
EXTENDS AdminUsers, FiniteSetTheorems, TLAPS

(* The strengthening. Locks are only held past the count; whoever lowers a   *)
(* user has counted another active admin under locks, or the user was none   *)
(* when it was loaded and, since nobody raises those who may be lowered, is  *)
(* none still.                                                               *)

Bounded(r) ==
    /\ Lowers(r.op, r.role) => r.user \in Removable
    /\ Raises(r.op, r.role) => r.user \in Raisable
    /\ r.op \in {"create", "role"} => r.role \in Roles

Loaded(r) == r.stage # "authorized" => /\ r.op # "create"
                                       /\ r.copy \in User
                                       /\ users[r.user] # None

Counted(r) == r.stage = "checked" /\ Lowers(r.op, r.role) =>
                  Enough(r.held) \/ ~IsActiveAdmin(users[r.user])

RequestsInv ==
    \A b \in Backends : requests[b] # None =>
        Bounded(requests[b]) /\ Loaded(requests[b])

CountedInv ==
    Disjoint => \A b \in Backends : requests[b] # None => Counted(requests[b])

Inv == TypeOK /\ CountHolds /\ RequestsInv /\ CountedInv /\ AdminRemains

-----------------------------------------------------------------------------
(* Rows.                                                                     *)

(* A commit writes one column of the row at most, and writes what the        *)
(* handler wants there or leaves the row alone.                              *)
LEMMA SavedCases ==
    ASSUME NEW r \in Request, NEW row \in User,
           r.copy \in User, r.op # "create", r.op = "role" => r.role \in Roles
    PROVE  /\ Saved(row, r) \in User
           /\ \/ Saved(row, r) = row
              \/ /\ Assigned(r) # r.copy
                 /\ Saved(row, r) =
                        IF r.op = "role" THEN [row EXCEPT !.role = r.role]
                        ELSE [row EXCEPT !.active = r.op = "activate"]
<1>1. CASE r.op = "role"
    <2>1. /\ Assigned(r).role = r.role
          /\ Assigned(r).active = r.copy.active
        BY <1>1 DEF Assigned, User
    <2>2. Saved(row, r) = [role   |-> IF r.role = r.copy.role THEN row.role
                                      ELSE r.role,
                           active |-> row.active]
        BY <2>1 DEF Saved, NetChange
    <2>3. CASE r.role = r.copy.role
        BY <2>2, <2>3 DEF User
    <2>4. CASE r.role # r.copy.role
        <3>1. Saved(row, r) = [row EXCEPT !.role = r.role]
            BY <2>2, <2>4 DEF User
        <3> QED
            BY <1>1, <2>1, <2>4, <3>1 DEF User
    <2> QED
        BY <2>3, <2>4
<1>2. CASE r.op # "role"
    <2> DEFINE on == r.op = "activate"
    <2>1. /\ Assigned(r).role = r.copy.role
          /\ Assigned(r).active = on
        BY <1>2 DEF Assigned, User
    <2>2. Saved(row, r) = [role   |-> row.role,
                           active |-> IF on = r.copy.active THEN row.active
                                      ELSE on]
        BY <2>1 DEF Saved, NetChange
    <2>3. on \in BOOLEAN
        OBVIOUS
    <2>4. CASE on = r.copy.active
        BY <2>2, <2>4 DEF User
    <2>5. CASE on # r.copy.active
        <3>1. Saved(row, r) = [row EXCEPT !.active = on]
            BY <2>2, <2>5 DEF User
        <3>2. [row EXCEPT !.active = on] \in User
            BY <2>3 DEF User
        <3> QED
            BY <1>2, <2>1, <2>5, <3>1, <3>2
    <2> QED
        BY <2>4, <2>5
<1> QED
    BY <1>1, <1>2

(* A commit makes a user an active admin, or stops one being it, only if it  *)
(* raises, or lowers.                                                        *)
LEMMA SavedDirection ==
    ASSUME NEW r \in Request, NEW row \in User,
           r.copy \in User, r.op # "create", r.op = "role" => r.role \in Roles
    PROVE  /\ IsActiveAdmin(row) /\ ~Lowers(r.op, r.role)
                  => IsActiveAdmin(Saved(row, r))
           /\ ~IsActiveAdmin(row) /\ ~Raises(r.op, r.role)
                  => ~IsActiveAdmin(Saved(row, r))
<1>1. r.op \in {"role", "deactivate", "activate"}
    BY DEF Request
<1>2. CASE Saved(row, r) = row
    BY <1>2
<1>3. CASE r.op = "role" /\ Saved(row, r) = [row EXCEPT !.role = r.role]
    BY <1>3, UsersAssumption
    DEF UsersAssumption, IsActiveAdmin, Lowers, Raises, User, Roles
<1>4. CASE /\ r.op # "role"
           /\ Saved(row, r) = [row EXCEPT !.active = r.op = "activate"]
    BY <1>1, <1>4, UsersAssumption
    DEF UsersAssumption, IsActiveAdmin, Lowers, Raises, User
<1> QED
    BY <1>2, <1>3, <1>4, SavedCases

(* Of enough admins one is left when any user goes.                          *)
LEMMA EnoughLeaves ==
    ASSUME NEW locked \in SUBSET Users, NEW u, Enough(locked)
    PROVE  \E v \in locked : v # u
<1>1. IsFiniteSet(locked)
    BY FS_Subset, UsersAssumption DEF UsersAssumption
<1>2. SUFFICES ASSUME locked \subseteq {u}
               PROVE  FALSE
    OBVIOUS
<1>3. IsFiniteSet({u}) /\ Cardinality({u}) = 1
    BY FS_Singleton
<1>4. Cardinality(locked) <= 1
    BY <1>2, <1>3, FS_Subset
<1>5. Cardinality(locked) \in Nat
    BY <1>1, FS_CardinalityType
<1> QED
    BY <1>4, <1>5 DEF Enough

-----------------------------------------------------------------------------
(* The steps that write no row, and those that do.                           *)

LEMMA InitInv ==
    Init => Inv
BY DEF Init, Inv, TypeOK, CountHolds, RequestsInv, CountedInv, AdminRemains

(* A step that keeps users and leaves b with no request, or with a good one, *)
(* keeps the invariant.                                                      *)
LEMMA OneRequestStep ==
    ASSUME Inv, NEW b \in Backends, NEW r \in Request \cup {None},
           users' = users, requests' = [requests EXCEPT ![b] = r],
           r # None => /\ Bounded(r) /\ Loaded(r)
                       /\ r.held \subseteq ActiveAdmins
                       /\ Disjoint => Counted(r)
    PROVE  Inv'
<1>1. TypeOK'
    BY DEF Inv, TypeOK
<1>2. \A c \in Backends : requests'[c] = IF c = b THEN r ELSE requests[c]
    BY DEF Inv, TypeOK
<1>3. ActiveAdmins' = ActiveAdmins
    BY DEF ActiveAdmins
<1>4. CountHolds'
    BY <1>2, <1>3 DEF Inv, CountHolds
<1>5. RequestsInv'
    BY <1>2 DEF Inv, RequestsInv, Bounded, Loaded
<1>6. CountedInv'
    BY <1>2 DEF Inv, CountedInv, Counted, Disjoint
<1>7. AdminRemains'
    BY <1>3 DEF Inv, AdminRemains, Disjoint
<1> QED
    BY <1>1, <1>4, <1>5, <1>6, <1>7 DEF Inv

LEMMA AuthorizeStep ==
    ASSUME Inv, NEW b \in Backends, NEW actor \in Users, NEW u \in Users,
           NEW op \in {"create", "role", "deactivate", "activate"},
           NEW role \in Roles \cup {None}, Authorize(b, actor, op, u, role)
    PROVE  Inv'
<1> DEFINE r == [actor |-> actor, op |-> op, user |-> u, role |-> role,
                 stage |-> "authorized", copy |-> None,
                 found |-> {}, held |-> {}]
<1>1. r \in Request
    BY DEF Request
<1>2. Bounded(r) /\ Loaded(r) /\ Counted(r) /\ r.held \subseteq ActiveAdmins
    BY DEF Authorize, RolesFor, Bounded, Loaded, Counted
<1>3. users' = users /\ requests' = [requests EXCEPT ![b] = r]
    BY DEF Authorize
<1> HIDE DEF r
<1> QED
    BY <1>1, <1>2, <1>3, OneRequestStep

LEMMA EndStep ==
    ASSUME Inv, NEW b \in Backends, End(b), users' = users
    PROVE  Inv'
BY OneRequestStep DEF End

LEMMA LoadStep ==
    ASSUME Inv, NEW b \in Backends, Load(b)
    PROVE  Inv'
<1> DEFINE old == requests[b]
           copy == users[old.user]
           stage == IF MustCount(old, copy) THEN "loaded" ELSE "checked"
           r == [old EXCEPT !.copy = copy, !.stage = stage]
<1>1. old \in Request /\ old # None /\ old.op # "create"
    BY DEF Inv, TypeOK, Load, InStage
<1>2. CASE copy = None
    BY <1>2, EndStep DEF Load
<1>3. CASE copy # None
    <2>1. copy \in User
        BY <1>1, <1>3 DEF Inv, TypeOK, Request
    <2>2. /\ r \in Request /\ r.user = old.user /\ r.op = old.op
          /\ r.role = old.role /\ r.held = old.held /\ r.copy = copy
          /\ r.stage = stage
        BY <1>1, <2>1 DEF Request
    <2>3. users' = users /\ requests' = [requests EXCEPT ![b] = r]
        BY <1>3 DEF Load
    <2>4. Bounded(r) /\ Loaded(r) /\ r.held \subseteq ActiveAdmins
        BY <1>1, <1>3, <2>1, <2>2
        DEF Inv, RequestsInv, CountHolds, Bounded, Loaded
    <2>5. Counted(r)
        BY <2>2 DEF Counted, MustCount
    <2> HIDE DEF r
    <2> QED
        BY <2>2, <2>3, <2>4, <2>5, OneRequestStep
<1> QED
    BY <1>2, <1>3

LEMMA FindStep ==
    ASSUME Inv, NEW b \in Backends, Find(b)
    PROVE  Inv'
<1> DEFINE old == requests[b]
           r == [old EXCEPT !.stage = "waiting", !.found = ActiveAdmins]
<1>1. old \in Request /\ old # None /\ old.stage = "loaded"
    BY DEF Inv, TypeOK, Find, InStage
<1>2. /\ r \in Request /\ r.user = old.user /\ r.op = old.op
      /\ r.role = old.role /\ r.held = old.held /\ r.copy = old.copy
      /\ r.stage = "waiting"
    BY <1>1 DEF Request, ActiveAdmins
<1>3. users' = users /\ requests' = [requests EXCEPT ![b] = r]
    BY DEF Find
<1>4. Bounded(r) /\ Loaded(r) /\ Counted(r) /\ r.held \subseteq ActiveAdmins
    BY <1>1, <1>2 DEF Inv, RequestsInv, CountHolds, Bounded, Loaded, Counted
<1> HIDE DEF r
<1> QED
    BY <1>2, <1>3, <1>4, OneRequestStep

LEMMA LockStep ==
    ASSUME Inv, NEW b \in Backends, Lock(b)
    PROVE  Inv'
<1> DEFINE old == requests[b]
           locked == old.found \cap ActiveAdmins
           r == [old EXCEPT !.stage = "checked", !.held = locked]
<1>1. old \in Request /\ old # None /\ old.stage = "waiting"
    BY DEF Inv, TypeOK, Lock, InStage
<1>2. CASE ~Enough(locked)
    BY <1>2, EndStep DEF Lock
<1>3. CASE Enough(locked)
    <2>1. /\ r \in Request /\ r.user = old.user /\ r.op = old.op
          /\ r.role = old.role /\ r.held = locked /\ r.copy = old.copy
          /\ r.stage = "checked"
        BY <1>1 DEF Request
    <2>2. users' = users /\ requests' = [requests EXCEPT ![b] = r]
        BY <1>3 DEF Lock
    <2>3. /\ Bounded(r) /\ Loaded(r) /\ Counted(r)
          /\ r.held \subseteq ActiveAdmins
        BY <1>1, <1>3, <2>1 DEF Inv, RequestsInv, Bounded, Loaded, Counted
    <2> HIDE DEF r
    <2> QED
        BY <2>1, <2>2, <2>3, OneRequestStep
<1> QED
    BY <1>2, <1>3

(* A step that ends the request of b and writes the row of u keeps the       *)
(* invariant if it lowers nobody another request has locked, raises nobody   *)
(* another may be lowering, and leaves an active admin.                      *)
LEMMA WriteStep ==
    ASSUME Inv, NEW b \in Backends, NEW u \in Users, NEW row \in User,
           users' = [users EXCEPT ![u] = row], End(b),
           IsActiveAdmin(users[u]) =>
               IsActiveAdmin(row) \/ u \notin HeldByOthers(b),
           Disjoint /\ IsActiveAdmin(row) =>
               IsActiveAdmin(users[u]) \/ users[u] = None \/ u \in Raisable,
           Disjoint /\ IsActiveAdmin(users[u]) =>
               IsActiveAdmin(row) \/ \E v \in ActiveAdmins : v # u
    PROVE  Inv'
<1>1. \A v \in Users : users'[v] = IF v = u THEN row ELSE users[v]
    BY DEF Inv, TypeOK
<1>2. \A c \in Backends : requests'[c] = IF c = b THEN None ELSE requests[c]
    BY DEF Inv, TypeOK, End
<1>3. row # None
    BY UsersAssumption DEF UsersAssumption
<1>4. TypeOK'
    BY DEF Inv, TypeOK, End
<1>5. \A v \in Users \ {u} : v \in ActiveAdmins <=> v \in ActiveAdmins'
    BY <1>1 DEF ActiveAdmins
<1>6. u \in ActiveAdmins' <=> IsActiveAdmin(row)
    BY <1>1 DEF ActiveAdmins
<1>7. u \in ActiveAdmins <=> IsActiveAdmin(users[u])
    BY DEF ActiveAdmins
<1>8. ASSUME NEW c \in Backends, requests'[c] # None
      PROVE  /\ c # b /\ requests'[c] = requests[c] /\ requests[c] # None
             /\ requests[c] \in Request
             /\ requests[c].held \subseteq HeldByOthers(b)
    <2>1. c # b /\ requests'[c] = requests[c] /\ requests[c] # None
        BY <1>2, <1>8
    <2> QED
        BY <2>1 DEF Inv, TypeOK, HeldByOthers
<1>9. CountHolds'
    <2> SUFFICES ASSUME NEW c \in Backends, requests'[c] # None,
                        NEW v \in requests'[c].held
                 PROVE  v \in ActiveAdmins'
        BY DEF CountHolds
    <2>1. v \in ActiveAdmins /\ v \in HeldByOthers(b)
        BY <1>8 DEF Inv, CountHolds
    <2>2. v \in Users
        BY <2>1 DEF ActiveAdmins
    <2> QED
        BY <1>5, <1>6, <1>7, <2>1, <2>2
<1>10. RequestsInv'
    <2> SUFFICES ASSUME NEW c \in Backends, requests'[c] # None
                 PROVE  (Bounded(requests[c]) /\ Loaded(requests[c]))'
        BY DEF RequestsInv
    <2>1. Bounded(requests[c]) /\ Loaded(requests[c])
        BY <1>8 DEF Inv, RequestsInv
    <2>2. requests[c].user \in Users
        BY <1>8 DEF Request
    <2> QED
        BY <1>1, <1>3, <1>8, <2>1, <2>2 DEF Bounded, Loaded
<1>11. CountedInv'
    <2> SUFFICES ASSUME Disjoint, NEW c \in Backends, requests'[c] # None,
                        requests[c].stage = "checked",
                        Lowers(requests[c].op, requests[c].role),
                        ~Enough(requests[c].held)
                 PROVE  ~IsActiveAdmin(users'[requests[c].user])
        BY <1>8 DEF CountedInv, Counted, Disjoint
    <2> DEFINE v == requests[c].user
    <2>1. /\ Bounded(requests[c]) /\ Loaded(requests[c]) /\ Counted(requests[c])
          /\ v \in Users
        BY <1>8 DEF Inv, RequestsInv, CountedInv, Request
    <2>2. ~IsActiveAdmin(users[v]) /\ users[v] # None /\ v \notin Raisable
        BY <2>1 DEF Counted, Loaded, Bounded, Disjoint
    <2> QED
        BY <1>1, <2>1, <2>2
<1>12. AdminRemains'
    <2> SUFFICES ASSUME Disjoint
                 PROVE  ActiveAdmins' # {}
        BY DEF AdminRemains, Disjoint
    <2>1. PICK v \in ActiveAdmins : TRUE
        BY DEF Inv, AdminRemains
    <2>2. v \in Users
        BY <2>1 DEF ActiveAdmins
    <2>3. CASE v # u
        BY <1>5, <2>1, <2>2, <2>3
    <2>4. CASE v = u
        <3>1. CASE IsActiveAdmin(row)
            BY <1>6, <3>1
        <3>2. CASE ~IsActiveAdmin(row)
            <4>1. PICK x \in ActiveAdmins : x # u
                BY <1>7, <2>1, <2>4, <3>2
            <4>2. x \in Users
                BY DEF ActiveAdmins
            <4> QED
                BY <1>5, <4>1, <4>2
        <3> QED
            BY <3>1, <3>2
    <2> QED
        BY <2>3, <2>4
<1> QED
    BY <1>4, <1>9, <1>10, <1>11, <1>12 DEF Inv

LEMMA CreateStep ==
    ASSUME Inv, NEW b \in Backends, Create(b)
    PROVE  Inv'
<1> DEFINE r == requests[b]
           new == [role |-> r.role, active |-> TRUE]
<1>1. r \in Request /\ r # None /\ End(b)
    BY DEF Inv, TypeOK, Create, InStage
<1>2. CASE users[r.user] # None
    BY <1>1, <1>2, EndStep DEF Create
<1>3. CASE users[r.user] = None
    <2>1. users' = [users EXCEPT ![r.user] = new]
        BY <1>3 DEF Create
    <2>2. new \in User /\ r.user \in Users
        <3>1. r.role \in Roles
            BY <1>1 DEF Inv, RequestsInv, Bounded, Create
        <3> QED
            BY <1>1, <3>1 DEF User, Request
    <2>3. ~IsActiveAdmin(users[r.user])
        BY <1>3 DEF IsActiveAdmin
    <2> HIDE DEF r, new
    <2> QED
        BY <1>1, <1>3, <2>1, <2>2, <2>3, WriteStep
<1> QED
    BY <1>2, <1>3

LEMMA CommitStep ==
    ASSUME Inv, NEW b \in Backends, Commit(b)
    PROVE  Inv'
<1> DEFINE r == requests[b]
           u == r.user
           row == users[u]
           saved == Saved(row, r)
<1>1. /\ r \in Request /\ r # None /\ r.stage = "checked" /\ End(b)
      /\ users' = [users EXCEPT ![u] = saved]
      /\ Assigned(r) # r.copy => u \notin HeldByOthers(b)
    BY DEF Inv, TypeOK, Commit, InStage
<1>2. Bounded(r) /\ Loaded(r) /\ r.held \subseteq ActiveAdmins
    BY <1>1 DEF Inv, RequestsInv, CountHolds
<1>3. /\ r.op # "create" /\ r.copy \in User /\ u \in Users /\ row \in User
      /\ r.op = "role" => r.role \in Roles
    BY <1>1, <1>2 DEF Bounded, Loaded, Request, Inv, TypeOK
<1>4. saved \in User /\ (saved = row \/ Assigned(r) # r.copy)
    BY <1>1, <1>3, SavedCases
<1>5. /\ IsActiveAdmin(row) /\ ~Lowers(r.op, r.role) => IsActiveAdmin(saved)
      /\ ~IsActiveAdmin(row) /\ ~Raises(r.op, r.role) => ~IsActiveAdmin(saved)
    BY <1>1, <1>3, SavedDirection
<1>6. IsActiveAdmin(row) => IsActiveAdmin(saved) \/ u \notin HeldByOthers(b)
    BY <1>1, <1>4
<1>7. IsActiveAdmin(saved) => IsActiveAdmin(row) \/ u \in Raisable
    BY <1>2, <1>5 DEF Bounded
<1>8. ASSUME Disjoint, IsActiveAdmin(row), ~IsActiveAdmin(saved)
      PROVE  \E v \in ActiveAdmins : v # u
    <2>1. Enough(r.held)
        BY <1>1, <1>5, <1>8 DEF Inv, CountedInv, Counted
    <2>2. r.held \in SUBSET Users
        BY <1>1 DEF Request
    <2> QED
        BY <1>2, <2>1, <2>2, EnoughLeaves
<1> HIDE DEF r, u, row, saved
<1>9. row = users[u]
    BY DEF row
<1> QED
    BY <1>1, <1>3, <1>4, <1>6, <1>7, <1>8, <1>9, WriteStep

LEMMA NextInv ==
    Inv /\ [Next]_vars => Inv'
<1> SUFFICES ASSUME Inv, [Next]_vars
             PROVE  Inv'
    OBVIOUS
<1>1. CASE UNCHANGED vars
    BY <1>1 DEF vars, Inv, TypeOK, CountHolds, RequestsInv, CountedInv,
        AdminRemains, Bounded, Loaded, Counted, ActiveAdmins, Disjoint
<1>2. ASSUME NEW b \in Backends, Crash(b)
      PROVE  Inv'
    BY <1>2, EndStep DEF Crash
<1> QED
    BY <1>1, <1>2, AuthorizeStep, CreateStep, LoadStep, FindStep, LockStep,
       CommitStep DEF Next

THEOREM InvAlways ==
    Spec => []Inv
<1>1. Inv /\ [Next]_vars => Inv'
    BY NextInv
<1> QED
    BY <1>1, InitInv, PTL DEF Spec

-----------------------------------------------------------------------------
(* The rows of users and the requests keep their types.                      *)
THEOREM TypeCorrect ==
    Spec => []TypeOK
<1>1. Inv => TypeOK
    BY DEF Inv
<1> QED
    BY <1>1, InvAlways, PTL

(* An active admin remains, for any number of backends that demote and       *)
(* deactivate at once, if nobody is raised who may be lowered                *)
(* (admin.py:226-228, 254-256).                                              *)
THEOREM AdminAlwaysRemains ==
    Spec => []AdminRemains
<1>1. Inv => AdminRemains
    BY DEF Inv
<1> QED
    BY <1>1, InvAlways, PTL

(* What lock_active_admins counted is true until the request has committed   *)
(* (admin.py:45-53).                                                         *)
THEOREM CountAlwaysHolds ==
    Spec => []CountHolds
<1>1. Inv => CountHolds
    BY DEF Inv
<1> QED
    BY <1>1, InvAlways, PTL

-----------------------------------------------------------------------------
(* How far the row may drift from the copy a request took of it: downwards   *)
(* only, or upwards only, if nobody lowers and raises the user.              *)

Drifted(r) == r.stage # "authorized" =>
    LET row == users[r.user]
    IN  /\ r.user \notin Raisable => /\ row.role \in {r.copy.role, "operator"}
                                     /\ row.active => r.copy.active
        /\ r.user \notin Removable => /\ row.role \in {r.copy.role, "admin"}
                                      /\ r.copy.active => row.active

Drift == \A b \in Backends : requests[b] # None => Drifted(requests[b])

(* One commit moves a row in the direction of its request.                   *)
LEMMA SavedDrift ==
    ASSUME NEW r \in Request, NEW row \in User,
           r.copy \in User, r.op # "create", r.op = "role" => r.role \in Roles
    PROVE  LET saved == Saved(row, r)
           IN  /\ ~Raises(r.op, r.role) => /\ saved.role \in {row.role, "operator"}
                                           /\ saved.active => row.active
               /\ ~Lowers(r.op, r.role) => /\ saved.role \in {row.role, "admin"}
                                           /\ row.active => saved.active
<1>1. r.op \in {"role", "deactivate", "activate"}
    BY DEF Request
<1>2. CASE Saved(row, r) = row
    BY <1>2
<1>3. CASE r.op = "role" /\ Saved(row, r) = [row EXCEPT !.role = r.role]
    BY <1>3 DEF Lowers, Raises, User, Roles
<1>4. CASE /\ r.op # "role"
           /\ Saved(row, r) = [row EXCEPT !.active = r.op = "activate"]
    BY <1>1, <1>4 DEF Lowers, Raises, User
<1> QED
    BY <1>2, <1>3, <1>4, SavedCases

LEMMA DriftStep ==
    Inv /\ Drift /\ [Next]_vars => Drift'
<1> SUFFICES ASSUME Inv, Drift, [Next]_vars,
                    NEW c \in Backends, requests'[c] # None,
                    requests'[c].stage # "authorized"
             PROVE  Drifted(requests[c])'
    BY DEF Drift, Drifted
<1> DEFINE old == requests[c]
<1>1. ASSUME NEW b \in Backends, UNCHANGED users,
             Load(b) \/ Find(b) \/ Lock(b) \/ End(b)
      PROVE  Drifted(requests[c])'
    <2>1. CASE c = b /\ Load(b)
        <3>1. /\ old \in Request
              /\ requests'[c].copy = users[old.user]
              /\ requests'[c].user = old.user
            BY <2>1 DEF Inv, TypeOK, Load, InStage, End, Request
        <3> QED
            BY <1>1, <3>1 DEF Drifted
    <2>2. CASE ~(c = b /\ Load(b))
        <3>1. /\ old # None /\ old.stage # "authorized"
              /\ requests'[c].copy = old.copy
              /\ requests'[c].user = old.user
            <4>1. CASE c # b
                BY <1>1, <4>1 DEF Inv, TypeOK, Load, Find, Lock, End
            <4>2. CASE c = b
                BY <1>1, <2>2, <4>2
                DEF Inv, TypeOK, Find, Lock, End, InStage, Request
            <4> QED
                BY <4>1, <4>2
        <3> QED
            BY <1>1, <3>1 DEF Drift, Drifted
    <2> QED
        BY <2>1, <2>2
<1>2. ASSUME NEW b \in Backends, NEW actor \in Users, NEW u \in Users,
             NEW op \in {"create", "role", "deactivate", "activate"},
             NEW role \in Roles \cup {None}, Authorize(b, actor, op, u, role)
      PROVE  Drifted(requests[c])'
    <2>1. c # b
        BY <1>2 DEF Authorize, Inv, TypeOK
    <2>2. requests'[c] = old
        BY <1>2, <2>1 DEF Authorize, Inv, TypeOK
    <2> QED
        BY <1>2, <2>2 DEF Authorize, Drift, Drifted
<1>3. ASSUME NEW b \in Backends, End(b)
      PROVE  /\ c # b /\ requests'[c] = old
             /\ old \in Request /\ old # None /\ users[old.user] # None
             /\ users[old.user] \in User /\ old.copy \in User
             /\ old.user \in Users
    <2>1. c # b /\ requests'[c] = old
        BY <1>3 DEF End, Inv, TypeOK
    <2>2. old \in Request /\ old # None /\ Loaded(old)
        BY <2>1 DEF Inv, TypeOK, RequestsInv
    <2> QED
        BY <2>1, <2>2 DEF Loaded, Inv, TypeOK, Request
<1>4. ASSUME NEW b \in Backends, Create(b)
      PROVE  Drifted(requests[c])'
    <2>1. End(b)
        BY <1>4 DEF Create
    <2>2. users'[old.user] = users[old.user]
        BY <1>3, <1>4, <2>1 DEF Create, Inv, TypeOK
    <2> QED
        BY <1>3, <2>1, <2>2 DEF Drift, Drifted
<1>5. ASSUME NEW b \in Backends, Commit(b)
      PROVE  Drifted(requests[c])'
    <2> DEFINE r == requests[b]
               u == r.user
    <2>1. /\ End(b) /\ r \in Request /\ r # None /\ r.stage = "checked"
          /\ users' = [users EXCEPT ![u] = Saved(users[u], r)]
        BY <1>5 DEF Inv, TypeOK, Commit, InStage
    <2>2. Bounded(r) /\ Loaded(r)
        BY <2>1 DEF Inv, RequestsInv
    <2>3. /\ u \in Users /\ users[u] \in User /\ r.copy \in User
          /\ r.op # "create" /\ (r.op = "role" => r.role \in Roles)
        BY <2>1, <2>2 DEF Bounded, Loaded, Inv, TypeOK, Request
    <2>4. CASE old.user # u
        <3>1. users'[old.user] = users[old.user]
            BY <1>3, <2>1, <2>4 DEF Inv, TypeOK
        <3> QED
            BY <1>3, <2>1, <3>1 DEF Drift, Drifted
    <2>5. CASE old.user = u
        <3> DEFINE saved == Saved(users[u], r)
        <3>1. users'[u] = saved
            BY <2>1, <2>3 DEF Inv, TypeOK
        <3>2. /\ u \notin Raisable => /\ saved.role \in {users[u].role, "operator"}
                                      /\ saved.active => users[u].active
              /\ u \notin Removable => /\ saved.role \in {users[u].role, "admin"}
                                       /\ users[u].active => saved.active
            BY <2>1, <2>2, <2>3, SavedDrift DEF Bounded
        <3>3. Drifted(old) /\ old.stage # "authorized"
            BY <1>3, <2>1 DEF Drift
        <3> HIDE DEF saved
        <3> QED
            BY <1>3, <2>1, <2>5, <3>1, <3>2, <3>3 DEF Drifted
    <2> QED
        BY <2>4, <2>5
<1>6. CASE UNCHANGED vars
    BY <1>6 DEF vars, Drift, Drifted
<1>7. ASSUME NEW b \in Backends, Load(b) \/ Find(b) \/ Lock(b) \/ Crash(b)
      PROVE  Drifted(requests[c])'
    BY <1>1, <1>7 DEF Load, Find, Lock, Crash
<1> QED
    BY <1>2, <1>4, <1>5, <1>6, <1>7 DEF Next

(* An accepted change is made and undoes no other of the same user, for any  *)
(* number of backends (admin.py:229, 257, 281).                              *)
THEOREM ChangesAlwaysLand ==
    Spec => ChangesLand
<1> DEFINE Lands(b) ==
        LET r   == requests[b]
            row == users[r.user]
        IN  users'[r.user] = IF r.op = "role" THEN [row EXCEPT !.role = r.role]
                             ELSE [row EXCEPT !.active = r.op = "activate"]
<1>1. ASSUME Inv, Drift, Disjoint, NEW b \in Backends, Commit(b)
      PROVE  Lands(b)
    <2> DEFINE r == requests[b]
               u == r.user
               row == users[u]
    <2>1. /\ r \in Request /\ r # None /\ r.stage = "checked"
          /\ users' = [users EXCEPT ![u] = Saved(row, r)]
        BY <1>1 DEF Inv, TypeOK, Commit, InStage
    <2>2. Bounded(r) /\ Loaded(r) /\ Drifted(r)
        BY <1>1, <2>1 DEF Inv, RequestsInv, Drift
    <2>3. /\ u \in Users /\ row \in User /\ r.copy \in User
          /\ r.op \in {"role", "deactivate", "activate"}
          /\ r.op = "role" => r.role \in Roles
        BY <1>1, <2>1, <2>2 DEF Bounded, Loaded, Inv, TypeOK, Request
    <2>4. users'[u] = Saved(row, r)
        BY <1>1, <2>1, <2>3 DEF Inv, TypeOK
    <2>5. /\ u \notin Raisable \/ u \notin Removable
          /\ Lowers(r.op, r.role) => u \in Removable
          /\ Raises(r.op, r.role) => u \in Raisable
        BY <1>1, <2>2 DEF Disjoint, Bounded
    <2>6. CASE r.op = "role"
        <3>1. Saved(row, r) = [role   |-> IF r.role = r.copy.role THEN row.role
                                          ELSE r.role,
                               active |-> row.active]
            BY <2>3, <2>6 DEF Saved, NetChange, Assigned, User
        <3>2. r.role = r.copy.role => row.role = r.role
            BY <2>1, <2>2, <2>3, <2>5, <2>6
            DEF Drifted, Lowers, Raises, Roles
        <3>3. Saved(row, r) = [row EXCEPT !.role = r.role]
            BY <2>3, <3>1, <3>2 DEF User
        <3> QED
            BY <2>4, <2>6, <3>3
    <2>7. CASE r.op # "role"
        <3> DEFINE on == r.op = "activate"
        <3>1. Saved(row, r) = [role   |-> row.role,
                               active |-> IF on = r.copy.active THEN row.active
                                          ELSE on]
            BY <2>3, <2>7 DEF Saved, NetChange, Assigned, User
        <3>2. on = r.copy.active => row.active = on
            BY <2>1, <2>2, <2>3, <2>5, <2>7 DEF Drifted, Lowers, Raises, User
        <3>3. Saved(row, r) = [row EXCEPT !.active = on]
            BY <2>3, <3>1, <3>2 DEF User
        <3> QED
            BY <2>4, <2>7, <3>3
    <2> QED
        BY <2>6, <2>7
<1>2. Init => Drift
    BY DEF Init, Drift
<1>3. Inv /\ Drift /\ [Next]_vars => Drift'
    BY DriftStep
<1>4. Inv /\ Drift /\ [Next]_vars =>
          [Disjoint => \A b \in Backends : Commit(b) => Lands(b)]_vars
    BY <1>1
<1> QED
    BY <1>2, <1>3, <1>4, InvAlways, PTL DEF Spec, ChangesLand

-----------------------------------------------------------------------------
(* One backend, whoever may be lowered and raised: the copy of the request   *)
(* in progress is the row, so a request that lowers an active admin has      *)
(* counted another.                                                          *)

Alone(b) ==
    requests[b] # None =>
        /\ requests[b].stage # "authorized" =>
              requests[b].copy = users[requests[b].user]
        /\ Counted(requests[b])

LEMMA AloneStep ==
    ASSUME NEW b \in Backends, Backends = {b}, Inv, Alone(b), [Next]_vars
    PROVE  Alone(b)'
<1> DEFINE r == requests[b]
<1>1. CASE \/ Create(b) \/ Commit(b) \/ Crash(b) \/ End(b)
    <2>1. requests'[b] = None
        BY <1>1 DEF Create, Commit, Crash, End, Inv, TypeOK
    <2> QED
        BY <2>1 DEF Alone
<1>2. ASSUME NEW actor \in Users, NEW u \in Users,
             NEW op \in {"create", "role", "deactivate", "activate"},
             NEW role \in Roles \cup {None}, Authorize(b, actor, op, u, role)
      PROVE  Alone(b)'
    <2>1. requests'[b].stage = "authorized"
        BY <1>2 DEF Authorize, Inv, TypeOK
    <2> QED
        BY <2>1 DEF Alone, Counted
<1>3. CASE Load(b) /\ ~End(b)
    <2> DEFINE copy == users[r.user]
               stage == IF MustCount(r, copy) THEN "loaded" ELSE "checked"
    <2>1. /\ users' = users /\ r \in Request
          /\ requests' = [requests EXCEPT ![b].copy = copy, ![b].stage = stage]
        BY <1>3 DEF Load, InStage, Inv, TypeOK
    <2>2. /\ requests'[b].copy = copy /\ requests'[b].stage = stage
          /\ requests'[b].user = r.user /\ requests'[b].op = r.op
          /\ requests'[b].role = r.role
        BY <2>1 DEF Request, Inv, TypeOK
    <2> QED
        BY <2>1, <2>2 DEF Alone, Counted, MustCount
<1>4. CASE Find(b)
    <2>1. /\ users' = users /\ r \in Request /\ r # None /\ r.stage = "loaded"
          /\ requests' = [requests EXCEPT ![b].stage = "waiting",
                                          ![b].found = ActiveAdmins]
        BY <1>4 DEF Find, InStage, Inv, TypeOK
    <2>2. /\ requests'[b].copy = r.copy /\ requests'[b].stage = "waiting"
          /\ requests'[b].user = r.user
        BY <2>1 DEF Request, Inv, TypeOK
    <2> QED
        BY <2>1, <2>2 DEF Alone, Counted
<1>5. CASE Lock(b) /\ ~End(b)
    <2> DEFINE locked == r.found \cap ActiveAdmins
    <2>1. /\ users' = users /\ r \in Request /\ r # None /\ r.stage = "waiting"
          /\ Enough(locked)
          /\ requests' = [requests EXCEPT ![b].stage = "checked",
                                          ![b].held = locked]
        BY <1>5 DEF Lock, InStage, Inv, TypeOK
    <2>2. /\ requests'[b].copy = r.copy /\ requests'[b].held = locked
          /\ requests'[b].user = r.user
        BY <2>1 DEF Request, Inv, TypeOK
    <2> QED
        BY <2>1, <2>2 DEF Alone, Counted
<1>6. CASE UNCHANGED vars
    BY <1>6 DEF vars, Alone, Counted
<1> QED
    BY <1>1, <1>2, <1>3, <1>4, <1>5, <1>6 DEF Next

LEMMA AloneRemains ==
    ASSUME NEW b \in Backends, Backends = {b}, Inv, Alone(b),
           ActiveAdmins # {}, [Next]_vars
    PROVE  ActiveAdmins' # {}
<1>1. PICK v \in Users : IsActiveAdmin(users[v])
    BY DEF ActiveAdmins
<1>2. CASE users' = users
    BY <1>2 DEF ActiveAdmins
<1>3. CASE Create(b)
    <2>1. users'[v] = users[v]
        BY <1>1, <1>3 DEF Create, IsActiveAdmin, Inv, TypeOK
    <2> QED
        BY <1>1, <2>1 DEF ActiveAdmins
<1>4. CASE Commit(b)
    <2> DEFINE r == requests[b]
               u == r.user
    <2>1. /\ r \in Request /\ r # None /\ r.stage = "checked"
          /\ users' = [users EXCEPT ![u] = Saved(users[u], r)]
        BY <1>4 DEF Inv, TypeOK, Commit, InStage
    <2>2. Bounded(r) /\ Loaded(r) /\ Counted(r) /\ r.held \subseteq ActiveAdmins
        BY <2>1 DEF Inv, RequestsInv, CountHolds, Alone
    <2>3. /\ r.op # "create" /\ r.copy \in User /\ u \in Users
          /\ users[u] \in User /\ r.held \in SUBSET Users
          /\ r.op = "role" => r.role \in Roles
        BY <2>1, <2>2 DEF Bounded, Loaded, Request, Inv, TypeOK
    <2>4. users'[u] = Saved(users[u], r)
          /\ \A x \in Users : x # u => users'[x] = users[x]
        BY <2>1, <2>3 DEF Inv, TypeOK
    <2>5. CASE IsActiveAdmin(users[u]) /\ ~Lowers(r.op, r.role)
        <3>1. IsActiveAdmin(users'[u])
            BY <2>1, <2>3, <2>4, <2>5, SavedDirection
        <3> QED
            BY <2>3, <3>1 DEF ActiveAdmins
    <2>6. CASE IsActiveAdmin(users[u]) /\ Lowers(r.op, r.role)
        <3>1. Enough(r.held)
            BY <2>1, <2>2, <2>6 DEF Counted
        <3>2. PICK x \in r.held : x # u
            BY <2>3, <3>1, EnoughLeaves
        <3>3. x \in Users /\ IsActiveAdmin(users'[x])
            BY <2>2, <2>4, <3>2 DEF ActiveAdmins
        <3> QED
            BY <3>3 DEF ActiveAdmins
    <2>7. CASE ~IsActiveAdmin(users[u])
        BY <1>1, <2>4, <2>7 DEF ActiveAdmins
    <2> QED
        BY <2>5, <2>6, <2>7
<1> QED
    BY <1>2, <1>3, <1>4
    DEF Next, vars, Authorize, Load, Find, Lock, Crash

LEMMA AloneAlways ==
    ASSUME NEW b \in Backends, Backends = {b}
    PROVE  Spec => [](Inv /\ Alone(b) /\ ActiveAdmins # {})
<1>1. Init => Alone(b) /\ ActiveAdmins # {}
    BY DEF Init, Alone
<1>2. Inv /\ Alone(b) /\ [Next]_vars => Alone(b)'
    BY AloneStep
<1>3. Inv /\ Alone(b) /\ ActiveAdmins # {} /\ [Next]_vars =>
         (ActiveAdmins # {})'
    BY AloneRemains
<1> QED
    BY <1>1, <1>2, <1>3, InvAlways, PTL DEF Spec

(* With one backend an active admin always remains, also where the same user *)
(* may be lowered and raised: what AdminRemains excludes takes two backends  *)
(* (admin.py:226-228, 254-256).                                              *)
THEOREM OneBackendKeepsAdmin ==
    ASSUME NEW b \in Backends, Backends = {b}
    PROVE  Spec => [](ActiveAdmins # {})
BY AloneAlways, PTL

(* With one backend an accepted change is made as it was asked for, whoever  *)
(* may be lowered and raised (admin.py:229, 257, 281).                       *)
THEOREM OneBackendLandsChanges ==
    ASSUME NEW b \in Backends, Backends = {b}
    PROVE  Spec => [][Commit(b) =>
              LET r   == requests[b]
                  row == users[r.user]
              IN  users'[r.user] =
                     IF r.op = "role" THEN [row EXCEPT !.role = r.role]
                     ELSE [row EXCEPT !.active = r.op = "activate"]]_vars
<1> DEFINE Lands ==
        LET r   == requests[b]
            row == users[r.user]
        IN  users'[r.user] = IF r.op = "role" THEN [row EXCEPT !.role = r.role]
                             ELSE [row EXCEPT !.active = r.op = "activate"]
<1>1. ASSUME Inv, Alone(b), Commit(b)
      PROVE  Lands
    <2> DEFINE r == requests[b]
               row == users[r.user]
    <2>1. /\ r \in Request /\ r # None /\ r.stage = "checked"
          /\ users' = [users EXCEPT ![r.user] = Saved(row, r)]
        BY <1>1 DEF Inv, TypeOK, Commit, InStage
    <2>2. r.copy = row /\ row \in User /\ r.user \in Users
        BY <1>1, <2>1 DEF Inv, RequestsInv, Loaded, Alone, Request
    <2>3. Saved(row, r) = Assigned(r)
        <3>1. Saved(row, r) = [role   |-> Assigned(r).role,
                               active |-> Assigned(r).active]
            BY <2>2 DEF Saved, NetChange
        <3>2. /\ DOMAIN Assigned(r) = {"role", "active"}
              /\ Assigned(r) = [x \in {"role", "active"} |-> Assigned(r)[x]]
            BY <2>2 DEF Assigned, User
        <3> QED
            BY <3>1, <3>2
    <2>4. users'[r.user] = Assigned(r)
        BY <1>1, <2>1, <2>2, <2>3 DEF Inv, TypeOK
    <2> QED
        BY <2>2, <2>4 DEF Assigned
<1>2. Inv /\ Alone(b) => [Commit(b) => Lands]_vars
    BY <1>1
<1> QED
    BY <1>2, AloneAlways, PTL

=============================================================================
