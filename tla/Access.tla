-------------------------------- MODULE Access --------------------------------
(***************************************************************************)
(* Who may do what in the back office: roles, the permissions each grants, *)
(* and the admins that hold them, read again for every request an admin    *)
(* makes. An edit of a role removes its permissions, grants those asked    *)
(* for and then writes its name, in three calls that no transaction holds  *)
(* together; the seeding script does the same, role by role.               *)
(***************************************************************************)
EXTENDS Requests

CONSTANTS
  Names,        \* the names a role may have
  Permissions,
  SeedOrder,    \* the names that are seeded, SUPER_ADMIN first
  SeedGrants,   \* the permissions seeded for each name
  Admins,
  SeedAdmin,    \* the admin that is seeded
  MaxRoles      \* bound: roles ever created

ASSUME RolesBound == MaxRoles \in Nat
ASSUME SeedAssumption ==
  /\ SeedOrder \in Seq(Names) /\ SeedAdmin \in Admins
  /\ SeedOrder # <<>> /\ Head(SeedOrder) = "SUPER_ADMIN"
  /\ \A i, k \in DOMAIN SeedOrder : SeedOrder[i] = SeedOrder[k] => i = k
  /\ \A i \in DOMAIN SeedOrder : SeedGrants[SeedOrder[i]] \subseteq Permissions
  /\ Len(SeedOrder) <= MaxRoles

VARIABLES
  roles,     \* the roles by id: name and permissions
  lastRole,  \* the id last given out
  admins,    \* the admins: role and whether active
  granted,   \* history: what was last asked for, for each role
  halfway    \* history: roles whose edit stopped before it granted anything

accessVars == <<roles, lastRole, admins, granted, halfway>>

\* What the token's strategy finds for an admin, at each request.
validateAdmin(a) == a \in DOMAIN admins /\ admins[a].isActive

roleOf(a) == roles[admins[a].role]

RolesGuard(a) ==
  validateAdmin(a) /\ roleOf(a).name \in {"SUPER_ADMIN", "ADMIN"}

PermissionsGuard(a, key) ==
  /\ validateAdmin(a)
  /\ roleOf(a).name = "SUPER_ADMIN" \/ key \in roleOf(a).permissions

Managed == \E a \in Admins : RolesGuard(a)

Named(name) == {id \in DOMAIN roles : roles[id].name = name}

\* Nothing yet, or what the seeding script leaves.
AccessInit ==
  /\ RequestsInit
  /\ lastRole \in {0, Len(SeedOrder)}
  /\ roles = [id \in 1..lastRole |-> [name |-> SeedOrder[id],
                                      permissions |-> SeedGrants[SeedOrder[id]]]]
  /\ granted = [id \in 1..lastRole |-> roles[id].permissions]
  /\ admins = IF lastRole = 0 THEN <<>>
              ELSE Saved(<<>>, SeedAdmin, [role |-> 1, isActive |-> TRUE])
  /\ halfway = {}

-----------------------------------------------------------------------------
(* Roles. *)

NewRole(name, keys) ==
  /\ Named(name) = {} /\ lastRole < MaxRoles
  /\ lastRole' = lastRole + 1
  /\ roles' = Saved(roles, lastRole', [name |-> name, permissions |-> keys])
  /\ granted' = Saved(granted, lastRole', keys)

\* create: looked for first; the name is unique besides.
CreateRole ==
  /\ Managed
  /\ \E name \in Names, keys \in SUBSET Permissions : NewRole(name, keys)
  /\ UNCHANGED <<admins, halfway, inFlight>>

\* update: `name` is a set, empty if the form gives none; without permissions
\* only the name is written.
AskUpdateRole(r) ==
  /\ Managed
  /\ \E id \in DOMAIN roles, keys \in SUBSET Permissions,
        name \in {{}} \cup {{n} : n \in Names}, step \in {"clear", "rename"} :
       /\ step = "rename" => keys = {}
       /\ Begin(r, [step |-> step, id |-> id, keys |-> keys, name |-> name,
                    seeding |-> FALSE])
  /\ UNCHANGED accessVars

\* Mistake: what the role had is not taken from it.
keptPermissions(permissions) == permissions

clearedPermissions(permissions) == {}

ClearRole(r) ==
  LET j == job[r]
  IN  /\ At(r, "clear") /\ j.id \in DOMAIN roles
      /\ roles' = [roles EXCEPT ![j.id].permissions = clearedPermissions(@)]
      /\ granted' = [granted EXCEPT ![j.id] = j.keys]
      /\ Continue(r, [step |-> "grant"])
      /\ UNCHANGED <<lastRole, admins, halfway>>

\* A pair that is there throws; the script skips it.
GrantRole(r) ==
  LET j == job[r]
  IN  /\ At(r, "grant") /\ j.id \in DOMAIN roles
      /\ j.seeding \/ roles[j.id].permissions \cap j.keys = {}
      /\ roles' = [roles EXCEPT ![j.id].permissions = @ \cup j.keys]
      /\ halfway' = halfway \ {j.id}
      /\ Proceed(r, [step |-> IF j.seeding THEN "upsert" ELSE "rename"],
                 granted[j.id] # j.keys)
      /\ UNCHANGED <<lastRole, admins, granted>>

\* A name that is taken throws, with the permissions already changed.
RenameRole(r) ==
  LET j == job[r]
  IN  /\ At(r, "rename") /\ j.id \in DOMAIN roles
      /\ \A n \in j.name :
           Named(n) \subseteq {j.id}
      /\ roles' = [roles EXCEPT ![j.id].name =
                     IF j.name = {} THEN @ ELSE CHOOSE n \in j.name : TRUE]
      /\ End(r)
      /\ UNCHANGED <<lastRole, admins, granted, halfway>>

\* Refused by the foreign key while an admin has the role.
RemoveRole ==
  /\ Managed
  /\ \E id \in DOMAIN roles :
       /\ \A a \in DOMAIN admins : admins[a].role # id
       /\ roles' = Removed(roles, id)
       /\ granted' = Removed(granted, id)
  /\ UNCHANGED <<lastRole, admins, halfway, inFlight>>

-----------------------------------------------------------------------------
(* Admins, who may also take the last manager's role away. *)

SaveAdmin ==
  /\ Managed
  /\ \E a \in Admins, role \in DOMAIN roles, isActive \in BOOLEAN :
       /\ a \in DOMAIN admins \/ isActive
       /\ admins' = Saved(admins, a, [role |-> role, isActive |-> isActive])
  /\ UNCHANGED <<roles, lastRole, granted, halfway, inFlight>>

RemoveAdmin ==
  /\ Managed
  /\ \E a \in DOMAIN admins :
       admins' = Removed(admins, a)
  /\ UNCHANGED <<roles, lastRole, granted, halfway, inFlight>>

-----------------------------------------------------------------------------
(* The seeding script, which may be run again at any time. *)

AskSeed(r) ==
  /\ Begin(r, [step |-> "upsert", todo |-> SeedOrder, super |-> {}])
  /\ UNCHANGED accessVars

SeedRole(r) ==
  LET name == Head(job[r].todo)
  IN  /\ At(r, "upsert") /\ job[r].todo # <<>>
      /\ IF Named(name) # {} THEN UNCHANGED <<roles, lastRole, granted>>
         ELSE NewRole(name, {})
      /\ \E id \in DOMAIN roles' :
           /\ roles'[id].name = name
           /\ Continue(r, [step |-> "clear", id |-> id,
                           keys |-> SeedGrants[name], seeding |-> TRUE,
                           todo |-> Tail(job[r].todo),
                           super |-> IF name = "SUPER_ADMIN" THEN {id}
                                     ELSE job[r].super])
      /\ UNCHANGED <<admins, halfway>>

\* The first admin is created unless there is one of that address.
SeedAdminUser(r) ==
  /\ At(r, "upsert") /\ job[r].todo = <<>>
  /\ job[r].super \subseteq DOMAIN roles
  /\ admins' = IF SeedAdmin \in DOMAIN admins THEN admins
               ELSE Saved(admins, SeedAdmin,
                          [role |-> CHOOSE id \in job[r].super : TRUE,
                           isActive |-> TRUE])
  /\ End(r)
  /\ UNCHANGED <<roles, lastRole, granted, halfway>>

-----------------------------------------------------------------------------

\* A throw leaves what was written before it, as a crash does.
AbandonAccess(r) ==
  /\ Interrupt(r)
  /\ halfway' = IF At(r, "grant") THEN halfway \cup {job[r].id} ELSE halfway
  /\ UNCHANGED <<roles, lastRole, admins, granted>>

AccessNext ==
  \/ CreateRole \/ RemoveRole \/ SaveAdmin \/ RemoveAdmin
  \/ \E r \in Requests :
       \/ AskUpdateRole(r) \/ ClearRole(r) \/ GrantRole(r) \/ RenameRole(r)
       \/ AskSeed(r) \/ SeedRole(r) \/ SeedAdminUser(r)
       \/ AbandonAccess(r)

AccessSpec == AccessInit /\ [][AccessNext]_<<accessVars, inFlight>>

-----------------------------------------------------------------------------

AccessTypeOK ==
  /\ lastRole \in 0..MaxRoles
  /\ DOMAIN roles \subseteq 1..lastRole /\ DOMAIN granted = DOMAIN roles
  /\ \A id \in DOMAIN roles :
       /\ roles[id].name \in Names
       /\ roles[id].permissions \subseteq Permissions
       /\ Named(roles[id].name) = {id}
  /\ DOMAIN admins \subseteq Admins
  /\ \A a \in DOMAIN admins : admins[a].role \in DOMAIN roles

\* Whoever passes the guard has the permission from the last edit of their role,
\* also while that edit is under way or where it stopped; and a role grants all
\* it was last given, unless its edit is between its calls or stopped there.
\* Two edits of one role at once end this: it may get what neither asked for.
GrantsAreAsAsked ==
  ~overtaken =>
    /\ \A a \in DOMAIN admins, key \in Permissions :
         PermissionsGuard(a, key) =>
           roleOf(a).name = "SUPER_ADMIN" \/ key \in granted[admins[a].role]
    /\ \A id \in DOMAIN roles \ halfway :
         (\A r \in Requests : At(r, "grant") => job[r].id # id)
           => roles[id].permissions = granted[id]
===============================================================================
