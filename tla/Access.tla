------------------------------- MODULE Access -------------------------------
(***************************************************************************)
(* Who may reach which server: the tables users, policies, servers and     *)
(* user_server_grants, the three queries that evaluate them (the policy    *)
(* engine's Authorize, the gateway's menu, the admin console's tick marks) *)
(* and the administrators who change them.  assignServers runs one         *)
(* statement per server outside a transaction, so the statements of two    *)
(* consoles interleave and a failure leaves the ones before it in place.   *)
(*                                                                         *)
(* The sessions that assignServers kills after a DELETE are the subject of *)
(* SessionBridge; what the engine hands on besides its verdict (address,   *)
(* key path, commands) is left out.                                        *)
(***************************************************************************)
EXTENDS Integers, FiniteSets

CONSTANTS Users, NoUser, Admins,
          Servers,      \* numbers, in the order of their hostnames
          Environments, EnvOf,
          Roles, Unassigned,
          AllowedEnvs,  \* policies.allowed_environments of a role's row
          SeedUsers, SeedRole, SeedServers, SeedPolicies,
          MaxDbFails    \* bound on failed database calls

ASSUME AccessAssumption ==
    /\ NoUser \notin Users
    /\ Servers \subseteq Nat /\ IsFiniteSet(Servers)
    /\ EnvOf \in [Servers -> Environments]
    /\ Unassigned \in Roles
    /\ AllowedEnvs \in [Roles -> SUBSET Environments]
    /\ AllowedEnvs[Unassigned] = {}
    /\ SeedUsers \subseteq Users /\ SeedRole \in [Users -> Roles]
    /\ SeedServers \subseteq Servers /\ SeedPolicies \subseteq Roles
    /\ MaxDbFails \in Nat

VARIABLES
    users, role, override,  \* rows of users: id, role, override_role_access
    inventory,              \* rows of servers
    policies,               \* roles that have a row in policies
    grants,                 \* rows of user_server_grants
    apc,                    \* the console's state, and its place in assignServers
    target,                 \* createdUserID
    opts, ticked,           \* serverOpts: the servers listed, and those selected
    todo,                   \* the part of the loop in assignServers still to run
    before,                 \* history: the target's access when the save began
    conflict,               \* history: another console wrote something else meanwhile
    ignored,                \* history: the first UPDATE failed
    dbFails

tables  == <<users, role, override, inventory, policies, grants>>
console == <<apc, target, opts, ticked, todo>>
history == <<before, conflict, ignored>>
vars    == <<tables, console, history, dbFails>>

-----------------------------------------------------------------------------
\* SQL's three truth values.

Sql(b) == IF b THEN "true" ELSE "false"

SqlAnd(a, b) == IF "false" \in {a, b} THEN "false"
                ELSE IF "null" \in {a, b} THEN "null" ELSE "true"

SqlOr(a, b) == IF "true" \in {a, b} THEN "true"
               ELSE IF "null" \in {a, b} THEN "null" ELSE "false"

\* s.environment = ANY(p.allowed_environments), with p from LEFT JOIN ... p.role = r
EnvAllowed(r, s) == IF r \in policies THEN Sql(EnvOf[s] \in AllowedEnvs[r]) ELSE "null"

Granted(u, s) == Sql(<<u, s>> \in grants)

\* u.override_role_access = false AND s.environment = ANY(p.allowed_environments)
RoleAllows(u, r, s) == SqlAnd(Sql(~override[u]), EnvAllowed(r, s))

\* VARIANT: the policy engine looks at the role alone.
AuthorizeByRole(u, r, s) ==
    IF s \notin inventory \/ u \notin users THEN "ErrUnknownHost"
    ELSE IF EnvAllowed(r, s) = "true" THEN "ok" ELSE "ErrPermissionDenied"

\* COALESCE(..., false) AS is_authorized, then the cases of Authorize.
Authorize(u, r, s) ==
    LET policyFound  == r \in policies
        isAuthorized == SqlOr(Granted(u, s), RoleAllows(u, r, s)) = "true"
    IN  IF s \notin inventory \/ u \notin users THEN "ErrUnknownHost"
        ELSE IF ~policyFound /\ ~isAuthorized THEN "ErrPermissionDenied"
        ELSE IF ~isAuthorized THEN "ErrPermissionDenied"
        ELSE "ok"

\* The servers of the menu (an administrator's entry for the console comes on top).
\* A row is in the result only if the WHERE condition is true, not if it is null.
queryAccessibleServers(u) ==
    {s \in inventory : u \in users /\ SqlOr(Granted(u, s), RoleAllows(u, role[u], s)) = "true"}

\* Scan of a null into the bool fails, is ignored, and leaves selected false.
Selected(u) ==
    {s \in inventory : SqlOr(Granted(u, s), RoleAllows(u, role[u], s)) = "true"}

Reachable(u) == {s \in inventory : Authorize(u, role[u], s) = "ok"}

-----------------------------------------------------------------------------
Init ==
    /\ users     = SeedUsers
    /\ role      = SeedRole
    /\ override  = [u \in Users |-> FALSE]
    /\ inventory = SeedServers
    /\ policies  = SeedPolicies
    /\ grants    = {}
    /\ apc       = [a \in Admins |-> "menu"]
    /\ target    = [a \in Admins |-> NoUser]
    /\ opts      = [a \in Admins |-> {}]
    /\ ticked    = [a \in Admins |-> {}]
    /\ todo      = [a \in Admins |-> {}]
    /\ before    = [a \in Admins |-> {}]
    /\ conflict  = [a \in Admins |-> FALSE]
    /\ ignored   = [a \in Admins |-> FALSE]
    /\ dbFails   = 0

Goto(a, from, to) == apc[a] = from /\ apc' = [apc EXCEPT ![a] = to]

\* A failing call is one of at most MaxDbFails; any other leaves the count alone.
Fails == dbFails < MaxDbFails /\ dbFails' = dbFails + 1
Works == UNCHANGED dbFails

-----------------------------------------------------------------------------
\* The console before an assignment.

\* StateAddUser, ENTER: queryRoles makes sure that 'unassigned' has a policy.
ListRoles(a) ==
    /\ Goto(a, "menu", "roles")
    /\ \/ Works /\ policies' = policies \cup {Unassigned}
       \/ Fails /\ UNCHANGED policies
    /\ UNCHANGED <<users, role, override, inventory, grants, target, opts, ticked, todo, history>>

\* StateRoleSelect, ENTER: createUser, then queryServers, whose failure is an empty list.
CreateUser(a, u, r) ==
    /\ Goto(a, "roles", "assign")
    /\ u \notin users /\ r \in policies \cup {Unassigned}
    /\ users'    = users \cup {u}
    /\ role'     = [role EXCEPT ![u] = r]
    /\ override' = [override EXCEPT ![u] = FALSE]
    /\ target'   = [target EXCEPT ![a] = u]
    /\ \/ Works /\ opts' = [opts EXCEPT ![a] = inventory]
       \/ Fails /\ opts' = [opts EXCEPT ![a] = {}]
    /\ ticked'   = [ticked EXCEPT ![a] = {}]
    /\ UNCHANGED <<inventory, policies, grants, todo, history>>

CreateUserFails(a, u) ==
    /\ Goto(a, "roles", "summary")
    /\ (u \in users /\ Works) \/ Fails
    /\ UNCHANGED <<tables, target, opts, ticked, todo, history>>

\* StateSelectUserForAssign, ENTER: a failing query leaves the list empty.
SelectUser(a, u) ==
    /\ Goto(a, "menu", "assign")
    /\ u \in users
    /\ target' = [target EXCEPT ![a] = u]
    /\ \/ /\ Works
          /\ opts'   = [opts EXCEPT ![a] = inventory]
          /\ ticked' = [ticked EXCEPT ![a] = Selected(u)]
       \/ /\ Fails
          /\ opts'   = [opts EXCEPT ![a] = {}]
          /\ ticked' = [ticked EXCEPT ![a] = {}]
    /\ UNCHANGED <<tables, todo, history>>

\* StateAssignAccess, ENTER on a server.
Toggle(a, s) ==
    /\ apc[a] = "assign" /\ s \in opts[a]
    /\ ticked' = [ticked EXCEPT ![a] = IF s \in @ THEN @ \ {s} ELSE @ \cup {s}]
    /\ UNCHANGED <<tables, apc, target, opts, todo, history, dbFails>>

\* [ Skip for now ] and [ Back ]
Skip(a) ==
    /\ Goto(a, "assign", "summary")
    /\ ticked' = [ticked EXCEPT ![a] = {}]
    /\ UNCHANGED <<tables, target, opts, todo, history, dbFails>>

\* generateAndSaveServer and saveCustomServer: INSERT INTO servers, which fails for a
\* hostname that is taken.
AddServer(a, s) ==
    /\ Goto(a, "menu", "summary")
    /\ \/ s \notin inventory /\ Works /\ inventory' = inventory \cup {s}
       \/ s \in inventory /\ Works /\ UNCHANGED inventory
       \/ Fails /\ UNCHANGED inventory
    /\ opts'   = [opts EXCEPT ![a] = {}]
    /\ ticked' = [ticked EXCEPT ![a] = {}]
    /\ UNCHANGED <<users, role, override, policies, grants, target, todo, history>>

\* StateSummary, ENTER.  The form is dead from here on: every way back to
\* StateAssignAccess fills it anew, so it is cleared.
Return(a) ==
    /\ apc[a] \in {"summary", "saved", "failed"}
    /\ apc'      = [apc EXCEPT ![a] = "menu"]
    /\ target'   = [target EXCEPT ![a] = NoUser]
    /\ opts'     = [opts EXCEPT ![a] = {}]
    /\ ticked'   = [ticked EXCEPT ![a] = {}]
    /\ todo'     = [todo EXCEPT ![a] = {}]
    /\ before'   = [before EXCEPT ![a] = {}]
    /\ conflict' = [conflict EXCEPT ![a] = FALSE]
    /\ ignored'  = [ignored EXCEPT ![a] = FALSE]
    /\ UNCHANGED <<tables, dbFails>>

-----------------------------------------------------------------------------
\* assignServers

Assign(a) ==
    /\ Goto(a, "assign", "override")
    /\ todo'     = [todo EXCEPT ![a] = opts[a]]
    /\ before'   = [before EXCEPT ![a] = Reachable(target[a])]
    /\ conflict' = [conflict EXCEPT ![a] = FALSE]
    /\ ignored'  = [ignored EXCEPT ![a] = FALSE]
    /\ UNCHANGED <<tables, target, opts, ticked, dbFails>>

\* UPDATE users SET override_role_access = true: the error is not looked at.
SetOverride(a) ==
    /\ Goto(a, "override", "loop")
    /\ \/ Works /\ override' = [override EXCEPT ![target[a]] = TRUE] /\ UNCHANGED ignored
       \/ Fails /\ ignored' = [ignored EXCEPT ![a] = TRUE] /\ UNCHANGED override
    /\ UNCHANGED <<users, role, inventory, policies, grants, target, opts, ticked, todo,
                   before, conflict>>

\* The loop's next server
Current(a, s) == apc[a] = "loop" /\ s \in todo[a] /\ \A t \in todo[a] : s <= t

\* Another console that wants something else for the same user and server.
Noted(a, s) == conflict' = [b \in Admins |-> conflict[b] \/
    (b # a /\ target[b] = target[a] /\ (s \in ticked[a]) # (s \in ticked[b]))]

\* VARIANT: the two branches are swapped.
AssignServerSwapped(a, s) ==
    /\ Current(a, s)
    /\ grants' = IF s \notin ticked[a] THEN grants \cup {<<target[a], s>>}
                                       ELSE grants \ {<<target[a], s>>}
    /\ todo' = [todo EXCEPT ![a] = @ \ {s}]
    /\ Noted(a, s)
    /\ UNCHANGED <<users, role, override, inventory, policies, apc, target, opts, ticked,
                   before, ignored, dbFails>>

\* INSERT ... ON CONFLICT DO NOTHING for a selected server, DELETE for another one.
AssignServer(a, s) ==
    /\ Current(a, s)
    /\ grants' = IF s \in ticked[a] THEN grants \cup {<<target[a], s>>}
                                    ELSE grants \ {<<target[a], s>>}
    /\ todo' = [todo EXCEPT ![a] = @ \ {s}]
    /\ Noted(a, s)
    /\ UNCHANGED <<users, role, override, inventory, policies, apc, target, opts, ticked,
                   before, ignored, dbFails>>

\* return nil, err: the statements before stay.
AssignServerFails(a) ==
    /\ Goto(a, "loop", "failed")
    /\ todo[a] # {} /\ Fails
    /\ UNCHANGED <<tables, target, opts, ticked, todo, history>>

\* VARIANT: the loop is left after its first server.
AssignedEarly(a) ==
    /\ Goto(a, "loop", "saved")
    /\ todo[a] # opts[a]
    /\ UNCHANGED <<tables, target, opts, ticked, todo, history, dbFails>>

Assigned(a) ==
    /\ Goto(a, "loop", "saved")
    /\ todo[a] = {}
    /\ UNCHANGED <<tables, target, opts, ticked, todo, history, dbFails>>

-----------------------------------------------------------------------------
Edit(a) ==
    \/ ListRoles(a)
    \/ \E u \in Users : CreateUserFails(a, u) \/ SelectUser(a, u)
    \/ \E u \in Users, r \in Roles : CreateUser(a, u, r)
    \/ \E s \in Servers : Toggle(a, s) \/ AddServer(a, s)
    \/ Skip(a) \/ Return(a)

Save(a) ==
    \/ Assign(a) \/ SetOverride(a)
    \/ \E s \in Servers : AssignServer(a, s)
    \/ AssignServerFails(a) \/ Assigned(a)

Next == \E a \in Admins : Edit(a) \/ Save(a)

Spec == Init /\ [][Next]_vars

-----------------------------------------------------------------------------
TypeOK ==
    /\ users \subseteq Users
    /\ role \in [Users -> Roles]
    /\ override \in [Users -> BOOLEAN]
    /\ inventory \subseteq Servers
    /\ policies \subseteq Roles
    /\ grants \subseteq users \X inventory
    /\ apc \in [Admins -> {"menu", "roles", "assign", "summary", "override", "loop",
                           "saved", "failed"}]
    /\ target \in [Admins -> users \cup {NoUser}]
    /\ opts \in [Admins -> SUBSET inventory]
    /\ ticked \in [Admins -> SUBSET Servers]
    /\ todo \in [Admins -> SUBSET Servers]
    /\ \A a \in Admins : ticked[a] \subseteq opts[a]
    /\ before \in [Admins -> SUBSET Servers]
    /\ conflict \in [Admins -> BOOLEAN] /\ ignored \in [Admins -> BOOLEAN]
    /\ dbFails \in 0..MaxDbFails

\* The gateway's menu (gateway_tui.go:69-78) offers exactly the servers the policy
\* engine admits (rbac.go:92-114), and the console ticks exactly those
\* (admin_tui.go:525-534): three queries, one of them with the role of the login,
\* agree on users with and without a policy, grants and granular access.
QueriesAgree ==
    \A u \in users :
        /\ queryAccessibleServers(u) = Reachable(u)
        /\ Selected(u) = Reachable(u)

\* When assignServers (admin_tui.go:1023-1060) has reported success, the engine admits
\* the user to exactly the ticked ones of the listed servers, whatever other consoles
\* did, as long as they wanted the same for this user.
SavedExact == \A a \in Admins :
    apc[a] = "saved" /\ ~conflict[a] /\ ~ignored[a] =>
        Reachable(target[a]) \cap opts[a] = ticked[a]

\* From its first statement on, finished, failed or under way, assignServers never
\* gives the user a listed server that was neither reachable before nor ticked.
NeverWidens == \A a \in Admins :
    apc[a] \in {"override", "loop", "saved", "failed"} /\ ~conflict[a] =>
        Reachable(target[a]) \cap opts[a] \subseteq before[a] \cup ticked[a]

\* "Set override_role_access to true so granular permissions are absolute"
\* (admin_tui.go:1024): after a reported success the role no longer counts.
GranularIsAbsolute == \A a \in Admins : apc[a] = "saved" => override[target[a]]
=============================================================================
