---------------------------- MODULE AccessProofs ----------------------------
(***************************************************************************)
(* Proofs about Access for every set of users, servers, roles and          *)
(* consoles.  The argument: a console in the loop has settled the servers  *)
(* it is done with (Settled), and what its user can reach is bounded by    *)
(* what was reachable when the save began and what is ticked (Bounded).    *)
(***************************************************************************)
EXTENDS Access, TLAPS

\* What the three-valued conditions amount to in two-valued logic.
Allowed(u, s) ==
    \/ <<u, s>> \in grants
    \/ ~override[u] /\ role[u] \in policies /\ EnvOf[s] \in AllowedEnvs[role[u]]

Saving(a) == apc[a] \in {"override", "loop", "saved", "failed"}

\* A console that lists servers works on a user that exists.
TargetExists == \A a \in Admins : apc[a] = "assign" \/ Saving(a) => target[a] \in users

\* The servers the loop is done with have, or lack, their grant as ticked.
Settled == \A a \in Admins :
    /\ apc[a] = "override" => todo[a] = opts[a]
    /\ apc[a] = "saved" => todo[a] = {}
    /\ apc[a] \in {"loop", "saved"} /\ ~ignored[a] => override[target[a]]
    /\ apc[a] \in {"loop", "saved"} /\ ~conflict[a] =>
          \A s \in opts[a] \ todo[a] : <<target[a], s>> \in grants <=> s \in ticked[a]

\* Nothing listed is reachable that was not before and is not ticked.
Bounded == \A a \in Admins : Saving(a) /\ ~conflict[a] =>
    \A s \in opts[a] : Allowed(target[a], s) => s \in before[a] \cup ticked[a]

Inductive == TypeOK /\ TargetExists /\ Settled /\ Bounded

-----------------------------------------------------------------------------
\* The engine's COALESCE over SQL's OR and AND is the two-valued condition.
LEMMA EngineIs ==
    ASSUME NEW u \in Users, NEW s \in Servers
    PROVE  Authorize(u, role[u], s) = "ok"
              <=> s \in inventory /\ u \in users /\ Allowed(u, s)
BY DEF Authorize, Allowed, SqlOr, SqlAnd, Sql, Granted, RoleAllows, EnvAllowed

\* The menu and the tick marks are the same condition.
LEMMA MenuIs ==
    ASSUME NEW u \in Users, NEW s \in Servers
    PROVE  SqlOr(Granted(u, s), RoleAllows(u, role[u], s)) = "true" <=> Allowed(u, s)
BY DEF Allowed, SqlOr, SqlAnd, Sql, Granted, RoleAllows, EnvAllowed

\* The servers the engine admits a user to.
LEMMA ReachableIs ==
    ASSUME TypeOK, NEW u \in Users
    PROVE  Reachable(u) = {s \in inventory : u \in users /\ Allowed(u, s)}
BY EngineIs DEF Reachable, TypeOK

\* Init establishes the invariant.
LEMMA InitInductive == Init => Inductive
BY AccessAssumption DEF Init, Inductive, TypeOK, TargetExists, Settled, Bounded, Saving

-----------------------------------------------------------------------------
\* Every step keeps the types and the existence of the edited user.
LEMMA TypeStep == Inductive /\ [Next]_vars => (TypeOK /\ TargetExists)'
<1> SUFFICES ASSUME Inductive, [Next]_vars PROVE (TypeOK /\ TargetExists)'
  OBVIOUS
<1> USE AccessAssumption DEF Inductive, TypeOK, TargetExists, Saving, Goto, Works, Fails,
        tables, console, history
<1>1. ASSUME NEW a \in Admins, ListRoles(a) PROVE (TypeOK /\ TargetExists)'
  BY <1>1 DEF ListRoles
<1>2. ASSUME NEW a \in Admins, NEW u \in Users, CreateUserFails(a, u)
      PROVE  (TypeOK /\ TargetExists)'
  BY <1>2 DEF CreateUserFails
<1>3. ASSUME NEW a \in Admins, NEW u \in Users, SelectUser(a, u)
      PROVE  (TypeOK /\ TargetExists)'
  <2>1. Selected(u) \subseteq inventory
    BY DEF Selected
  <2>2. PICK S, T \in SUBSET inventory :
            /\ T \subseteq S
            /\ opts' = [opts EXCEPT ![a] = S] /\ ticked' = [ticked EXCEPT ![a] = T]
    BY <1>3, <2>1 DEF SelectUser
  <2>3. dbFails' \in 0..MaxDbFails
    BY <1>3 DEF SelectUser
  <2> QED
    BY <1>3, <2>2, <2>3, Zenon DEF SelectUser
<1>4. ASSUME NEW a \in Admins, NEW u \in Users, NEW r \in Roles, CreateUser(a, u, r)
      PROVE  (TypeOK /\ TargetExists)'
  BY <1>4 DEF CreateUser
<1>5. ASSUME NEW a \in Admins, NEW s \in Servers, Toggle(a, s)
      PROVE  (TypeOK /\ TargetExists)'
  BY <1>5 DEF Toggle
<1>6. ASSUME NEW a \in Admins, NEW s \in Servers, AddServer(a, s)
      PROVE  (TypeOK /\ TargetExists)'
  <2>1. inventory \subseteq inventory' /\ inventory' \subseteq Servers
    BY <1>6 DEF AddServer
  <2>2. dbFails' \in 0..MaxDbFails
    BY <1>6 DEF AddServer
  <2>3. grants' \subseteq users' \X inventory'
    BY <1>6, <2>1 DEF AddServer
  <2> QED
    BY <1>6, <2>1, <2>2, <2>3 DEF AddServer
<1>7. ASSUME NEW a \in Admins, Skip(a) PROVE (TypeOK /\ TargetExists)'
  BY <1>7 DEF Skip
<1>8. ASSUME NEW a \in Admins, Return(a) PROVE (TypeOK /\ TargetExists)'
  BY <1>8 DEF Return
<1>9. ASSUME NEW a \in Admins, Assign(a) PROVE (TypeOK /\ TargetExists)'
  BY <1>9 DEF Assign, Reachable
<1>10. ASSUME NEW a \in Admins, SetOverride(a) PROVE (TypeOK /\ TargetExists)'
  <2>1. target[a] \in users
    BY <1>10 DEF SetOverride
  <2>2. CASE override' = [override EXCEPT ![target[a]] = TRUE] /\ Works /\ UNCHANGED ignored
    BY <1>10, <2>1, <2>2 DEF SetOverride
  <2>3. CASE ignored' = [ignored EXCEPT ![a] = TRUE] /\ Fails /\ UNCHANGED override
    BY <1>10, <2>1, <2>3 DEF SetOverride
  <2> QED
    BY <1>10, <2>2, <2>3 DEF SetOverride
<1>11. ASSUME NEW a \in Admins, NEW s \in Servers, AssignServer(a, s)
       PROVE  (TypeOK /\ TargetExists)'
  BY <1>11 DEF AssignServer, Current, Noted
<1>12. ASSUME NEW a \in Admins, AssignServerFails(a) PROVE (TypeOK /\ TargetExists)'
  BY <1>12 DEF AssignServerFails
<1>13. ASSUME NEW a \in Admins, Assigned(a) PROVE (TypeOK /\ TargetExists)'
  BY <1>13 DEF Assigned
<1>14. CASE UNCHANGED vars
  BY <1>14 DEF vars
<1> HIDE DEF TypeOK, TargetExists, Inductive
<1> QED
  BY <1>1, <1>2, <1>3, <1>4, <1>5, <1>6, <1>7, <1>8, <1>9, <1>10, <1>11, <1>12, <1>13, <1>14
     DEF Next, Edit, Save

\* Every step keeps what the loops have settled and the bound on what is reachable.
LEMMA SaveStep == Inductive /\ [Next]_vars => (Settled /\ Bounded)'
<1> SUFFICES ASSUME Inductive, [Next]_vars PROVE (Settled /\ Bounded)'
  OBVIOUS
<1> USE AccessAssumption DEF Inductive, TypeOK, TargetExists, Saving, Settled, Bounded,
        Allowed, Goto, tables, console, history
<1>1. ASSUME NEW a \in Admins, ListRoles(a) PROVE (Settled /\ Bounded)'
  BY <1>1 DEF ListRoles
<1>2. ASSUME NEW a \in Admins, NEW u \in Users, CreateUserFails(a, u)
      PROVE  (Settled /\ Bounded)'
  BY <1>2 DEF CreateUserFails
<1>3. ASSUME NEW a \in Admins, NEW u \in Users, SelectUser(a, u) PROVE (Settled /\ Bounded)'
  <2>1. ASSUME NEW b \in Admins, Saving(b)'
        PROVE  b # a /\ apc'[b] = apc[b] /\ target'[b] = target[b]
    BY <1>3, <2>1 DEF SelectUser
  <2>2. ASSUME NEW b \in Admins, b # a
        PROVE  opts'[b] = opts[b] /\ ticked'[b] = ticked[b]
    BY <1>3, <2>2 DEF SelectUser
  <2>3. UNCHANGED <<tables, todo, history>>
    BY <1>3 DEF SelectUser
  <2>4. ASSUME NEW b \in Admins, Saving(b)'
        PROVE  /\ apc'[b] = apc[b] /\ target'[b] = target[b] /\ Saving(b)
               /\ opts'[b] = opts[b] /\ ticked'[b] = ticked[b]
    BY <2>1, <2>2, <2>4
  <2>5. Settled'
    <3>1. ASSUME NEW b \in Admins, apc'[b] \in {"loop", "saved"}, ~ignored'[b]
          PROVE  override'[target'[b]]
      BY <3>1, <2>3, <2>4
    <3>2. ASSUME NEW b \in Admins, apc'[b] \in {"loop", "saved"}, ~conflict'[b]
          PROVE  \A s \in opts'[b] \ todo'[b] : <<target'[b], s>> \in grants' <=> s \in ticked'[b]
      BY <3>2, <2>3, <2>4
    <3>3. ASSUME NEW b \in Admins
          PROVE  (apc'[b] = "override" => todo'[b] = opts'[b]) /\ (apc'[b] = "saved" => todo'[b] = {})
      BY <2>3, <2>4
    <3> QED
      BY <3>1, <3>2, <3>3
  <2>6. Bounded'
    BY <2>3, <2>4
  <2> QED
    BY <2>5, <2>6
<1>4. ASSUME NEW a \in Admins, NEW u \in Users, NEW r \in Roles, CreateUser(a, u, r)
      PROVE  (Settled /\ Bounded)'
  <2>1. ASSUME NEW b \in Admins, Saving(b)'
        PROVE  b # a /\ apc'[b] = apc[b] /\ target'[b] = target[b]
    BY <1>4, <2>1 DEF CreateUser
  <2>2. ASSUME NEW b \in Admins, b # a
        PROVE  opts'[b] = opts[b] /\ ticked'[b] = ticked[b]
    BY <1>4, <2>2 DEF CreateUser
  <2>3. ASSUME NEW v \in users PROVE override'[v] = override[v] /\ role'[v] = role[v]
    BY <1>4, ZenonT(40) DEF CreateUser
  <2>4. UNCHANGED <<policies, grants, todo, history>>
    BY <1>4 DEF CreateUser
  <2>5. ASSUME NEW b \in Admins, Saving(b)'
        PROVE  /\ target'[b] = target[b] /\ target[b] \in users
               /\ apc'[b] = apc[b] /\ opts'[b] = opts[b] /\ ticked'[b] = ticked[b]
               /\ override'[target[b]] = override[target[b]]
               /\ role'[target[b]] = role[target[b]]
    <3>1. b # a /\ apc'[b] = apc[b] /\ target'[b] = target[b]
      BY <2>1, <2>5
    <3>2. target[b] \in users
      BY <2>5, <3>1
    <3> QED
      BY <3>1, <3>2, <2>2, <2>3
  <2>6. ASSUME NEW b \in Admins, Saving(b)'
        PROVE  /\ override'[target'[b]] <=> override[target[b]]
               /\ \A s : Allowed(target[b], s)' <=> Allowed(target[b], s)
    <3>1. override' \in [Users -> BOOLEAN]
      BY <1>4 DEF CreateUser
    <3> QED
      BY <2>4, <2>5, <2>6, <3>1, SMTT(30)
  <2>7. Settled'
    <3>1. ASSUME NEW b \in Admins, apc'[b] \in {"loop", "saved"}, ~ignored'[b]
          PROVE  override'[target'[b]]
      <4>1. Saving(b)' /\ apc'[b] = apc[b] /\ ignored'[b] = ignored[b]
        BY <3>1, <2>4, <2>5
      <4>2. override[target[b]]
        BY <3>1, <4>1
      <4> QED
        BY <4>1, <4>2, <2>6
    <3>2. ASSUME NEW b \in Admins, apc'[b] \in {"loop", "saved"}, ~conflict'[b]
          PROVE  \A s \in opts'[b] \ todo'[b] : <<target'[b], s>> \in grants' <=> s \in ticked'[b]
      BY <3>2, <2>4, <2>5, Zenon
    <3>3. ASSUME NEW b \in Admins
          PROVE  (apc'[b] = "override" => todo'[b] = opts'[b]) /\ (apc'[b] = "saved" => todo'[b] = {})
      BY <2>4, <2>5
    <3> QED
      BY <3>1, <3>2, <3>3
  <2>8. Bounded'
    <3> HIDE DEF Allowed
    <3> QED
      BY <2>4, <2>5, <2>6, Zenon
  <2> QED
    BY <2>7, <2>8
<1>5. ASSUME NEW a \in Admins, NEW s \in Servers, Toggle(a, s) PROVE (Settled /\ Bounded)'
  BY <1>5 DEF Toggle
<1>6. ASSUME NEW a \in Admins, NEW s \in Servers, AddServer(a, s) PROVE (Settled /\ Bounded)'
  BY <1>6 DEF AddServer
<1>7. ASSUME NEW a \in Admins, Skip(a) PROVE (Settled /\ Bounded)'
  BY <1>7 DEF Skip
<1>8. ASSUME NEW a \in Admins, Return(a) PROVE (Settled /\ Bounded)'
  BY <1>8 DEF Return
<1>9. ASSUME NEW a \in Admins, Assign(a) PROVE (Settled /\ Bounded)'
  <2>1. target[a] \in users /\ Reachable(target[a]) = {s \in inventory : Allowed(target[a], s)}
    BY <1>9, ReachableIs DEF Assign
  <2> QED
    BY <1>9, <2>1 DEF Assign
<1>10. ASSUME NEW a \in Admins, SetOverride(a) PROVE (Settled /\ Bounded)'
  <2>1. target[a] \in users /\ apc[a] = "override"
    BY <1>10 DEF SetOverride
  <2>2. \A u \in Users : override'[u] = override[u] \/ override'[u]
    BY <1>10, <2>1 DEF SetOverride
  <2>3. ignored'[a] \/ override'[target[a]]
    BY <1>10, <2>1 DEF SetOverride
  <2>4. \A b \in Admins : b # a => ignored'[b] = ignored[b] /\ apc'[b] = apc[b]
    BY <1>10 DEF SetOverride
  <2>5. Settled'
    BY <1>10, <2>1, <2>2, <2>3, <2>4 DEF SetOverride
  <2>6. Bounded'
    BY <1>10, <2>1, <2>2, <2>4 DEF SetOverride
  <2> QED
    BY <2>5, <2>6
<1>11. ASSUME NEW a \in Admins, NEW s \in Servers, AssignServer(a, s)
       PROVE  (Settled /\ Bounded)'
  BY <1>11 DEF AssignServer, Current, Noted
<1>12. ASSUME NEW a \in Admins, AssignServerFails(a) PROVE (Settled /\ Bounded)'
  BY <1>12 DEF AssignServerFails
<1>13. ASSUME NEW a \in Admins, Assigned(a) PROVE (Settled /\ Bounded)'
  BY <1>13 DEF Assigned
<1>14. CASE UNCHANGED vars
  BY <1>14 DEF vars
<1> HIDE DEF TypeOK, TargetExists, Settled, Bounded, Inductive
<1> QED
  BY <1>1, <1>2, <1>3, <1>4, <1>5, <1>6, <1>7, <1>8, <1>9, <1>10, <1>11, <1>12, <1>13, <1>14
     DEF Next, Edit, Save

\* The inductive invariant holds in every reachable state.
LEMMA InductiveInvariant == Spec => []Inductive
<1>1. Inductive /\ [Next]_vars => Inductive'
  BY TypeStep, SaveStep DEF Inductive
<1> QED
  BY InitInductive, <1>1, PTL DEF Spec

-----------------------------------------------------------------------------
\* The tables and the consoles keep their types; grants keep their foreign keys.
THEOREM TypeCorrect == Spec => []TypeOK
<1>1. Inductive => TypeOK
  BY DEF Inductive
<1> QED
  BY InductiveInvariant, <1>1, PTL

\* Menu, engine and console agree on every user.
THEOREM OneAnswer == Spec => []QueriesAgree
<1>1. ASSUME Inductive PROVE QueriesAgree
  <2>1. ASSUME NEW u \in users
        PROVE  queryAccessibleServers(u) = Reachable(u) /\ Selected(u) = Reachable(u)
    <3>1. u \in Users /\ inventory \subseteq Servers
      BY <1>1 DEF Inductive, TypeOK
    <3>2. Reachable(u) = {s \in inventory : Allowed(u, s)}
      BY <1>1, <3>1, ReachableIs DEF Inductive
    <3> QED
      BY <3>1, <3>2, MenuIs DEF queryAccessibleServers, Selected
  <2> QED
    BY <2>1 DEF QueriesAgree
<1> QED
  BY InductiveInvariant, <1>1, PTL

\* A save that reported success made exactly the ticked servers reachable.
THEOREM SavesAreExact == Spec => []SavedExact
<1>1. ASSUME Inductive PROVE SavedExact
  <2>1. ASSUME NEW a \in Admins, apc[a] = "saved", ~conflict[a], ~ignored[a]
        PROVE  Reachable(target[a]) \cap opts[a] = ticked[a]
    <3>1. target[a] \in Users /\ target[a] \in users /\ opts[a] \subseteq inventory
          /\ ticked[a] \subseteq opts[a]
      BY <1>1, <2>1 DEF Inductive, TypeOK, TargetExists, Saving
    <3>2. Reachable(target[a]) = {s \in inventory : Allowed(target[a], s)}
      BY <1>1, <3>1, ReachableIs DEF Inductive
    <3>3. \A s \in opts[a] : Allowed(target[a], s) <=> s \in ticked[a]
      BY <1>1, <2>1 DEF Inductive, Settled, Allowed
    <3> QED
      BY <3>1, <3>2, <3>3
  <2> QED
    BY <2>1 DEF SavedExact
<1> QED
  BY InductiveInvariant, <1>1, PTL

\* A save, complete or not, never opens a server that was neither reachable nor ticked.
THEOREM SavesNeverWiden == Spec => []NeverWidens
<1>1. ASSUME Inductive PROVE NeverWidens
  <2>1. ASSUME NEW a \in Admins, Saving(a), ~conflict[a]
        PROVE  Reachable(target[a]) \cap opts[a] \subseteq before[a] \cup ticked[a]
    <3>1. target[a] \in Users
      BY <1>1, <2>1 DEF Inductive, TypeOK, TargetExists
    <3>2. \A s \in Reachable(target[a]) : Allowed(target[a], s)
      BY <1>1, <3>1, ReachableIs DEF Inductive
    <3> QED
      BY <1>1, <2>1, <3>2 DEF Inductive, Bounded
  <2> QED
    BY <2>1 DEF NeverWidens, Saving
<1> QED
  BY InductiveInvariant, <1>1, PTL
=============================================================================
