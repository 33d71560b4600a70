--------------------------- MODULE ConsoleProofs ---------------------------
(***************************************************************************)
(* Proofs about Console for every set of users and of hosts, lists of any  *)
(* length and any number of generated keys.                                *)
(***************************************************************************)
EXTENDS Console, FiniteSetTheorems, TLAPS

\* What a screen relies on and an earlier one has set: the roles and the name of
\* a new user, where a viewer returns to, and that the goroutine that has sent
\* its Ctrl+C reads no more.
FlowInv ==
    /\ st = "Role" => listed >= 1 /\ name \in Users
    /\ st \in Viewers => back # "none"
    /\ stopCh => watcher = "off"

\* A provisioning under way has its host and a key older than any that is stored
\* for that host after its PutSecret; what another console will insert is in Vault.
ProvisionInv ==
    /\ nextKey > OwnKey
    /\ st \in {"Method", "Auto", "Paste"} \cup Steps => host \in Hosts
    /\ st \in Steps => key \in Keys /\ key < nextKey
    /\ st \in {"insert", "install"} => vault[host] >= key
    /\ \A h \in adding : vault[h] # NoKey

Inductive ==
    /\ TypeOK /\ FlowInv /\ ProvisionInv
    /\ CursorInRange /\ FormIsOfOneUser /\ OneReader /\ RowsHaveKeys

-----------------------------------------------------------------------------
(* The list of users.                                                      *)

LEMMA UsersFinite ==
  ASSUME NEW S \in SUBSET Users
  PROVE  IsFiniteSet(S) /\ Cardinality(S) \in Nat
BY ConsoleAssumption, FS_Subset, FS_CardinalityType, Zenon

(* Every position of the list holds a user: counting the smaller ones maps *)
(* the n users one to one to 0..n-1, hence onto it.                        *)
LEMMA NthInList ==
  ASSUME NEW S \in SUBSET Users, NEW i \in Nat, i < Cardinality(S)
  PROVE  Nth(S, i) \in S
<1> DEFINE Below(u) == {v \in S : v < u}
           n        == Cardinality(S)
           rank     == [u \in S |-> Cardinality(Below(u))]
<1>1. S \subseteq Nat /\ IsFiniteSet(S) /\ n \in Nat
  BY UsersFinite, ConsoleAssumption
<1>2. ASSUME NEW u \in S
      PROVE  /\ IsFiniteSet(Below(u)) /\ Cardinality(Below(u)) \in Nat
             /\ Cardinality(Below(u)) < n
  <2>1. Below(u) \in SUBSET S /\ Below(u) # S
    BY <1>1
  <2>2. IsFiniteSet(Below(u)) /\ Cardinality(Below(u)) <= n /\ Cardinality(Below(u)) # n
    BY <2>1, <1>1, FS_Subset
  <2>3. Cardinality(Below(u)) \in Nat
    BY <2>2, FS_CardinalityType
  <2> QED
    BY <1>1, <2>2, <2>3
<1>3. ASSUME NEW u \in S, NEW v \in S, u < v
      PROVE  Cardinality(Below(u)) # Cardinality(Below(v))
  <2>1. \A w \in S : w < u => w < v
    BY <1>1, <1>3
  <2>2. Below(u) \in SUBSET Below(v) /\ u \in Below(v)
    BY <1>3, <2>1
  <2>3. u \notin Below(u)
    BY <1>1
  <2> QED
    BY <1>2, <2>2, <2>3, FS_Subset, Zenon
<1>4. rank \in Injection(S, 0..(n - 1))
  <2>1. rank \in [S -> 0..(n - 1)]
    BY <1>1, <1>2
  <2>2. ASSUME NEW u \in S, NEW v \in S, rank[u] = rank[v] PROVE u = v
    <3>1. ~(u < v) /\ ~(v < u)
      BY <1>3, <2>2
    <3> QED
      BY <1>1, <3>1
  <2> QED
    BY <2>1, <2>2, Zenon DEF Injection, IsInjective
<1>5. IsFiniteSet(0..(n - 1)) /\ Cardinality(0..(n - 1)) = n
  <2> DEFINE m == n - 1
  <2>1. m \in Int
    BY <1>1
  <2> HIDE DEF m
  <2>2. /\ IsFiniteSet(0..m)
        /\ Cardinality(0..m) = IF 0 > m THEN 0 ELSE m - 0 + 1
    BY <2>1, FS_Interval
  <2> QED
    BY <1>1, <2>2 DEF m
<1>6. rank \in Surjection(S, 0..(n - 1))
  BY <1>4, <1>5, FS_Injection
<1>7. PICK u \in S : rank[u] = i
  <2>1. i \in 0..(n - 1)
    BY <1>1
  <2> HIDE DEF rank, n
  <2> QED
    BY <1>6, <2>1 DEF Surjection
<1>8. \E w \in S : Cardinality({v \in S : v < w}) = i
  BY <1>7
<1> QED
  BY <1>8 DEF Nth

-----------------------------------------------------------------------------
(* Types: the flags, then everything else.                                 *)

Flags ==
    /\ complete \in BOOLEAN /\ says \in BOOLEAN
    /\ stopCh \in BOOLEAN /\ gone \in BOOLEAN

LEMMA FlagStep ==
  ASSUME Flags, [Next]_vars
  PROVE  Flags'
<1> USE DEF Flags, Goto, Local, screen, form, prov, viewer, tables, secrets
<1>1. CASE Up \/ Down \/ MoveFocus \/ Edit
  BY <1>1, Zenon DEF Up, Down, MoveFocus, Edit
<1>2. CASE MainEnter
  BY <1>2, Zenon DEF MainEnter
<1>3. CASE Return
  BY <1>3, Zenon DEF Return
<1>4. CASE AuditReturn
  BY <1>4, Zenon DEF AuditReturn
<1>5. CASE Leave
  BY <1>5, Zenon DEF Leave, Close
<1>6. CASE SubmitUser
  BY <1>6, Zenon DEF SubmitUser
<1>7. CASE CreateUser
  BY <1>7, Zenon DEF CreateUser
<1>8. CASE CreateUserFails
  BY <1>8, Zenon DEF CreateUserFails
<1>9. CASE SelectUser
  BY <1>9, Zenon DEF SelectUser
<1>10. CASE SaveAccess
  BY <1>10, Zenon DEF SaveAccess
<1>11. CASE SkipAccess
  BY <1>11, Zenon DEF SkipAccess
<1>12. CASE SubmitServer
  BY <1>12, Zenon DEF SubmitServer
<1>13. CASE ChooseMethod
  BY <1>13, Zenon DEF ChooseMethod
<1>14. CASE StartSave
  BY <1>14, Zenon DEF StartSave, TakeKey
<1>15. CASE SelectAudit
  BY <1>15, Zenon DEF SelectAudit
<1>16. CASE OpenText
  BY <1>16, Zenon DEF OpenText
<1>17. CASE OpenRecording
  BY <1>17, Zenon DEF OpenRecording
<1>18. CASE PutSecret
  BY <1>18, Zenon DEF PutSecret
<1>19. CASE InsertServer
  BY <1>19, Zenon DEF InsertServer, Summarise
<1>20. CASE SaveFails
  BY <1>20, Zenon DEF SaveFails, Summarise
<1>21. CASE InstallKey
  BY <1>21, Zenon DEF InstallKey, Summarise
<1>22. CASE TextFails
  BY <1>22, Zenon DEF TextFails
<1>23. CASE PlayEnd
  BY <1>23, Zenon DEF PlayEnd
<1>24. CASE PlayStop
  BY <1>24, Zenon DEF PlayStop
<1>25. CASE Flush
  BY <1>25, Zenon DEF Flush
<1>26. CASE ReadFails
  BY <1>26, Zenon DEF ReadFails, Close
<1>27. CASE WatcherPoll
  BY <1>27, Zenon DEF WatcherPoll
<1>28. CASE WatcherRead
  BY <1>28, Zenon DEF WatcherRead
<1>29. CASE WatcherSend
  BY <1>29, Zenon DEF WatcherSend
<1>30. CASE TextCtrlC
  BY <1>30, Zenon DEF TextCtrlC
<1>31. CASE Reopen
  BY <1>31, Zenon DEF Reopen
<1>32. CASE Disconnect
  BY <1>32, Zenon DEF Disconnect
<1>33. CASE Others
  BY <1>33, Zenon DEF Others
<1>34. CASE UNCHANGED vars
  BY <1>34, Zenon DEF vars
<1> QED
  BY <1>1, <1>2, <1>3, <1>4, <1>5, <1>6, <1>7, <1>8, <1>9, <1>10, <1>11,
     <1>12, <1>13, <1>14, <1>15, <1>16, <1>17, <1>18, <1>19, <1>20, <1>21,
     <1>22, <1>23, <1>24, <1>25, <1>26, <1>27, <1>28, <1>29, <1>30, <1>31,
     <1>32, <1>33, <1>34, Zenon
     DEF Next, KeyPress, Proceed, Watch

Data ==
    /\ st \in Screens \cup Viewers \cup Steps \cup {"closed"}
    /\ idx \in Nat /\ focus \in 0..5
    /\ listed \in 0..MaxList /\ auditList \in 0..MaxList
    /\ name \in Users \cup {NoUser} /\ target \in Users \cup {NoUser}
    /\ ticksOf \in Users \cup {NoUser}
    /\ host \in Hosts \cup {NoHost} /\ key \in Keys \cup {NoKey}
    /\ how \in {"none", "manual", "auto", "paste"}
    /\ back \in {"none", "AuditServers", "AuditSessions"}
    /\ watcher \in {"off", "poll", "read", "got"}
    /\ users \in SUBSET Users /\ servers \in SUBSET Hosts
    /\ vault \in [Hosts -> Keys \cup {NoKey}]
    /\ installed \in [Hosts -> SUBSET Keys]
    /\ adding \in SUBSET Hosts /\ nextKey \in Nat

LEMMA DataStep ==
  ASSUME Data, FlowInv, ProvisionInv, [Next]_vars
  PROVE  Data'
<1> USE ConsoleAssumption
<1> USE DEF Data, Screens, Menus, Forms, Viewers, Steps, Keys, OwnKey, NoKey,
            Goto, Local, screen, form, prov, viewer, tables, secrets
<1>0. \A i \in Nat : i < Cardinality(users) => Nth(users, i) \in Users
  BY NthInList, Zenon
<1>1. CASE Up
  BY <1>1 DEF Up
<1>2. CASE Down
  BY <1>2 DEF Down
<1>3. CASE MoveFocus
  BY <1>3 DEF MoveFocus, LastField
<1>4. CASE Edit
  BY <1>4 DEF Edit
<1>5. CASE MainEnter
  BY <1>5 DEF MainEnter
<1>6. CASE Return
  BY <1>6 DEF Return
<1>7. CASE AuditReturn
  BY <1>7 DEF AuditReturn
<1>8. CASE Leave
  BY <1>8 DEF Leave, Close
<1>9. CASE SubmitUser
  BY <1>9 DEF SubmitUser
<1>10. CASE CreateUser
  BY <1>10 DEF CreateUser, FlowInv
<1>11. CASE CreateUserFails
  BY <1>11 DEF CreateUserFails
<1>12. CASE SelectUser
  BY <1>12, <1>0 DEF SelectUser
<1>13. CASE SaveAccess
  BY <1>13 DEF SaveAccess
<1>14. CASE SkipAccess
  BY <1>14 DEF SkipAccess
<1>15. CASE SubmitServer
  BY <1>15 DEF SubmitServer
<1>16. CASE ChooseMethod
  BY <1>16 DEF ChooseMethod
<1>17. CASE StartSave
  BY <1>17 DEF StartSave, TakeKey
<1>18. CASE SelectAudit
  BY <1>18 DEF SelectAudit
<1>19. CASE OpenText
  BY <1>19 DEF OpenText
<1>20. CASE OpenRecording
  BY <1>20 DEF OpenRecording
<1>21. CASE PutSecret
  BY <1>21 DEF PutSecret, ProvisionInv
<1>22. CASE InsertServer
  <2>1. CASE how = "auto"
    BY <1>22, <2>1, Zenon DEF InsertServer, ProvisionInv
  <2>2. CASE how # "auto"
    <3>1. host \in Hosts /\ servers' = servers \cup {host} /\ Summarise(FALSE)
          /\ UNCHANGED <<vault, installed>>
      BY <1>22, <2>2, Zenon DEF InsertServer, ProvisionInv
    <3> QED
      BY <3>1 DEF Summarise
  <2> QED
    BY <2>1, <2>2
<1>23. CASE SaveFails
  BY <1>23 DEF SaveFails, Summarise
<1>24. CASE InstallKey
  BY <1>24 DEF InstallKey, Summarise, ProvisionInv
<1>25. CASE TextFails
  BY <1>25 DEF TextFails, FlowInv
<1>26. CASE PlayEnd
  BY <1>26 DEF PlayEnd
<1>27. CASE PlayStop
  BY <1>27 DEF PlayStop
<1>28. CASE Flush
  BY <1>28 DEF Flush, FlowInv
<1>29. CASE ReadFails
  BY <1>29 DEF ReadFails, Close
<1>30. CASE WatcherPoll
  BY <1>30 DEF WatcherPoll
<1>31. CASE WatcherRead
  BY <1>31 DEF WatcherRead
<1>32. CASE WatcherSend
  BY <1>32 DEF WatcherSend
<1>33. CASE TextCtrlC
  BY <1>33 DEF TextCtrlC
<1>34. CASE Reopen
  BY <1>34 DEF Reopen
<1>35. CASE Disconnect
  BY <1>35 DEF Disconnect
<1>36. CASE Others
  <2>1. CASE /\ \E u \in Users \ users : users' = users \cup {u}
             /\ UNCHANGED <<servers, vault, adding, nextKey>>
    BY <1>36, <2>1 DEF Others
  <2>2. CASE /\ nextKey \in Keys
             /\ \E h \in Hosts : /\ vault' = [vault EXCEPT ![h] = nextKey]
                                 /\ adding' = adding \cup {h}
             /\ nextKey' = nextKey + 1
             /\ UNCHANGED tables
    BY <1>36, <2>2 DEF Others
  <2>3. CASE /\ \E h \in adding : /\ servers' = servers \cup {h}
                                  /\ adding' = adding \ {h}
             /\ UNCHANGED <<users, vault, nextKey>>
    BY <1>36, <2>3 DEF Others
  <2> QED
    BY <1>36, <2>1, <2>2, <2>3, Zenon DEF Others
<1>37. CASE UNCHANGED vars
  BY <1>37 DEF vars
<1> HIDE DEF Data
<1> QED
  BY <1>1, <1>2, <1>3, <1>4, <1>5, <1>6, <1>7, <1>8, <1>9, <1>10, <1>11,
     <1>12, <1>13, <1>14, <1>15, <1>16, <1>17, <1>18, <1>19, <1>20, <1>21,
     <1>22, <1>23, <1>24, <1>25, <1>26, <1>27, <1>28, <1>29, <1>30, <1>31,
     <1>32, <1>33, <1>34, <1>35, <1>36, <1>37
     DEF Next, KeyPress, Proceed, Watch

LEMMA TypeStep ==
  ASSUME TypeOK, FlowInv, ProvisionInv, [Next]_vars
  PROVE  TypeOK'
<1>1. TypeOK <=> Flags /\ Data
  BY DEF TypeOK, Flags, Data
<1>2. (TypeOK <=> Flags /\ Data)'
  BY Zenon DEF TypeOK, Flags, Data
<1> QED
  BY <1>1, <1>2, FlagStep, DataStep

-----------------------------------------------------------------------------
(* From screen to screen.                                                  *)

(* The second reader of the connection, and what a screen relies on.       *)
LEMMA FlowStep ==
  ASSUME TypeOK, FlowInv, OneReader, [Next]_vars
  PROVE  FlowInv' /\ OneReader'
<1>0. /\ st \in Screens \cup Viewers \cup Steps \cup {"closed"} /\ listed \in 0..MaxList
      /\ idx \in Nat
      /\ back \in {"none", "AuditServers", "AuditSessions"}
      /\ watcher \in {"off", "poll", "read", "got"}
  BY DEF TypeOK
<1> USE <1>0, ConsoleAssumption
<1> USE DEF FlowInv, OneReader, Screens, Menus, Forms, Viewers, Steps,
            Goto, Local, screen, form, prov, viewer, tables, secrets
<1>1. CASE Up
  BY <1>1 DEF Up
<1>2. CASE Down
  BY <1>2 DEF Down
<1>3. CASE MoveFocus
  BY <1>3 DEF MoveFocus
<1>4. CASE Edit
  BY <1>4 DEF Edit
<1>5. CASE MainEnter
  BY <1>5 DEF MainEnter
<1>6. CASE Return
  BY <1>6 DEF Return
<1>7. CASE AuditReturn
  BY <1>7 DEF AuditReturn
<1>8. CASE Leave
  BY <1>8 DEF Leave, Close
<1>9. CASE SubmitUser
  BY <1>9 DEF SubmitUser
<1>10. CASE CreateUser
  BY <1>10 DEF CreateUser
<1>11. CASE CreateUserFails
  BY <1>11 DEF CreateUserFails
<1>12. CASE SelectUser
  BY <1>12 DEF SelectUser
<1>13. CASE SaveAccess
  BY <1>13 DEF SaveAccess
<1>14. CASE SkipAccess
  BY <1>14 DEF SkipAccess
<1>15. CASE SubmitServer
  BY <1>15 DEF SubmitServer
<1>16. CASE ChooseMethod
  BY <1>16 DEF ChooseMethod
<1>17. CASE StartSave
  BY <1>17 DEF StartSave, TakeKey
<1>18. CASE SelectAudit
  BY <1>18 DEF SelectAudit
<1>19. CASE OpenText
  BY <1>19 DEF OpenText
<1>20. CASE OpenRecording
  BY <1>20 DEF OpenRecording
<1>21. CASE PutSecret
  BY <1>21 DEF PutSecret
<1>22. CASE InsertServer
  BY <1>22 DEF InsertServer, Summarise
<1>23. CASE SaveFails
  BY <1>23 DEF SaveFails, Summarise
<1>24. CASE InstallKey
  BY <1>24 DEF InstallKey, Summarise
<1>25. CASE TextFails
  BY <1>25 DEF TextFails
<1>26. CASE PlayEnd
  BY <1>26 DEF PlayEnd
<1>27. CASE PlayStop
  BY <1>27 DEF PlayStop
<1>28. CASE Flush
  BY <1>28 DEF Flush
<1>29. CASE ReadFails
  BY <1>29 DEF ReadFails, Close
<1>30. CASE WatcherPoll
  BY <1>30 DEF WatcherPoll
<1>31. CASE WatcherRead
  BY <1>31 DEF WatcherRead
<1>32. CASE WatcherSend
  BY <1>32 DEF WatcherSend
<1>33. CASE TextCtrlC
  BY <1>33 DEF TextCtrlC
<1>34. CASE Reopen
  BY <1>34 DEF Reopen
<1>35. CASE Disconnect
  BY <1>35 DEF Disconnect
<1>36. CASE Others
  BY <1>36 DEF Others
<1>37. CASE UNCHANGED vars
  BY <1>37 DEF vars
<1> HIDE DEF FlowInv, OneReader
<1> QED
  BY <1>1, <1>2, <1>3, <1>4, <1>5, <1>6, <1>7, <1>8, <1>9, <1>10, <1>11,
     <1>12, <1>13, <1>14, <1>15, <1>16, <1>17, <1>18, <1>19, <1>20, <1>21,
     <1>22, <1>23, <1>24, <1>25, <1>26, <1>27, <1>28, <1>29, <1>30, <1>31,
     <1>32, <1>33, <1>34, <1>35, <1>36, <1>37
     DEF Next, KeyPress, Proceed, Watch

(* Vault, the servers table and the provisioning under way.                *)
LEMMA ProvisionStep ==
  ASSUME TypeOK, FlowInv, ProvisionInv, RowsHaveKeys, [Next]_vars
  PROVE  ProvisionInv' /\ RowsHaveKeys'
<1>0. /\ st \in Screens \cup Viewers \cup Steps \cup {"closed"}
      /\ idx \in Nat
      /\ host \in Hosts \cup {NoHost} /\ key \in Keys \cup {NoKey}
      /\ back \in {"none", "AuditServers", "AuditSessions"}
      /\ st \in Viewers => back # "none"
      /\ servers \in SUBSET Hosts /\ adding \in SUBSET Hosts
      /\ vault \in [Hosts -> Keys \cup {NoKey}] /\ nextKey \in Nat
  BY Zenon DEF TypeOK, FlowInv
<1> USE <1>0, ConsoleAssumption
<1> USE DEF ProvisionInv, RowsHaveKeys, Screens, Menus, Forms, Viewers, Steps, Keys,
            OwnKey, NoKey, Goto, Local, screen, form, prov, viewer, tables, secrets
<1>1. CASE Up \/ Down \/ MoveFocus \/ Edit
  BY <1>1 DEF Up, Down, MoveFocus, Edit
<1>2. CASE MainEnter
  BY <1>2 DEF MainEnter
<1>3. CASE Return
  BY <1>3 DEF Return
<1>4. CASE AuditReturn
  BY <1>4 DEF AuditReturn
<1>5. CASE Leave
  BY <1>5 DEF Leave, Close
<1>6. CASE SubmitUser
  BY <1>6 DEF SubmitUser
<1>7. CASE CreateUser
  BY <1>7 DEF CreateUser
<1>8. CASE CreateUserFails
  BY <1>8 DEF CreateUserFails
<1>9. CASE SelectUser
  BY <1>9 DEF SelectUser
<1>10. CASE SaveAccess
  BY <1>10 DEF SaveAccess
<1>11. CASE SkipAccess
  BY <1>11 DEF SkipAccess
<1>12. CASE SubmitServer
  BY <1>12 DEF SubmitServer
<1>13. CASE ChooseMethod
  BY <1>13 DEF ChooseMethod
<1>14. CASE StartSave
  BY <1>14 DEF StartSave, TakeKey
<1>15. CASE SelectAudit
  BY <1>15 DEF SelectAudit
<1>16. CASE OpenText
  BY <1>16 DEF OpenText
<1>17. CASE OpenRecording
  BY <1>17 DEF OpenRecording
<1>18. CASE PutSecret
  BY <1>18 DEF PutSecret
<1>19. CASE InsertServer
  <2>1. CASE how = "auto"
    BY <1>19, <2>1 DEF InsertServer
  <2>2. CASE how # "auto"
    BY <1>19, <2>2 DEF InsertServer, Summarise
  <2> QED
    BY <2>1, <2>2
<1>20. CASE SaveFails
  BY <1>20 DEF SaveFails, Summarise
<1>21. CASE InstallKey
  BY <1>21 DEF InstallKey, Summarise
<1>22. CASE TextFails
  BY <1>22 DEF TextFails
<1>23. CASE PlayEnd
  BY <1>23, Zenon DEF PlayEnd
<1>24. CASE PlayStop
  BY <1>24 DEF PlayStop
<1>25. CASE Flush
  BY <1>25, Zenon DEF Flush
<1>26. CASE ReadFails
  BY <1>26, Zenon DEF ReadFails, Close
<1>27. CASE WatcherPoll
  BY <1>27, Zenon DEF WatcherPoll
<1>28. CASE WatcherRead
  BY <1>28 DEF WatcherRead
<1>29. CASE WatcherSend
  BY <1>29, Zenon DEF WatcherSend
<1>30. CASE TextCtrlC
  BY <1>30, Zenon DEF TextCtrlC
<1>31. CASE Reopen
  BY <1>31, Zenon DEF Reopen
<1>32. CASE Disconnect
  BY <1>32, Zenon DEF Disconnect
<1>33. CASE Others
  <2>1. CASE /\ \E u \in Users \ users : users' = users \cup {u}
             /\ UNCHANGED <<servers, vault, adding, nextKey>>
    BY <1>33, <2>1, Zenon DEF Others
  <2>2. CASE /\ nextKey \in Keys
             /\ \E h \in Hosts : /\ vault' = [vault EXCEPT ![h] = nextKey]
                                 /\ adding' = adding \cup {h}
             /\ nextKey' = nextKey + 1
             /\ UNCHANGED tables
    BY <1>33, <2>2 DEF Others
  <2>3. CASE /\ \E h \in adding : /\ servers' = servers \cup {h}
                                  /\ adding' = adding \ {h}
             /\ UNCHANGED <<users, vault, nextKey>>
    BY <1>33, <2>3, Zenon DEF Others
  <2> QED
    BY <1>33, <2>1, <2>2, <2>3, Zenon DEF Others
<1>34. CASE UNCHANGED vars
  BY <1>34, Zenon DEF vars
<1> HIDE DEF ProvisionInv, RowsHaveKeys
<1> QED
  BY <1>1, <1>2, <1>3, <1>4, <1>5, <1>6, <1>7, <1>8, <1>9, <1>10, <1>11,
     <1>12, <1>13, <1>14, <1>15, <1>16, <1>17, <1>18, <1>19, <1>20, <1>21,
     <1>22, <1>23, <1>24, <1>25, <1>26, <1>27, <1>28, <1>29, <1>30, <1>31,
     <1>32, <1>33, <1>34
     DEF Next, KeyPress, Proceed, Watch

(* The cursor.                                                             *)
LEMMA CursorStep ==
  ASSUME TypeOK, FlowInv, CursorInRange, [Next]_vars
  PROVE  CursorInRange'
<1>0. /\ st \in Screens \cup Viewers \cup Steps \cup {"closed"}
      /\ idx \in Nat /\ listed \in 0..MaxList /\ auditList \in 0..MaxList
      /\ back \in {"none", "AuditServers", "AuditSessions"}
      /\ st \in Viewers => back # "none"
      /\ Cardinality(users) \in Nat /\ Cardinality({}) = 0
  BY UsersFinite, FS_EmptySet DEF TypeOK, FlowInv
<1> USE <1>0, ConsoleAssumption
<1> USE DEF CursorInRange, LastEntry, Screens, Menus, Forms, Viewers, Steps, Rows,
            Goto, Local, screen, form, prov, viewer, tables, secrets
<1>1. CASE Up
  BY <1>1 DEF Up
<1>2. CASE Down
  <2>1. PICK rows \in {users, {}} : idx < LastEntry(rows)
    BY <1>2, Zenon DEF Down
  <2>2. st' = st /\ idx' = idx + 1 /\ st \in Menus
        /\ UNCHANGED <<listed, auditList, users>>
    BY <1>2 DEF Down
  <2>3. CASE st = "SelectUser"
    <3>1. LastEntry(rows) = Cardinality(rows) /\ LastEntry(users)' = Cardinality(users)
      BY <2>2, <2>3
    <3> HIDE DEF LastEntry
    <3>2. idx + 1 <= Cardinality(users)
      <4>1. CASE rows = users
        BY <2>1, <3>1, <4>1
      <4>2. CASE rows = {}
        BY <2>1, <3>1, <4>2
      <4> QED
        BY <2>1, <4>1, <4>2
    <3> QED
      BY <2>2, <3>1, <3>2
  <2>4. CASE st # "SelectUser"
    BY <2>1, <2>2, <2>4
  <2> QED
    BY <2>3, <2>4
<1>3. CASE MoveFocus
  BY <1>3 DEF MoveFocus
<1>4. CASE Edit
  BY <1>4 DEF Edit
<1>5. CASE MainEnter
  BY <1>5 DEF MainEnter
<1>6. CASE Return
  BY <1>6 DEF Return
<1>7. CASE AuditReturn
  BY <1>7 DEF AuditReturn
<1>8. CASE Leave
  BY <1>8 DEF Leave, Close
<1>9. CASE SubmitUser
  BY <1>9 DEF SubmitUser
<1>10. CASE CreateUser
  BY <1>10 DEF CreateUser
<1>11. CASE CreateUserFails
  BY <1>11 DEF CreateUserFails
<1>12. CASE SelectUser
  BY <1>12 DEF SelectUser
<1>13. CASE SaveAccess
  BY <1>13 DEF SaveAccess
<1>14. CASE SkipAccess
  BY <1>14 DEF SkipAccess
<1>15. CASE SubmitServer
  BY <1>15 DEF SubmitServer
<1>16. CASE ChooseMethod
  BY <1>16 DEF ChooseMethod
<1>17. CASE StartSave
  BY <1>17 DEF StartSave, TakeKey
<1>18. CASE SelectAudit
  BY <1>18 DEF SelectAudit
<1>19. CASE OpenText
  BY <1>19 DEF OpenText
<1>20. CASE OpenRecording
  BY <1>20 DEF OpenRecording
<1>21. CASE PutSecret
  BY <1>21 DEF PutSecret
<1>22. CASE InsertServer
  BY <1>22 DEF InsertServer, Summarise
<1>23. CASE SaveFails
  BY <1>23 DEF SaveFails, Summarise
<1>24. CASE InstallKey
  BY <1>24 DEF InstallKey, Summarise
<1>25. CASE TextFails
  BY <1>25 DEF TextFails
<1>26. CASE PlayEnd
  BY <1>26 DEF PlayEnd
<1>27. CASE PlayStop
  BY <1>27 DEF PlayStop
<1>28. CASE Flush
  BY <1>28 DEF Flush
<1>29. CASE ReadFails
  BY <1>29 DEF ReadFails, Close
<1>30. CASE WatcherPoll
  BY <1>30 DEF WatcherPoll
<1>31. CASE WatcherRead
  BY <1>31 DEF WatcherRead
<1>32. CASE WatcherSend
  BY <1>32 DEF WatcherSend
<1>33. CASE TextCtrlC
  BY <1>33 DEF TextCtrlC
<1>34. CASE Reopen
  BY <1>34 DEF Reopen
<1>35. CASE Disconnect
  BY <1>35 DEF Disconnect
<1>36. CASE Others
  <2>1. /\ UNCHANGED <<st, idx, listed, auditList>>
        /\ users' = users \/ \E u \in Users : users' = users \cup {u}
    BY <1>36 DEF Others
  <2>2. Cardinality(users') \in Nat /\ Cardinality(users) <= Cardinality(users')
    BY <2>1, UsersFinite, FS_AddElement DEF TypeOK
  <2> QED
    BY <2>1, <2>2
<1>37. CASE UNCHANGED vars
  BY <1>37 DEF vars
<1> HIDE DEF CursorInRange
<1> QED
  BY <1>1, <1>2, <1>3, <1>4, <1>5, <1>6, <1>7, <1>8, <1>9, <1>10, <1>11,
     <1>12, <1>13, <1>14, <1>15, <1>16, <1>17, <1>18, <1>19, <1>20, <1>21,
     <1>22, <1>23, <1>24, <1>25, <1>26, <1>27, <1>28, <1>29, <1>30, <1>31,
     <1>32, <1>33, <1>34, <1>35, <1>36, <1>37, Zenon
     DEF Next, KeyPress, Proceed, Watch

(* The form of a user's access.                                            *)
LEMMA FormStep ==
  ASSUME TypeOK, FlowInv, FormIsOfOneUser, [Next]_vars
  PROVE  FormIsOfOneUser'
<1>0. /\ st \in Screens \cup Viewers \cup Steps \cup {"closed"}
      /\ back \in {"none", "AuditServers", "AuditSessions"}
      /\ \A i \in Nat : i < Cardinality(users) => Nth(users, i) \in users
      /\ idx \in Nat
  BY NthInList, Zenon DEF TypeOK
<1> USE <1>0, ConsoleAssumption
<1> USE DEF FormIsOfOneUser, Screens, Menus, Forms, Viewers, Steps,
            Goto, Local, screen, form, prov, viewer, tables, secrets
<1>1. CASE Up
  BY <1>1 DEF Up
<1>2. CASE Down
  BY <1>2 DEF Down
<1>3. CASE MoveFocus
  BY <1>3 DEF MoveFocus
<1>4. CASE Edit
  BY <1>4 DEF Edit
<1>5. CASE MainEnter
  BY <1>5 DEF MainEnter
<1>6. CASE Return
  BY <1>6 DEF Return
<1>7. CASE AuditReturn
  BY <1>7 DEF AuditReturn
<1>8. CASE Leave
  BY <1>8 DEF Leave, Close
<1>9. CASE SubmitUser
  BY <1>9 DEF SubmitUser
<1>10. CASE CreateUser
  BY <1>10 DEF CreateUser
<1>11. CASE CreateUserFails
  BY <1>11 DEF CreateUserFails
<1>12. CASE SelectUser
  BY <1>12 DEF SelectUser
<1>13. CASE SaveAccess
  BY <1>13 DEF SaveAccess
<1>14. CASE SkipAccess
  BY <1>14 DEF SkipAccess
<1>15. CASE SubmitServer
  BY <1>15 DEF SubmitServer
<1>16. CASE ChooseMethod
  BY <1>16 DEF ChooseMethod
<1>17. CASE StartSave
  BY <1>17 DEF StartSave, TakeKey
<1>18. CASE SelectAudit
  BY <1>18 DEF SelectAudit
<1>19. CASE OpenText
  BY <1>19 DEF OpenText
<1>20. CASE OpenRecording
  BY <1>20 DEF OpenRecording
<1>21. CASE PutSecret
  BY <1>21 DEF PutSecret
<1>22. CASE InsertServer
  BY <1>22 DEF InsertServer, Summarise
<1>23. CASE SaveFails
  BY <1>23 DEF SaveFails, Summarise
<1>24. CASE InstallKey
  BY <1>24 DEF InstallKey, Summarise
<1>25. CASE TextFails
  BY <1>25 DEF TextFails
<1>26. CASE PlayEnd
  BY <1>26 DEF PlayEnd
<1>27. CASE PlayStop
  BY <1>27 DEF PlayStop
<1>28. CASE Flush
  BY <1>28 DEF Flush
<1>29. CASE ReadFails
  BY <1>29 DEF ReadFails, Close
<1>30. CASE WatcherPoll
  BY <1>30 DEF WatcherPoll
<1>31. CASE WatcherRead
  BY <1>31 DEF WatcherRead
<1>32. CASE WatcherSend
  BY <1>32 DEF WatcherSend
<1>33. CASE TextCtrlC
  BY <1>33 DEF TextCtrlC
<1>34. CASE Reopen
  BY <1>34, Zenon DEF Reopen
<1>35. CASE Disconnect
  BY <1>35, Zenon DEF Disconnect
<1>36. CASE Others
  BY <1>36, Zenon DEF Others
<1>37. CASE UNCHANGED vars
  BY <1>37 DEF vars
<1> HIDE DEF FormIsOfOneUser
<1> QED
  BY <1>1, <1>2, <1>3, <1>4, <1>5, <1>6, <1>7, <1>8, <1>9, <1>10, <1>11,
     <1>12, <1>13, <1>14, <1>15, <1>16, <1>17, <1>18, <1>19, <1>20, <1>21,
     <1>22, <1>23, <1>24, <1>25, <1>26, <1>27, <1>28, <1>29, <1>30, <1>31,
     <1>32, <1>33, <1>34, <1>35, <1>36, <1>37, Zenon
     DEF Next, KeyPress, Proceed, Watch

-----------------------------------------------------------------------------
(* The theorems.                                                           *)

LEMMA InductiveInvariant == Spec => []Inductive
<1>1. Init => Inductive
  <2> SUFFICES ASSUME Init PROVE Inductive
    OBVIOUS
  <2> USE ConsoleAssumption DEF Init
  <2>1. TypeOK
    <3>1. Flags
      BY DEF Flags
    <3>2. Data
      BY DEF Data, Screens, Menus, Keys, OwnKey, NoKey
    <3> QED
      BY <3>1, <3>2 DEF TypeOK, Flags, Data
  <2>2. FlowInv /\ OneReader /\ FormIsOfOneUser
    BY Zenon DEF FlowInv, OneReader, FormIsOfOneUser, Viewers
  <2>3. ProvisionInv /\ RowsHaveKeys
    BY DEF ProvisionInv, RowsHaveKeys, Steps, OwnKey
  <2>4. CursorInRange
    BY DEF CursorInRange, LastEntry
  <2> QED
    BY <2>1, <2>2, <2>3, <2>4 DEF Inductive
<1>2. Inductive /\ [Next]_vars => Inductive'
  BY TypeStep, FlowStep, ProvisionStep, CursorStep, FormStep DEF Inductive
<1> QED
  BY <1>1, <1>2, PTL DEF Spec

(* The locals of handleAdminConsole, the tables and Vault keep their types *)
(* through every screen, viewer and provisioning.                          *)
THEOREM TypeCorrect == Spec => []TypeOK
BY InductiveInvariant, PTL DEF Inductive

(* menuIndex is a position of the list on the screen after every key,      *)
(* however long the lists are, whichever queries fail, and although other  *)
(* consoles add users meanwhile.                                           *)
THEOREM CursorStaysInRange == Spec => []CursorInRange
BY InductiveInvariant, PTL DEF Inductive

(* The access form saves for the user whose name and grants it shows,      *)
(* whether it was reached from createUser or by a position in a list that  *)
(* has been read again since it was drawn.                                 *)
THEOREM FormHasOneUser == Spec => []FormIsOfOneUser
BY InductiveInvariant, PTL DEF Inductive

(* The Ctrl+C goroutine of playTTYRec never reads the connection while the *)
(* menus or flushConn do.                                                  *)
THEOREM ReaderIsAlone == Spec => []OneReader
BY InductiveInvariant, PTL DEF Inductive

(* No failed or interleaved provisioning of any number of consoles leaves  *)
(* a servers row without a key in Vault.                                   *)
THEOREM ServersHaveKeys == Spec => []RowsHaveKeys
BY InductiveInvariant, PTL DEF Inductive

(* Success is reported only by a step after which the key that sessions    *)
(* will fetch is installed, or has been replaced by another console, for   *)
(* every number of hosts.                                                  *)
THEOREM SuccessIsTrue == Spec => ProvisionedWorks
<1>1. Inductive /\ [Next]_vars =>
        [st = "install" /\ st' = "Summary" /\ says' =>
            vault'[host] \in installed'[host] \/ vault'[host] > key]_vars
  <2> SUFFICES ASSUME Inductive, [Next]_vars, st = "install", st' = "Summary", says'
               PROVE  vault'[host] \in installed'[host] \/ vault'[host] > key
    OBVIOUS
  <2>1. InstallKey
    BY DEF Next, KeyPress, Proceed, Watch, vars, Up, Down, MoveFocus, Edit, MainEnter,
       Return, AuditReturn, Leave, SubmitUser, CreateUser, CreateUserFails, SelectUser,
       SaveAccess, SkipAccess, SubmitServer, ChooseMethod, StartSave, SelectAudit,
       OpenText, OpenRecording, PutSecret, InsertServer, SaveFails, TextFails, PlayEnd,
       PlayStop, Flush, ReadFails, WatcherPoll, WatcherRead, WatcherSend, TextCtrlC,
       Reopen, Disconnect, Others, Menus, Forms, Screens
  <2>2. installed' = [installed EXCEPT ![host] = @ \cup {key}] /\ vault' = vault
    BY <2>1, Zenon DEF InstallKey, Summarise
  <2>3. /\ host \in Hosts /\ key \in Nat /\ vault[host] \in Nat /\ vault[host] >= key
        /\ installed \in [Hosts -> SUBSET Keys]
    BY DEF Inductive, TypeOK, ProvisionInv, Steps, Keys, OwnKey, NoKey
  <2>4. key \in installed'[host]
    BY <2>2, <2>3
  <2> QED
    BY <2>2, <2>3, <2>4
<1> QED
  BY <1>1, InductiveInvariant, PTL DEF Spec, ProvisionedWorks
=============================================================================
