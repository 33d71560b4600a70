-------------------------------- MODULE Auth --------------------------------
(***************************************************************************)
(* Authenticator.Authenticate under concurrent connections: the read of    *)
(* the users row, the lockout check, bcrypt, and the UPDATE that counts a  *)
(* failure or resets the count are separate steps, and the steps of        *)
(* different connection goroutines interleave.                             *)
(*                                                                         *)
(* Time is relative: a lock is kept as the time left until locked_until,   *)
(* and 0 means that the column is set but lies in the past.                *)
(***************************************************************************)
EXTENDS Integers, FiniteSets

CONSTANTS Users,       \* rows of the users table
          Unknown,     \* a username without a row
          Workers,     \* connection goroutines
          Threshold,   \* cfg.MaxFailedAttempts
          LockFor,     \* cfg.LockoutDuration
          MaxFailed,   \* bound on failed_attempts: no wrong password beyond it
          MaxDbFails   \* bound on failed database calls

ASSUME AuthAssumption ==
    /\ Unknown \notin Users
    /\ IsFiniteSet(Workers)
    /\ Threshold \in Nat \ {0} /\ LockFor \in Nat \ {0}
    /\ MaxFailed \in Nat /\ MaxDbFails \in Nat

VARIABLES
    failed,    \* users.failed_attempts
    locked,    \* users.locked_until: None or the time left
    wpc,       \* where a goroutine is in Authenticate
    user,      \* its username argument
    seen,      \* its local lockedUntil
    newCount,  \* its local newCount, as RETURNING gave it
    isLocked,  \* its local locked
    alerted,   \* history: fireSOCAlert was started for the lock in the row
    dbFails

rowVars == <<failed, locked>>
locals  == <<user, seen, newCount, isLocked>>
vars    == <<rowVars, wpc, locals, alerted, dbFails>>

None  == -1
Locks == {None} \cup 0..LockFor
PCs   == {"idle", "fetch", "check", "verify", "increment", "counted", "reset",
          "ok", "refused", "locked"}

\* lockedUntil.Valid && time.Now().UTC().Before(lockedUntil.Time)
Active(left) == left > 0

Init ==
    /\ failed   = [u \in Users |-> 0]
    /\ locked   = [u \in Users |-> None]
    /\ wpc      = [w \in Workers |-> "idle"]
    /\ user     = [w \in Workers |-> Unknown]
    /\ seen     = [w \in Workers |-> None]
    /\ newCount = [w \in Workers |-> 0]
    /\ isLocked = [w \in Workers |-> FALSE]
    /\ alerted  = [u \in Users |-> FALSE]
    /\ dbFails  = 0

-----------------------------------------------------------------------------
Goto(w, from, to) ==
    /\ wpc[w] = from
    /\ wpc' = [wpc EXCEPT ![w] = to]

DbFailure ==
    /\ dbFails < MaxDbFails
    /\ dbFails' = dbFails + 1

\* A connection calls Authenticate; a goroutine stands for one connection
\* after another.
Begin(w, name) ==
    /\ wpc[w] \in {"idle", "ok", "refused", "locked"}
    /\ wpc' = [wpc EXCEPT ![w] = "fetch"]
    /\ user'     = [user EXCEPT ![w] = name]
    /\ seen'     = [seen EXCEPT ![w] = None]
    /\ newCount' = [newCount EXCEPT ![w] = 0]
    /\ isLocked' = [isLocked EXCEPT ![w] = FALSE]
    /\ UNCHANGED <<rowVars, alerted, dbFails>>

\* SELECT ... WHERE username = $1.
Fetch(w) ==
    /\ user[w] \in Users
    /\ Goto(w, "fetch", "check")
    /\ seen' = [seen EXCEPT ![w] = locked[user[w]]]
    /\ UNCHANGED <<rowVars, user, newCount, isLocked, alerted, dbFails>>

\* sql.ErrNoRows, after the dummy bcrypt.
FetchUnknown(w) ==
    /\ user[w] = Unknown
    /\ Goto(w, "fetch", "refused")
    /\ UNCHANGED <<rowVars, locals, alerted, dbFails>>

FetchFails(w) ==
    /\ DbFailure
    /\ Goto(w, "fetch", "refused")
    /\ UNCHANGED <<rowVars, locals, alerted>>

\* Variant: the lockout is not checked before bcrypt.
CheckNothing(w) ==
    /\ Goto(w, "check", "verify")
    /\ UNCHANGED <<rowVars, locals, alerted, dbFails>>

\* Variant: an attempt on a locked account starts the lockout again.
CheckExtends(w) ==
    /\ Goto(w, "check", IF Active(seen[w]) THEN "locked" ELSE "verify")
    /\ locked' = [locked EXCEPT ![user[w]] = IF Active(seen[w]) THEN LockFor ELSE @]
    /\ UNCHANGED <<failed, locals, alerted, dbFails>>

\* The lockout check, on the value that was read.
Check(w) ==
    /\ Goto(w, "check", IF Active(seen[w]) THEN "locked" ELSE "verify")
    /\ UNCHANGED <<rowVars, locals, alerted, dbFails>>

\* bcrypt accepts or rejects the password.
Verify(w) ==
    /\ \/ Goto(w, "verify", "reset")
       \/ /\ Goto(w, "verify", "increment")
          /\ failed[user[w]] + Cardinality(Workers) <= MaxFailed
    /\ UNCHANGED <<rowVars, locals, alerted, dbFails>>

-----------------------------------------------------------------------------
(* atomicIncrementAndMaybeLock.                                            *)

\* Variant: locked_until IS NULL is missing from the CASE.
CountRelocks(u) ==
    /\ failed' = [failed EXCEPT ![u] = @ + 1]
    /\ locked' = [locked EXCEPT ![u] =
                    IF failed[u] + 1 >= Threshold THEN LockFor ELSE @]
    /\ alerted' = [alerted EXCEPT ![u] = @ /\ locked'[u] = locked[u]]

\* The row written by the UPDATE.
Count(u) ==
    /\ failed' = [failed EXCEPT ![u] = @ + 1]
    /\ locked' = [locked EXCEPT ![u] =
                    IF failed[u] + 1 >= Threshold /\ @ = None THEN LockFor ELSE @]
    /\ alerted' = [alerted EXCEPT ![u] = @ /\ locked'[u] = locked[u]]

\* Variant: the row is locked by a second statement, which is missing here.
IncrementOnly(w) ==
    LET u == user[w] IN
    /\ Goto(w, "increment", "counted")
    /\ failed' = [failed EXCEPT ![u] = @ + 1]
    /\ newCount' = [newCount EXCEPT ![w] = failed'[u]]
    /\ isLocked' = [isLocked EXCEPT ![w] = Active(locked[u])]
    /\ UNCHANGED <<locked, user, seen, alerted, dbFails>>

Increment(w) ==
    LET u == user[w] IN
    /\ Goto(w, "increment", "counted")
    /\ Count(u)
    /\ newCount' = [newCount EXCEPT ![w] = failed'[u]]
    /\ isLocked' = [isLocked EXCEPT ![w] = Active(locked'[u])]
    /\ UNCHANGED <<user, seen, dbFails>>

\* The call fails, before or after the server has executed it.
IncrementFails(w) ==
    /\ DbFailure
    /\ Goto(w, "increment", "refused")
    /\ \/ Count(user[w])
       \/ UNCHANGED <<rowVars, alerted>>
    /\ UNCHANGED locals

\* Variant: the alert is sent one failure late.
CountedLateAlert(w) ==
    /\ Goto(w, "counted", "refused")
    /\ alerted' = [alerted EXCEPT ![user[w]] = @ \/ newCount[w] > Threshold]
    /\ UNCHANGED <<rowVars, locals, dbFails>>

\* go fireSOCAlert, one POST without a retry, and Authenticate returns.
Counted(w) ==
    /\ Goto(w, "counted", "refused")
    /\ alerted' = [alerted EXCEPT ![user[w]] = @ \/ isLocked[w]]
    /\ UNCHANGED <<rowVars, locals, dbFails>>

-----------------------------------------------------------------------------
\* The UPDATE after a correct password.
ResetRow(u) ==
    /\ failed'  = [failed EXCEPT ![u] = 0]
    /\ locked'  = [locked EXCEPT ![u] = None]
    /\ alerted' = [alerted EXCEPT ![u] = FALSE]

Reset(w) ==
    /\ Goto(w, "reset", "ok")
    /\ ResetRow(user[w])
    /\ UNCHANGED <<locals, dbFails>>

\* A failed reset is logged; the login succeeds.
ResetFails(w) ==
    /\ DbFailure
    /\ Goto(w, "reset", "ok")
    /\ \/ ResetRow(user[w])
       \/ UNCHANGED <<rowVars, alerted>>
    /\ UNCHANGED locals

Elapse(left) == IF left > 0 THEN left - 1 ELSE left

Tick ==
    /\ locked' = [u \in Users |-> Elapse(locked[u])]
    /\ seen'   = [w \in Workers |-> Elapse(seen[w])]
    /\ UNCHANGED <<failed, wpc, user, newCount, isLocked, alerted, dbFails>>

Attempt(w) ==
    \/ Fetch(w) \/ FetchUnknown(w) \/ FetchFails(w) \/ Check(w) \/ Verify(w)
    \/ Increment(w) \/ IncrementFails(w) \/ Counted(w)
    \/ Reset(w) \/ ResetFails(w)

Next ==
    \/ \E w \in Workers : Attempt(w) \/ \E n \in Users \cup {Unknown} : Begin(w, n)
    \/ Tick

Spec == Init /\ [][Next]_vars
\* The clock runs, and every goroutine inside Authenticate goes on.
FairSpec == Spec /\ WF_vars(Tick) /\ \A w \in Workers : WF_vars(Attempt(w))

-----------------------------------------------------------------------------
(* The types of the state.                                                 *)
TypeOK ==
    /\ failed   \in [Users -> Nat]
    /\ locked   \in [Users -> Locks]
    /\ wpc      \in [Workers -> PCs]
    /\ user     \in [Workers -> Users \cup {Unknown}]
    /\ seen     \in [Workers -> Locks]
    /\ newCount \in [Workers -> Nat]
    /\ isLocked \in [Workers -> BOOLEAN]
    /\ alerted  \in [Users -> BOOLEAN]
    /\ dbFails  \in 0..MaxDbFails

(* The count and the lock agree: a row whose failed_attempts has reached   *)
(* the threshold has locked_until set, whichever goroutines counted, reset *)
(* or failed in between.                                                   *)
ThresholdSetsLock ==
    \A u \in Users : failed[u] >= Threshold => locked[u] # None

(* How many passwords can be tried: until a lock has expired, the wrong    *)
(* passwords counted and those verified but not yet counted are at most    *)
(* one short of the threshold plus one for each concurrent connection; the *)
(* lockout check that precedes bcrypt stops everyone else.                 *)
GuessesBounded ==
    \A u \in Users : locked[u] # 0 =>
        failed[u] + Cardinality({w \in Workers : user[w] = u /\ wpc[w] = "increment"})
            <= Threshold - 1 + Cardinality(Workers)

(* A lock that is set has been reported: fireSOCAlert was started for it   *)
(* or the goroutine that counted is about to, unless a database reply was  *)
(* lost.                                                                   *)
LockIsAlerted ==
    \A u \in Users : Active(locked[u]) /\ dbFails = 0 =>
        \/ alerted[u]
        \/ \E w \in Workers : wpc[w] = "counted" /\ user[w] = u /\ isLocked[w]

(* A running lock is never set anew: late failures of attempts that were   *)
(* under way do not prolong it ("only set on the exact crossing attempt"), *)
(* it runs out or a correct password clears it.                            *)
LockNotProlonged ==
    [][\A u \in Users : Active(locked[u]) => locked'[u] <= locked[u]]_vars

(* An account is not locked for ever: attempts made while a lock runs are  *)
(* refused and leave it alone.                                             *)
LocksExpire ==
    \A u \in Users : Active(locked[u]) ~> ~Active(locked[u])

-----------------------------------------------------------------------------
(* auth.go: "Fail2ban-style: 5 failures -> 15-minute lockout": a failure   *)
(* that is counted at or beyond the threshold finds the account locked.    *)
FailuresLock ==
    \A w \in Workers :
        wpc[w] = "counted" /\ newCount[w] >= Threshold => isLocked[w]
=============================================================================
