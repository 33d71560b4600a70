----------------------------- MODULE AuthProofs -----------------------------
(***************************************************************************)
(* Proofs about Auth for every number of accounts and of concurrent        *)
(* connections, every threshold and every lockout duration.                *)
(***************************************************************************)
EXTENDS Auth, FiniteSetTheorems, TLAPS

\* The goroutines that may still count a failure against u: they have read
\* the row and are not bound to find the lock that runs now.
Doomed(w) ==
    /\ wpc[w] = "check"
    /\ Active(locked[user[w]]) /\ seen[w] >= locked[user[w]]

Pending(u) == {w \in Workers : /\ user[w] = u
                               /\ wpc[w] \in {"check", "verify", "increment"}
                               /\ ~Doomed(w)}

\* A goroutine past the SELECT works on a row.
RowFound ==
    \A w \in Workers :
        wpc[w] \in {"check", "verify", "increment", "counted", "reset"}
            => user[w] \in Users

GuessInv ==
    \A u \in Users : locked[u] # 0 =>
        failed[u] + Cardinality(Pending(u)) <= Threshold - 1 + Cardinality(Workers)

Inductive == TypeOK /\ RowFound /\ ThresholdSetsLock /\ GuessInv /\ LockIsAlerted

LEMMA PendingFinite ==
  ASSUME NEW u
  PROVE  /\ Cardinality(Pending(u)) \in Nat
         /\ Cardinality(Workers) \in Nat
         /\ Cardinality(Pending(u)) <= Cardinality(Workers)
         /\ IsFiniteSet(Pending(u))
<1>1. Pending(u) \in SUBSET Workers
  BY DEF Pending
<1>2. IsFiniteSet(Workers)
  BY AuthAssumption
<1>3. IsFiniteSet(Pending(u)) /\ Cardinality(Pending(u)) <= Cardinality(Workers)
  BY <1>1, <1>2, FS_Subset
<1> QED
  BY <1>2, <1>3, FS_CardinalityType

-----------------------------------------------------------------------------
(* Types, and the agreement of count and lock.                             *)

LEMMA TypeStep ==
  ASSUME TypeOK, RowFound, [Next]_vars
  PROVE  TypeOK' /\ RowFound'
<1> USE AuthAssumption
    DEF TypeOK, RowFound, PCs, Locks, None, Active, Goto, DbFailure, rowVars, locals
<1>1. ASSUME NEW w \in Workers, NEW name \in Users \cup {Unknown}, Begin(w, name)
      PROVE  TypeOK' /\ RowFound'
  BY <1>1, Zenon DEF Begin
<1>2. ASSUME NEW w \in Workers, Attempt(w)
      PROVE  TypeOK' /\ RowFound'
  <2>1. CASE Fetch(w)
    BY <2>1 DEF Fetch
  <2>2. CASE FetchUnknown(w)
    BY <2>2 DEF FetchUnknown
  <2>3. CASE FetchFails(w)
    BY <2>3 DEF FetchFails
  <2>4. CASE Check(w)
    BY <2>4 DEF Check
  <2>5. CASE Verify(w)
    BY <2>5 DEF Verify
  <2>6. CASE Increment(w)
    BY <2>6 DEF Increment, Count
  <2>7. CASE IncrementFails(w)
    <3>1. CASE Count(user[w])
      BY <2>7, <3>1 DEF IncrementFails, Count
    <3>2. CASE UNCHANGED <<rowVars, alerted>>
      BY <2>7, <3>2 DEF IncrementFails
    <3> QED
      BY <2>7, <3>1, <3>2 DEF IncrementFails
  <2>8. CASE Counted(w)
    BY <2>8 DEF Counted
  <2>9. CASE Reset(w)
    BY <2>9 DEF Reset, ResetRow
  <2>10. CASE ResetFails(w)
    <3>1. CASE ResetRow(user[w])
      BY <2>10, <3>1 DEF ResetFails, ResetRow
    <3>2. CASE UNCHANGED <<rowVars, alerted>>
      BY <2>10, <3>2 DEF ResetFails
    <3> QED
      BY <2>10, <3>1, <3>2 DEF ResetFails
  <2> QED
    BY <1>2, <2>1, <2>2, <2>3, <2>4, <2>5, <2>6, <2>7, <2>8, <2>9, <2>10, Zenon
       DEF Attempt
<1>3. CASE Tick
  BY <1>3 DEF Tick, Elapse
<1>4. CASE UNCHANGED vars
  BY <1>4, Zenon DEF vars
<1> QED
  BY <1>1, <1>2, <1>3, <1>4 DEF Next

\* What a step may do to one row: nothing, count, reset, or let time pass.
RowStep(u) ==
    \/ failed'[u] = failed[u] /\ locked'[u] = locked[u]
    \/ /\ failed'[u] = failed[u] + 1
       /\ locked'[u] = IF failed[u] + 1 >= Threshold /\ locked[u] = None
                       THEN LockFor ELSE locked[u]
    \/ failed'[u] = 0 /\ locked'[u] = None
    \/ failed'[u] = failed[u] /\ locked'[u] = Elapse(locked[u])

LEMMA RowSteps ==
  ASSUME TypeOK, RowFound, [Next]_vars, NEW u \in Users
  PROVE  RowStep(u)
<1> USE DEF TypeOK, RowFound, RowStep, Goto, rowVars
<1>1. ASSUME NEW w \in Workers, NEW name, Begin(w, name) PROVE RowStep(u)
  BY <1>1, Zenon DEF Begin
<1>2. ASSUME NEW w \in Workers, Attempt(w) PROVE RowStep(u)
  <2>1. CASE Fetch(w) \/ FetchUnknown(w) \/ FetchFails(w) \/ Check(w)
               \/ Verify(w) \/ Counted(w)
    BY <2>1 DEF Fetch, FetchUnknown, FetchFails, Check, Verify, Counted
  <2>2. CASE Increment(w) \/ IncrementFails(w)
    BY <2>2 DEF Increment, IncrementFails, Count
  <2>3. CASE Reset(w) \/ ResetFails(w)
    BY <2>3 DEF Reset, ResetFails, ResetRow
  <2> QED
    BY <1>2, <2>1, <2>2, <2>3 DEF Attempt
<1>3. CASE Tick
  BY <1>3 DEF Tick
<1>4. CASE UNCHANGED vars
  BY <1>4 DEF vars
<1> QED
  BY <1>1, <1>2, <1>3, <1>4 DEF Next

LEMMA ThresholdStep ==
  ASSUME TypeOK, RowFound, ThresholdSetsLock, [Next]_vars
  PROVE  ThresholdSetsLock'
<1> SUFFICES ASSUME NEW u \in Users PROVE failed'[u] >= Threshold => locked'[u] # None
  BY DEF ThresholdSetsLock
<1>1. RowStep(u)
  BY RowSteps
<1> QED
  BY <1>1, AuthAssumption
     DEF RowStep, ThresholdSetsLock, TypeOK, Locks, None, Elapse

-----------------------------------------------------------------------------
(* The number of guesses.                                                  *)

\* While a lock runs nobody joins Pending, and who counts leaves it.
Shrinks(u) ==
    \/ failed'[u] = failed[u] /\ Pending(u)' \subseteq Pending(u)
    \/ \E w \in Pending(u) :
          failed'[u] = failed[u] + 1 /\ Pending(u)' \subseteq Pending(u) \ {w}

LEMMA PendingShrinks ==
  ASSUME TypeOK, RowFound, [Next]_vars, NEW u \in Users, Active(locked'[u])
  PROVE  locked[u] # 0 /\ Shrinks(u)
<1> USE AuthAssumption
    DEF TypeOK, RowFound, Locks, None, Active, Goto, DbFailure, rowVars, locals,
        Pending, Doomed
<1>1. locked[u] # 0
  BY RowSteps DEF RowStep, Elapse
<1>2. ASSUME NEW w \in Workers, NEW name, Begin(w, name) PROVE Shrinks(u)
  BY <1>2, Zenon DEF Begin, Shrinks
<1>3. ASSUME NEW w \in Workers, Attempt(w) PROVE Shrinks(u)
  <2>1. CASE Fetch(w)
    BY <2>1 DEF Fetch, Shrinks
  <2>2. CASE FetchUnknown(w)
    BY <2>2 DEF FetchUnknown, Shrinks
  <2>3. CASE FetchFails(w)
    BY <2>3 DEF FetchFails, Shrinks
  <2>4. CASE Check(w)
    BY <2>4 DEF Check, Shrinks
  <2>5. CASE Verify(w)
    BY <2>5 DEF Verify, Shrinks
  <2>6. CASE Increment(w)
    BY <1>1, <2>6 DEF Increment, Count, Shrinks
  <2>7. CASE IncrementFails(w)
    BY <1>1, <2>7 DEF IncrementFails, Count, Shrinks
  <2>8. CASE Counted(w)
    BY <2>8 DEF Counted, Shrinks
  <2>9. CASE Reset(w)
    BY <2>9 DEF Reset, ResetRow, Shrinks
  <2>10. CASE ResetFails(w)
    BY <2>10 DEF ResetFails, ResetRow, Shrinks
  <2> QED
    BY <1>3, <2>1, <2>2, <2>3, <2>4, <2>5, <2>6, <2>7, <2>8, <2>9, <2>10, Zenon
       DEF Attempt
<1>4. CASE Tick
  BY <1>4 DEF Tick, Elapse, Shrinks
<1>5. CASE UNCHANGED vars
  BY <1>5 DEF vars, Shrinks
<1> QED
  BY <1>1, <1>2, <1>3, <1>4, <1>5 DEF Next

LEMMA GuessStep ==
  ASSUME Inductive, [Next]_vars
  PROVE  GuessInv'
<1> USE AuthAssumption
<1>1. TypeOK' /\ ThresholdSetsLock'
  BY TypeStep, ThresholdStep DEF Inductive
<1> SUFFICES ASSUME NEW u \in Users, locked'[u] # 0
             PROVE  failed'[u] + Cardinality(Pending(u)')
                        <= Threshold - 1 + Cardinality(Workers)
  BY DEF GuessInv
<1> DEFINE Old == Pending(u)
           New == Pending(u)'
<1>2. New \in SUBSET Workers
  BY DEF Pending
<1>3. /\ Cardinality(New) \in Nat /\ Cardinality(Workers) \in Nat
      /\ Cardinality(New) <= Cardinality(Workers)
      /\ IsFiniteSet(Old) /\ Cardinality(Old) \in Nat
  BY <1>2, PendingFinite, FS_Subset, FS_CardinalityType
<1>4. failed'[u] \in Nat /\ failed[u] \in Nat
  BY <1>1 DEF Inductive, TypeOK
<1>5. CASE locked'[u] = None
  <2>1. failed'[u] < Threshold
    BY <1>1, <1>4, <1>5 DEF ThresholdSetsLock
  <2> QED
    BY <2>1, <1>3, <1>4
<1>6. CASE Active(locked'[u])
  <2>1. locked[u] # 0 /\ Shrinks(u)
    BY <1>6, PendingShrinks DEF Inductive
  <2>2. failed[u] + Cardinality(Old) <= Threshold - 1 + Cardinality(Workers)
    BY <2>1 DEF Inductive, GuessInv
  <2>3. CASE failed'[u] = failed[u] /\ New \subseteq Old
    <3>1. Cardinality(New) <= Cardinality(Old)
      BY <2>3, <1>3, FS_Subset
    <3> QED
      BY <3>1, <2>2, <2>3, <1>3, <1>4
  <2>4. ASSUME NEW w \in Old, failed'[u] = failed[u] + 1, New \subseteq Old \ {w}
        PROVE  failed'[u] + Cardinality(New) <= Threshold - 1 + Cardinality(Workers)
    <3>1. IsFiniteSet(Old \ {w}) /\ Cardinality(Old \ {w}) = Cardinality(Old) - 1
      BY <1>3, <2>4, FS_RemoveElement
    <3>2. Cardinality(New) <= Cardinality(Old \ {w})
      BY <2>4, <3>1, FS_Subset
    <3> QED
      BY <3>1, <3>2, <2>2, <2>4, <1>3, <1>4
  <2> QED
    BY <2>1, <2>3, <2>4 DEF Shrinks
<1>7. locked'[u] = None \/ Active(locked'[u])
  BY <1>1 DEF TypeOK, Locks, None, Active
<1> QED
  BY <1>5, <1>6, <1>7

-----------------------------------------------------------------------------
(* The alert.                                                              *)

\* The goroutine that counts answers for the lock it finds or sets; it leaves
\* "counted" only by starting the alert.
Reported(u) ==
    \/ alerted[u]
    \/ \E w \in Workers : wpc[w] = "counted" /\ user[w] = u /\ isLocked[w]

LEMMA AlertStep ==
  ASSUME TypeOK, RowFound, LockIsAlerted, [Next]_vars
  PROVE  LockIsAlerted'
<1> SUFFICES ASSUME NEW u \in Users, Active(locked'[u]), dbFails' = 0
             PROVE  Reported(u)'
  BY DEF LockIsAlerted, Reported
<1>1. TypeOK'
  BY TypeStep, Zenon
<1>2. dbFails = 0 /\ ~DbFailure
  BY <1>1, AuthAssumption DEF TypeOK, DbFailure, Next, Begin, Attempt, Fetch,
     FetchUnknown, FetchFails, Check, Verify, Increment, IncrementFails, Counted,
     Reset, ResetFails, Tick, vars
<1>3. Active(locked[u]) => Reported(u)
  BY <1>2 DEF LockIsAlerted, Reported
<1> USE DEF TypeOK, RowFound, PCs, Goto, rowVars, locals
<1>4. ASSUME NEW w \in Workers, NEW name, Begin(w, name) PROVE Reported(u)'
  BY <1>3, <1>4 DEF Begin, Reported
<1>5. ASSUME NEW w \in Workers, Attempt(w) PROVE Reported(u)'
  <2>1. CASE Fetch(w)
    BY <1>3, <2>1 DEF Fetch, Reported
  <2>2. CASE FetchUnknown(w)
    BY <1>3, <2>2 DEF FetchUnknown, Reported
  <2>3. CASE Check(w)
    BY <1>3, <2>3 DEF Check, Reported
  <2>4. CASE Verify(w)
    BY <1>3, <2>4 DEF Verify, Reported
  <2>5. CASE Increment(w) /\ user[w] = u
    <3>1. wpc'[w] = "counted" /\ user'[w] = u /\ isLocked'[w]
      BY <2>5 DEF Increment
    <3> QED
      BY <3>1 DEF Reported
  <2>6. CASE Increment(w) /\ user[w] # u
    <3>1. locked'[u] = locked[u] /\ alerted'[u] = alerted[u]
      BY <2>6 DEF Increment, Count
    <3> QED
      BY <1>3, <2>6, <3>1, Zenon DEF Increment, Reported
  <2>7. CASE Counted(w)
    BY <1>3, <2>7 DEF Counted, Reported
  <2>8. CASE Reset(w)
    <3>1. user[w] # u
      BY <2>8 DEF Reset, ResetRow, Active, None
    <3> QED
      BY <1>3, <2>8, <3>1 DEF Reset, ResetRow, Reported
  <2> QED
    BY <1>2, <1>5, <2>1, <2>2, <2>3, <2>4, <2>5, <2>6, <2>7, <2>8
       DEF Attempt, FetchFails, IncrementFails, ResetFails
<1>6. CASE Tick
  <2>1. Active(locked[u])
    BY <1>6 DEF Tick, Elapse, Active
  <2> QED
    BY <1>3, <1>6, <2>1 DEF Tick, Reported
<1>7. CASE UNCHANGED vars
  BY <1>3, <1>7 DEF vars, Reported
<1> QED
  BY <1>4, <1>5, <1>6, <1>7, Zenon DEF Next

-----------------------------------------------------------------------------
(* The theorems.                                                           *)

LEMMA InductiveInvariant == Spec => []Inductive
<1>1. Init => Inductive
  <2> SUFFICES ASSUME Init PROVE Inductive
    OBVIOUS
  <2> USE AuthAssumption DEF Init
  <2>1. TypeOK /\ RowFound /\ ThresholdSetsLock
    BY DEF TypeOK, RowFound, ThresholdSetsLock, PCs, Locks, None
  <2>2. GuessInv
    <3> SUFFICES ASSUME NEW u \in Users
                 PROVE  failed[u] + Cardinality(Pending(u))
                            <= Threshold - 1 + Cardinality(Workers)
      BY DEF GuessInv
    <3> QED
      BY PendingFinite
  <2>3. LockIsAlerted
    BY DEF LockIsAlerted, Active, None
  <2> QED
    BY <2>1, <2>2, <2>3 DEF Inductive
<1>2. Inductive /\ [Next]_vars => Inductive'
  BY TypeStep, ThresholdStep, GuessStep, AlertStep DEF Inductive
<1> QED
  BY <1>1, <1>2, PTL DEF Spec

(* The users rows and the locals of Authenticate keep their types.         *)
THEOREM TypeCorrect == Spec => []TypeOK
BY InductiveInvariant, PTL DEF Inductive

(* Whatever attempts, resets and failed calls interleave, a row whose      *)
(* failed_attempts has reached the threshold has locked_until set.         *)
THEOREM ThresholdLocks == Spec => []ThresholdSetsLock
BY InductiveInvariant, PTL DEF Inductive

(* Until a lock has expired, at most Threshold - 1 wrong passwords plus    *)
(* one for each concurrent connection get past the lockout check.          *)
THEOREM GuessBound == Spec => []GuessesBounded
<1>1. Inductive => GuessesBounded
  <2> SUFFICES ASSUME Inductive, NEW u \in Users, locked[u] # 0
               PROVE  failed[u] + Cardinality({w \in Workers :
                                        user[w] = u /\ wpc[w] = "increment"})
                          <= Threshold - 1 + Cardinality(Workers)
    BY DEF GuessesBounded
  <2> DEFINE Verified == {w \in Workers : user[w] = u /\ wpc[w] = "increment"}
  <2>1. Verified \in SUBSET Pending(u)
    BY DEF Pending, Doomed
  <2>2. IsFiniteSet(Verified) /\ Cardinality(Verified) <= Cardinality(Pending(u))
    BY <2>1, PendingFinite, FS_Subset
  <2>3. failed[u] + Cardinality(Pending(u)) <= Threshold - 1 + Cardinality(Workers)
    BY DEF Inductive, GuessInv
  <2>4. failed[u] \in Nat /\ Cardinality(Verified) \in Nat
    BY <2>2, FS_CardinalityType DEF Inductive, TypeOK
  <2> QED
    BY <2>2, <2>3, <2>4, PendingFinite, AuthAssumption
<1> QED
  BY <1>1, InductiveInvariant, PTL

(* Every running lock has had its SOC alert started, or a goroutine that   *)
(* counted a failure under it is about to start one, however many          *)
(* goroutines count at once, unless a database call has failed.            *)
THEOREM LocksAreAlerted == Spec => []LockIsAlerted
BY InductiveInvariant, PTL DEF Inductive

(* No step sets a running lock anew: the IS NULL of the CASE, seen by      *)
(* every interleaving of late failures.                                    *)
THEOREM LocksNotProlonged == Spec => LockNotProlonged
<1>1. Inductive /\ [Next]_vars =>
        [\A u \in Users : Active(locked[u]) => locked'[u] <= locked[u]]_vars
  <2> SUFFICES ASSUME Inductive, [Next]_vars, NEW u \in Users, Active(locked[u])
               PROVE  locked'[u] <= locked[u]
    OBVIOUS
  <2> QED
    BY RowSteps DEF Inductive, TypeOK, RowStep, Elapse, Active, Locks, None
<1> QED
  BY <1>1, InductiveInvariant, PTL DEF Spec, LockNotProlonged
=============================================================================
