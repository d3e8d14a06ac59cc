------------------------------ MODULE GateProofs ------------------------------
(***************************************************************************)
(* For every set of threads, every length of the windows and every limit:  *)
(* 429 is answered for a reason, by the login lockout and by the rate      *)
(* limiter; the pruned deques of the limiter implement the sliding window, *)
(* and the Retry-After it announces is neither too short nor a second too  *)
(* long.                                                                   *)
(***************************************************************************)
EXTENDS MCGate, FiniteSetTheorems, SequenceTheorems, WellFoundedInduction, TLAPS

(* Numbers.                                                                *)
LEMMA LeastNumber ==
  ASSUME NEW S, S \subseteq Nat, S # {}
  PROVE  \E m \in S : \A n \in S : m <= n
<1>1. PICK m \in S : \A n \in S : ~(<<n, m>> \in OpToRel(<, Nat))
  BY NatLessThanWellFounded, WFMin
<1>2. \A n \in S : <<n, m>> \in Nat \X Nat
  OBVIOUS
<1>3. \A n \in S : ~(n < m)
  BY <1>1, <1>2 DEF OpToRel
<1>4. QED
  BY <1>3

-------------------------------------------------------------------------------
(* The parts of TypeOK.                                                     *)
Steps == {"idle", "read", "store", "enforce", "verify", "reread",
          "restore", "append", "put", "refused", "entered"}

Recording == {"reread", "restore", "append", "put"}

-------------------------------------------------------------------------------
(* The login lockout.                                                       *)

LEMMA RecentBound ==
  ASSUME TypeOK, NEW S, S \subseteq Ids
  PROVE  /\ IsFiniteSet(Recent(S)) /\ Recent(S) \subseteq Ids
         /\ Cardinality(Recent(S)) \in Nat
         /\ Cardinality(Recent(S)) <= Cardinality(Recent(Ids))
<1>1. MaxAttempts \in Nat
  BY LockoutAssumption
<1>2. Recent(S) \subseteq Recent(Ids) /\ Recent(Ids) \subseteq Ids
  BY DEF Recent
<1>3. IsFiniteSet(Ids)
  BY <1>1, FS_Interval DEF Ids
<1>4. IsFiniteSet(Recent(Ids))
  BY <1>2, <1>3, FS_Subset
<1>5. QED
  BY <1>2, <1>4, FS_Subset, FS_CardinalityType

LEMMA FiniteLists ==
  ASSUME TypeOK, NEW t \in Threads
  PROVE  IsFiniteSet(list[t]) /\ Cardinality(list[t]) \in Nat
<1>1. IsFiniteSet(Ids)
  BY LockoutAssumption, FS_Interval DEF Ids
<1>2. list[t] \subseteq Ids
  BY DEF TypeOK
<1>3. QED
  BY <1>1, <1>2, FS_Subset, FS_CardinalityType

LEMMA FirstUnusedIs ==
  ASSUME TypeOK, \E i \in Ids : age[i] = Unused
  PROVE  FirstUnused \in Ids /\ age[FirstUnused] = Unused
<1> DEFINE free == {i \in Ids : age[i] = Unused}
<1>1. free \subseteq Nat /\ free # {}
  BY LockoutAssumption DEF Ids
<1>2. PICK m \in free : \A n \in free : m <= n
  <2> HIDE DEF free
  <2>1. QED
    BY <1>1, LeastNumber
<1>3. \A j \in Ids : j < m => age[j] # Unused
  BY <1>2, LockoutAssumption DEF Ids
<1>4. QED
  BY <1>2, <1>3 DEF FirstUnused

(* What a thread does to its own list, the dictionary and the failures, and *)
(* what is left for the other parts of the invariant.                       *)
LEMMA ReadFailuresStep ==
  ASSUME IInv, NEW t \in Threads, ReadFailures(t)
  PROVE  IInv'
<1>1. TypeOK /\ table \subseteq Ids
  BY DEF IInv, ListsAreRecent
<1>2. /\ step[t] \in {"read", "reread"}
      /\ list' = [list EXCEPT ![t] = Recent(table)]
      /\ owner' = IF owner = t THEN Nobody ELSE owner
      /\ reason' = [reason EXCEPT ![t] = Cardinality(Recent(Ids))]
      /\ step' = [step EXCEPT ![t] = IF step[t] = "read" THEN "store" ELSE "restore"]
      /\ UNCHANGED <<age, table, mine, due>>
  BY DEF ReadFailures, Filtered, Goto
<1>3. /\ Recent(table) \subseteq Ids /\ \A i \in Recent(table) : age[i] # Unused
      /\ Cardinality(Recent(table)) <= Cardinality(Recent(Ids))
      /\ Cardinality(Recent(Ids)) \in Nat
  BY <1>1, RecentBound DEF Recent
<1>4. list'[t] = Recent(table) /\ \A u \in Threads : u # t => list'[u] = list[u]
  BY <1>1, <1>2 DEF TypeOK
<1>5. TypeOK'
  <2>1. \A i \in table \cup UNION {list'[u] : u \in Threads} : age[i] # Unused
    BY <1>1, <1>3, <1>4 DEF TypeOK
  <2>2. \A u \in Threads : owner' = u => u # t /\ owner = u
    BY <1>2, LockoutAssumption
  <2>3. \A u \in Threads : owner' = u => table = list'[u]
    BY <1>1, <1>4, <2>2 DEF TypeOK
  <2>4. \A u \in Threads : (step'[u] \in Recording => step[u] \in Recording)
                           /\ (step[u] \in Recording \cup {"refused"} => step'[u] \in Recording \cup {"refused"})
    BY <1>1, <1>2 DEF TypeOK, Recording
  <2>5. /\ list' \in [Threads -> SUBSET Ids]
        /\ step' \in [Threads -> Steps]
        /\ owner' \in Threads \cup {Nobody}
    BY <1>1, <1>2, <1>3 DEF TypeOK, Steps
  <2>6. QED
    BY <1>1, <1>2, <2>1, <2>3, <2>4, <2>5 DEF TypeOK, Recording, Steps
<1>6. ListsAreRecent'
  <2>1. ASSUME NEW u \in Threads, step'[u] \in {"store", "enforce"}
        PROVE  Cardinality(list'[u]) <= reason'[u]
    <3>1. CASE u = t
      BY <1>1, <1>2, <1>3, <1>4, <3>1 DEF IInv, ListsAreRecent
    <3>2. CASE u # t
      BY <1>1, <1>2, <1>4, <2>1, <3>2 DEF IInv, ListsAreRecent, TypeOK
    <3>3. QED
      BY <3>1, <3>2
  <2>2. reason' \in [Threads -> Nat]
    BY <1>2, <1>3 DEF IInv, ListsAreRecent
  <2>3. QED
    BY <1>2, <2>1, <2>2 DEF IInv, ListsAreRecent
<1>7. LockoutJustified'
  BY <1>1, <1>2 DEF IInv, LockoutJustified, TypeOK, ListsAreRecent
<1>8. QED
  BY <1>5, <1>6, <1>7 DEF IInv

LEMMA StoreFailuresStep ==
  ASSUME IInv, NEW t \in Threads, StoreFailures(t)
  PROVE  IInv'
<1>1. TypeOK
  BY DEF IInv
<1>2. /\ step[t] \in {"store", "restore"}
      /\ table' = list[t] /\ owner' = t
      /\ step' = [step EXCEPT ![t] = IF step[t] = "store" THEN "enforce" ELSE "append"]
      /\ UNCHANGED <<age, list, mine, due, reason>>
  BY DEF StoreFailures, Goto
<1>3. TypeOK'
  <2>1. \A i \in table' \cup UNION {list[u] : u \in Threads} : age[i] # Unused
    BY <1>1, <1>2 DEF TypeOK
  <2>2. \A u \in Threads : (step'[u] \in Recording => step[u] \in Recording)
                           /\ (step[u] \in Recording \cup {"refused"} => step'[u] \in Recording \cup {"refused"})
    BY <1>1, <1>2 DEF TypeOK, Recording
  <2>3. step' \in [Threads -> Steps]
    BY <1>1, <1>2 DEF TypeOK, Steps
  <2>4. QED
    BY <1>1, <1>2, <2>1, <2>2, <2>3 DEF TypeOK, Recording, Steps
<1>4. ListsAreRecent'
  <2>1. \A u \in Threads : step'[u] \in {"store", "enforce"} => step[u] \in {"store", "enforce"}
    BY <1>1, <1>2 DEF TypeOK
  <2>2. table' \subseteq Ids
    BY <1>1, <1>2 DEF TypeOK
  <2>3. QED
    BY <1>2, <2>1, <2>2 DEF IInv, ListsAreRecent
<1>5. LockoutJustified'
  BY <1>1, <1>2 DEF IInv, LockoutJustified, TypeOK
<1>6. QED
  BY <1>3, <1>4, <1>5 DEF IInv

(* 429 comes from a list that is long enough.                               *)
LEMMA EnforceStep ==
  ASSUME IInv, NEW t \in Threads, Enforce(t)
  PROVE  IInv'
<1>1. TypeOK /\ MaxFailures \in Nat
  BY LockoutAssumption DEF IInv
<1>2. /\ step[t] = "enforce"
      /\ \/ Cardinality(list[t]) >= MaxFailures /\ step' = [step EXCEPT ![t] = "refused"]
         \/ step' = [step EXCEPT ![t] = "verify"]
      /\ UNCHANGED <<age, table, owner, list, mine, due, reason>>
  BY DEF Enforce, LockedOut, Goto
<1>3. step' \in [Threads -> Steps] /\ \A u \in Threads : u # t => step'[u] = step[u]
  BY <1>1, <1>2 DEF TypeOK, Steps
<1>4. step'[t] \in {"refused", "verify"} /\ mine[t] = 0
  BY <1>1, <1>2 DEF TypeOK
<1>5. TypeOK'
  BY <1>1, <1>2, <1>3, <1>4 DEF TypeOK, Steps
<1>6. ListsAreRecent'
  BY <1>2, <1>3, <1>4 DEF IInv, ListsAreRecent
<1>7. LockoutJustified'
  <2>1. step'[t] = "refused" => Cardinality(list[t]) >= MaxFailures
    BY <1>1, <1>2 DEF TypeOK
  <2>2. Cardinality(list[t]) <= reason[t] /\ reason[t] \in Nat
    BY <1>2 DEF IInv, ListsAreRecent
  <2>3. Cardinality(list[t]) \in Nat
    BY <1>1, FiniteLists
  <2>4. step'[t] = "refused" => reason[t] >= MaxFailures
    BY <1>1, <2>1, <2>2, <2>3
  <2>5. QED
    BY <1>2, <1>3, <2>4 DEF IInv, LockoutJustified
<1>8. QED
  BY <1>5, <1>6, <1>7 DEF IInv

LEMMA AppendFailureStep ==
  ASSUME IInv, NEW t \in Threads, AppendFailure(t)
  PROVE  IInv'
<1>1. TypeOK
  BY DEF IInv
<1>2. /\ step[t] = "append"
      /\ list' = [list EXCEPT ![t] = list[t] \cup {mine[t]}]
      /\ table' = IF owner = t THEN table \cup {mine[t]} ELSE table
      /\ step' = [step EXCEPT ![t] = "put"]
      /\ UNCHANGED <<age, owner, mine, due, reason>>
  BY DEF AppendFailure, Appended, Goto
<1>3. mine[t] \in Ids /\ age[mine[t]] # Unused
  BY <1>1, <1>2 DEF TypeOK, IInv, ListsAreRecent
<1>4. list'[t] = list[t] \cup {mine[t]} /\ \A u \in Threads : u # t => list'[u] = list[u]
  BY <1>1, <1>2 DEF TypeOK
<1>5. TypeOK'
  <2>1. \A i \in table' \cup UNION {list'[u] : u \in Threads} : age[i] # Unused
    BY <1>1, <1>2, <1>3, <1>4 DEF TypeOK
  <2>2. \A u \in Threads : owner = u => table' = list'[u]
    BY <1>1, <1>2, <1>4 DEF TypeOK
  <2>3. list' \in [Threads -> SUBSET Ids] /\ step' \in [Threads -> Steps]
    BY <1>1, <1>2, <1>3 DEF TypeOK, Steps
  <2>4. \A u \in Threads : u # t => step'[u] = step[u]
    BY <1>1, <1>2 DEF TypeOK
  <2>5. step'[t] = "put" /\ mine[t] # 0
    BY <1>1, <1>2 DEF TypeOK
  <2>6. QED
    BY <1>1, <1>2, <2>1, <2>2, <2>3, <2>4, <2>5 DEF TypeOK, Steps
<1>6. ListsAreRecent'
  <2>1. \A u \in Threads : step'[u] \in {"store", "enforce"} => u # t /\ step[u] \in {"store", "enforce"}
    BY <1>1, <1>2 DEF TypeOK
  <2>2. QED
    BY <1>2, <1>3, <1>4, <2>1 DEF IInv, ListsAreRecent
<1>7. LockoutJustified'
  BY <1>1, <1>2 DEF IInv, LockoutJustified, TypeOK
<1>8. QED
  BY <1>5, <1>6, <1>7 DEF IInv

LEMMA PutFailuresStep ==
  ASSUME IInv, NEW t \in Threads, PutFailures(t)
  PROVE  IInv'
<1>1. TypeOK
  BY DEF IInv
<1>2. /\ step[t] = "put"
      /\ table' = list[t] /\ owner' = t
      /\ step' = [step EXCEPT ![t] = "refused"]
      /\ UNCHANGED <<age, list, mine, due, reason>>
  BY DEF PutFailures, Put, Goto
<1>3. mine[t] # 0
  BY <1>1, <1>2 DEF TypeOK
<1>4. step' \in [Threads -> Steps] /\ \A u \in Threads : u # t => step'[u] = step[u]
  BY <1>1, <1>2 DEF TypeOK, Steps
<1>5. step'[t] = "refused"
  BY <1>1, <1>2 DEF TypeOK
<1>6. TypeOK'
  <2>1. \A i \in table' \cup UNION {list[u] : u \in Threads} : age[i] # Unused
    BY <1>1, <1>2 DEF TypeOK
  <2>2. QED
    BY <1>1, <1>2, <1>4, <1>5, <2>1 DEF TypeOK, Steps
<1>7. ListsAreRecent'
  <2>1. table' \subseteq Ids
    BY <1>1, <1>2 DEF TypeOK
  <2>2. QED
    BY <1>2, <1>4, <1>5, <2>1 DEF IInv, ListsAreRecent
<1>8. LockoutJustified'
  BY <1>2, <1>3, <1>4 DEF IInv, LockoutJustified
<1>9. QED
  BY <1>6, <1>7, <1>8 DEF IInv

LEMMA AnswerStep ==
  ASSUME IInv, NEW t \in Threads, Answer(t)
  PROVE  IInv'
<1>1. TypeOK
  BY DEF IInv
<1>2. /\ step' = [step EXCEPT ![t] = "idle"]
      /\ list' = [list EXCEPT ![t] = {}]
      /\ mine' = [mine EXCEPT ![t] = 0]
      /\ reason' = [reason EXCEPT ![t] = 0]
      /\ owner' = IF owner = t THEN Nobody ELSE owner
      /\ UNCHANGED <<age, table, due>>
  BY DEF Answer, Goto
<1>3. /\ step'[t] = "idle" /\ list'[t] = {} /\ mine'[t] = 0
      /\ \A u \in Threads : u # t => /\ step'[u] = step[u] /\ list'[u] = list[u]
                                     /\ mine'[u] = mine[u] /\ reason'[u] = reason[u]
  BY <1>1, <1>2 DEF TypeOK, IInv, ListsAreRecent
<1>4. TypeOK'
  <2>1. \A i \in table \cup UNION {list'[u] : u \in Threads} : age[i] # Unused
    BY <1>1, <1>3 DEF TypeOK
  <2>2. \A u \in Threads : owner' = u => u # t /\ owner = u
    BY <1>2, LockoutAssumption
  <2>3. \A u \in Threads : owner' = u => table = list'[u]
    BY <1>1, <1>3, <2>2 DEF TypeOK
  <2>4. /\ list' \in [Threads -> SUBSET Ids]
        /\ step' \in [Threads -> Steps]
        /\ mine' \in [Threads -> {0} \cup Ids]
        /\ owner' \in Threads \cup {Nobody}
    BY <1>1, <1>2 DEF TypeOK, Steps
  <2>5. QED
    BY <1>1, <1>2, <1>3, <2>1, <2>3, <2>4 DEF TypeOK, Steps
<1>5. ListsAreRecent'
  <2>1. reason' \in [Threads -> Nat]
    BY <1>2 DEF IInv, ListsAreRecent
  <2>2. QED
    BY <1>2, <1>3, <2>1 DEF IInv, ListsAreRecent
<1>6. LockoutJustified'
  BY <1>3 DEF IInv, LockoutJustified
<1>7. QED
  BY <1>4, <1>5, <1>6 DEF IInv

LEMMA ArriveStep ==
  ASSUME IInv, NEW t \in Threads, Arrive(t)
  PROVE  IInv'
<1>1. TypeOK
  BY DEF IInv
<1>2. /\ step[t] = "idle" /\ step' = [step EXCEPT ![t] = "read"]
      /\ UNCHANGED <<age, table, owner, list, mine, due, reason>>
  BY DEF Arrive, Goto
<1>3. /\ step' \in [Threads -> Steps] /\ step'[t] = "read" /\ mine[t] = 0
      /\ \A u \in Threads : u # t => step'[u] = step[u]
  BY <1>1, <1>2 DEF TypeOK, Steps
<1>4. QED
  BY <1>1, <1>2, <1>3 DEF IInv, TypeOK, ListsAreRecent, LockoutJustified, Steps

LEMMA RightPasswordStep ==
  ASSUME IInv, NEW t \in Threads, RightPassword(t)
  PROVE  IInv'
<1>1. TypeOK
  BY DEF IInv
<1>2. /\ step[t] = "verify" /\ step' = [step EXCEPT ![t] = "entered"]
      /\ table' = {} /\ owner' = Nobody
      /\ UNCHANGED <<age, list, mine, reason>>
  BY DEF RightPassword, Goto
<1>3. /\ step' \in [Threads -> Steps] /\ step'[t] = "entered" /\ mine[t] = 0
      /\ \A u \in Threads : u # t => step'[u] = step[u]
  BY <1>1, <1>2 DEF TypeOK, Steps
<1>4. TypeOK'
  <2>1. \A u \in Threads : owner' # u
    BY <1>2, LockoutAssumption
  <2>2. \A i \in table' \cup UNION {list[u] : u \in Threads} : age[i] # Unused
    BY <1>1, <1>2 DEF TypeOK
  <2>3. QED
    BY <1>1, <1>2, <1>3, <2>1, <2>2 DEF TypeOK, Steps
<1>5. ListsAreRecent' /\ LockoutJustified'
  BY <1>2, <1>3 DEF IInv, ListsAreRecent, LockoutJustified
<1>6. QED
  BY <1>4, <1>5 DEF IInv

LEMMA WrongPasswordStep ==
  ASSUME IInv, NEW t \in Threads, WrongPassword(t)
  PROVE  IInv'
<1>1. TypeOK
  BY DEF IInv
<1> DEFINE i == FirstUnused
<1>2. /\ step[t] = "verify" /\ \E j \in Ids : age[j] = Unused
      /\ age' = [age EXCEPT ![i] = 0]
      /\ mine' = [mine EXCEPT ![t] = i]
      /\ step' = [step EXCEPT ![t] = "reread"]
      /\ UNCHANGED <<table, owner, list, reason>>
  BY DEF WrongPassword, Goto
<1>3. i \in Ids /\ age[i] = Unused
  BY <1>1, <1>2, FirstUnusedIs
<1> HIDE DEF i
<1>4. i # 0 /\ Window \in Nat /\ 0 \notin Ids
  BY <1>3, LockoutAssumption DEF Ids
<1>5. /\ age' \in [Ids -> {Unused} \cup 0 .. Window]
      /\ \A j \in Ids : age[j] # Unused => age'[j] # Unused
      /\ age'[i] = 0 /\ age'[i] # Unused
  BY <1>1, <1>2, <1>3, <1>4 DEF TypeOK, Unused
<1>6. /\ step' \in [Threads -> Steps] /\ mine' \in [Threads -> {0} \cup Ids]
      /\ step'[t] = "reread" /\ mine'[t] = i
      /\ \A u \in Threads : u # t => step'[u] = step[u] /\ mine'[u] = mine[u]
  BY <1>1, <1>2, <1>3 DEF TypeOK, Steps
<1>7. TypeOK'
  <2>1. table \cup UNION {list[u] : u \in Threads} \subseteq Ids
    BY <1>1 DEF TypeOK, IInv, ListsAreRecent
  <2>2. \A j \in table \cup UNION {list[u] : u \in Threads} : age'[j] # Unused
    BY <1>1, <1>5, <2>1 DEF TypeOK
  <2>3. QED
    BY <1>1, <1>2, <1>4, <1>5, <1>6, <2>2 DEF TypeOK, Steps
<1>8. ListsAreRecent'
  <2>1. \A u \in Threads : mine'[u] # 0 => age'[mine'[u]] # Unused
    BY <1>1, <1>5, <1>6 DEF TypeOK, IInv, ListsAreRecent
  <2>2. QED
    BY <1>2, <1>6, <2>1 DEF IInv, ListsAreRecent
<1>9. LockoutJustified'
  BY <1>2, <1>6 DEF IInv, LockoutJustified
<1>10. QED
  BY <1>7, <1>8, <1>9 DEF IInv

(* Time does not take a failure out of a list that holds it.                *)
LEMMA TickAges ==
  ASSUME IInv, Tick
  PROVE  /\ age' \in [Ids -> {Unused} \cup 0 .. Window]
         /\ \A i \in table \cup UNION {list[u] : u \in Threads} : age'[i] # Unused
         /\ \A u \in Threads : mine[u] # 0 => age'[mine[u]] # Unused
         /\ \A i \in Ids : age'[i] \in 0 .. Window - 1 => age[i] \in 0 .. Window - 1
<1>1. TypeOK /\ ListsAreRecent /\ Window \in Nat \ {0}
  BY LockoutAssumption DEF IInv
<1> DEFINE held(i) == i \in table \/ \E t \in Threads : i \in list[t] \/ mine[t] = i
<1>2. \A i \in Ids : age[i] = Unused \/ age[i] \in 0 .. Window
  BY <1>1 DEF TypeOK
<1>3. DOMAIN age' = Ids /\ age' = [i \in Ids |-> age'[i]]
  BY DEF Tick
<1>4. ASSUME NEW i \in Ids
      PROVE  /\ age[i] = Unused => age'[i] = Unused
             /\ age[i] \in 0 .. Window - 1 => age'[i] = age[i] + 1
             /\ age[i] = Window => age'[i] = IF held(i) THEN Window ELSE Unused
  <2>1. age'[i] = CASE age[i] = Unused -> Unused
                    [] age[i] # Unused /\ age[i] < Window -> age[i] + 1
                    [] OTHER -> IF held(i) THEN Window ELSE Unused
    BY DEF Tick
  <2> HIDE DEF held
  <2>2. QED
    BY <1>1, <2>1 DEF Unused
<1> HIDE DEF held
<1>5. \A i \in Ids : age[i] \in 0 .. Window - 1 \/ age[i] = Window \/ age[i] = Unused
  BY <1>1, <1>2
<1>6. \A i \in Ids : age'[i] \in {Unused} \cup 0 .. Window
  BY <1>1, <1>4, <1>5
<1>7. \A i \in Ids : held(i) /\ age[i] # Unused => age'[i] # Unused
  BY <1>1, <1>4, <1>5 DEF Unused
<1>8. table \cup UNION {list[u] : u \in Threads} \subseteq Ids
  BY <1>1 DEF TypeOK, ListsAreRecent
<1>9. \A i \in table \cup UNION {list[u] : u \in Threads} : held(i) /\ age[i] # Unused
  BY <1>1 DEF TypeOK, held
<1>10. \A u \in Threads : mine[u] # 0 => held(mine[u]) /\ age[mine[u]] # Unused /\ mine[u] \in Ids
  BY <1>1 DEF TypeOK, ListsAreRecent, held
<1>11. \A i \in Ids : age'[i] \in 0 .. Window - 1 => age[i] \in 0 .. Window - 1
  BY <1>1, <1>4, <1>5 DEF Unused
<1>12. QED
  BY <1>3, <1>6, <1>7, <1>8, <1>9, <1>10, <1>11

LEMMA TickStep ==
  ASSUME IInv, Tick
  PROVE  IInv'
<1>1. UNCHANGED <<table, owner, step, list, mine, reason>>
  BY DEF Tick
<1>2. QED
  BY <1>1, TickAges DEF IInv, TypeOK, ListsAreRecent, LockoutJustified

(* Whatever the threads do to the dictionary.                               *)
LEMMA NextIInv ==
  ASSUME IInv, [Next]_vars
  PROVE  IInv'
<1>1. ASSUME NEW t \in Threads, Login(t)
      PROVE  IInv'
  BY <1>1, ReadFailuresStep, StoreFailuresStep, EnforceStep, AppendFailureStep, PutFailuresStep,
     AnswerStep DEF Login
<1>2. CASE UNCHANGED vars
  BY <1>2 DEF vars, IInv, TypeOK, ListsAreRecent, LockoutJustified
<1>3. QED
  BY <1>1, <1>2, ArriveStep, RightPasswordStep, WrongPasswordStep, TickStep DEF Next

LEMMA InitIInv == Init => IInv
BY LockoutAssumption DEF Init, IInv, TypeOK, ListsAreRecent, LockoutJustified, Unused

-------------------------------------------------------------------------------
(* One thread alone forgets no failure.                                     *)

LEMMA KeptStep ==
  ASSUME IInv, KeptBy(t1), LoginsOfOne
  PROVE  KeptBy(t1)'
<1>1. TypeOK /\ t1 \in Threads /\ Window \in Nat \ {0} /\ due \subseteq Recent(Ids)
  BY GateAssumption, LockoutAssumption DEF IInv, KeptBy
<1>2. ASSUME UNCHANGED age
      PROVE  Recent(Ids)' = Recent(Ids)
  BY <1>2 DEF Recent
<1>3. CASE Arrive(t1)
  <2>1. /\ step[t1] = "idle" /\ step'[t1] = "read"
        /\ UNCHANGED <<age, table, list, mine, due>>
    BY <1>1, <1>3 DEF Arrive, Goto, TypeOK
  <2>2. QED
    BY <1>1, <1>2, <2>1 DEF KeptBy
<1>4. CASE ReadFailures(t1)
  <2>1. /\ \/ step[t1] = "read" /\ step'[t1] = "store"
           \/ step[t1] = "reread" /\ step'[t1] = "restore"
        /\ list'[t1] = Recent(table)
        /\ UNCHANGED <<age, table, mine, due>>
    BY <1>1, <1>4 DEF ReadFailures, Filtered, Goto, TypeOK
  <2>2. \A i \in due : i \in table => i \in Recent(table)
    BY <1>1 DEF Recent
  <2>3. CASE step[t1] = "read"
    BY <1>1, <1>2, <2>1, <2>2, <2>3 DEF KeptBy
  <2>4. CASE step[t1] = "reread"
    <3>1. due \subseteq table \cup {mine[t1]}
      BY <2>4 DEF KeptBy
    <3>2. due \subseteq list'[t1] \cup {mine'[t1]}
      BY <2>1, <2>2, <3>1
    <3>3. QED
      BY <1>1, <1>2, <2>1, <2>4, <3>2 DEF KeptBy
  <2>5. QED
    BY <2>1, <2>3, <2>4
<1>5. CASE StoreFailures(t1)
  <2>1. /\ \/ step[t1] = "store" /\ step'[t1] = "enforce"
           \/ step[t1] = "restore" /\ step'[t1] = "append"
        /\ table' = list[t1]
        /\ UNCHANGED <<age, list, mine, due>>
    BY <1>1, <1>5 DEF StoreFailures, Goto, TypeOK
  <2>2. QED
    BY <1>1, <1>2, <2>1 DEF KeptBy
<1>6. CASE Enforce(t1)
  <2>1. /\ step[t1] = "enforce" /\ step'[t1] \in {"refused", "verify"}
        /\ UNCHANGED <<age, table, list, mine, due>>
    BY <1>1, <1>6 DEF Enforce, LockedOut, Goto, TypeOK
  <2>2. QED
    BY <1>1, <1>2, <2>1 DEF KeptBy
<1>7. CASE AppendFailure(t1)
  <2>1. /\ step[t1] = "append" /\ step'[t1] = "put"
        /\ list'[t1] = list[t1] \cup {mine[t1]}
        /\ UNCHANGED <<age, mine, due>>
    BY <1>1, <1>7 DEF AppendFailure, Goto, TypeOK
  <2>2. QED
    BY <1>1, <1>2, <2>1 DEF KeptBy
<1>8. CASE PutFailures(t1)
  <2>1. /\ step[t1] = "put" /\ step'[t1] = "refused"
        /\ table' = list[t1]
        /\ UNCHANGED <<age, list, mine, due>>
    BY <1>1, <1>8 DEF PutFailures, Put, Goto, TypeOK
  <2>2. QED
    BY <1>1, <1>2, <2>1 DEF KeptBy
<1>9. CASE Answer(t1)
  <2>1. /\ step[t1] \in {"refused", "entered"} /\ step'[t1] = "idle"
        /\ UNCHANGED <<age, table, due>>
    BY <1>1, <1>9 DEF Answer, Goto, TypeOK
  <2>2. QED
    BY <1>1, <1>2, <2>1 DEF KeptBy
<1>10. CASE RightPassword(t1)
  <2>1. step'[t1] = "entered" /\ due' = {}
    BY <1>1, <1>10 DEF RightPassword, Goto, TypeOK
  <2>2. QED
    BY <2>1 DEF KeptBy
<1>11. CASE WrongPassword(t1)
  <2> DEFINE i == FirstUnused
  <2>1. i \in Ids /\ age[i] = Unused
    BY <1>1, <1>11, FirstUnusedIs DEF WrongPassword
  <2>2. /\ step[t1] = "verify" /\ step'[t1] = "reread"
        /\ age' = [age EXCEPT ![i] = 0]
        /\ mine'[t1] = i
        /\ due' = due \cup {i}
        /\ UNCHANGED table
    BY <1>1, <1>11 DEF WrongPassword, Goto, TypeOK
  <2> HIDE DEF i
  <2>3. \A j \in Recent(Ids) : j \in Recent(Ids)'
    BY <1>1, <2>1, <2>2 DEF Recent, TypeOK
  <2>4. i \in Recent(Ids)'
    BY <1>1, <2>1, <2>2 DEF Recent, TypeOK, Unused
  <2>5. due \subseteq table
    BY <2>2 DEF KeptBy
  <2>6. QED
    BY <1>1, <2>2, <2>3, <2>4, <2>5 DEF KeptBy
<1>12. CASE Tick
  <2>1. /\ due' = {i \in due : age'[i] \in 0 .. Window - 1}
        /\ UNCHANGED <<table, step, list, mine>>
    BY <1>12 DEF Tick
  <2>2. due' \subseteq Recent(Ids)'
    BY <1>1, <2>1 DEF Recent, Unused
  <2>3. QED
    BY <2>1, <2>2 DEF KeptBy
<1>13. QED
  BY <1>3, <1>4, <1>5, <1>6, <1>7, <1>8, <1>9, <1>10, <1>11, <1>12 DEF LoginsOfOne, Login

-------------------------------------------------------------------------------
(* The rate limiter.                                                        *)

(* Ages that run from old to young.                                         *)
Aging(ages) ==
  /\ ages \in Seq(0 .. Limiter!WindowTicks)
  /\ \A i, j \in DOMAIN ages : i < j => ages[i] >= ages[j]

(* The first k of ages are out of the window, the others in it.             *)
SplitAt(ages, k) ==
  /\ k \in 0 .. Len(ages)
  /\ \A i \in 1 .. k : ages[i] >= Limiter!WindowTicks
  /\ \A i \in k + 1 .. Len(ages) : ages[i] < Limiter!WindowTicks

-------------------------------------------------------------------------------
(* Numbers.                                                                 *)


(* What rounding down to whole units leaves out is less than one unit.      *)
LEMMA Division ==
  ASSUME NEW x \in Nat, NEW unit \in Nat \ {0}
  PROVE  /\ x \div unit \in Nat
         /\ (x \div unit) * unit \in Nat
         /\ (x \div unit) * unit <= x
         /\ x < (x \div unit) * unit + unit
<1>1. /\ x \div unit \in Nat
      /\ (x \div unit) * unit <= x
      /\ x < (x \div unit) * unit + unit
  OBVIOUS
<1>2. \A a, b \in Nat : a * b \in Nat
  OBVIOUS
<1>3. QED
  BY <1>1, <1>2

LEMMA WindowIsPositive ==
  ASSUME Limiter!RateLimitAssumption
  PROVE  Limiter!WindowTicks \in Nat \ {0} /\ Rate \in Nat \ {0}
<1>1. \A a, b \in Nat \ {0} : a * b \in Nat \ {0}
  OBVIOUS
<1>2. QED
  BY <1>1 DEF Limiter!RateLimitAssumption, Limiter!WindowTicks

LEMMA LimitsAreNumbers ==
  ASSUME Limiter!RateLimitAssumption, NEW c \in Limiter!Callers
  PROVE  Limiter!LimitOf(c) \in Int
BY DEF Limiter!RateLimitAssumption, Limiter!LimitOf

-------------------------------------------------------------------------------
(* Deques.                                                                  *)

LEMMA Splits ==
  ASSUME Limiter!RateLimitAssumption, NEW ages, Aging(ages)
  PROVE  \E k : SplitAt(ages, k)
<1> DEFINE young == {i \in 1 .. Len(ages) : ages[i] < Limiter!WindowTicks}
<1>1. Len(ages) \in Nat /\ DOMAIN ages = 1 .. Len(ages)
      /\ \A i \in 1 .. Len(ages) : ages[i] \in 0 .. Limiter!WindowTicks
  BY LenProperties, ElementOfSeq DEF Aging
<1>2. Limiter!WindowTicks \in Nat
  BY WindowIsPositive
<1>3. CASE young = {}
  <2>1. \A i \in 1 .. Len(ages) : ages[i] >= Limiter!WindowTicks
    BY <1>1, <1>2, <1>3
  <2>2. SplitAt(ages, Len(ages))
    BY <1>1, <2>1 DEF SplitAt
  <2>3. QED
    BY <2>2
<1>4. CASE young # {}
  <2>0. young \subseteq Nat
    BY <1>1
  <2>1. PICK m \in young : \A n \in young : m <= n
    <3> HIDE DEF young
    <3>1. QED
      BY <1>4, <2>0, LeastNumber
  <2>2. \A i \in 1 .. m - 1 : ages[i] >= Limiter!WindowTicks
    BY <1>1, <1>2, <2>1
  <2>3. \A i \in m .. Len(ages) : ages[i] < Limiter!WindowTicks
    BY <1>1, <1>2 DEF Aging
  <2>4. m - 1 \in 0 .. Len(ages) /\ (m - 1) + 1 = m
    <3>1. m \in 1 .. Len(ages)
      OBVIOUS
    <3> HIDE DEF young
    <3>2. QED
      BY <1>1, <3>1
  <2>5. SplitAt(ages, m - 1)
    BY <2>2, <2>3, <2>4 DEF SplitAt
  <2>6. QED
    BY <2>5
<1>5. QED
  BY <1>3, <1>4

(* Pruning at the front keeps exactly what is in the window.                *)
LEMMA LiveIs ==
  ASSUME Limiter!RateLimitAssumption, NEW ages \in Seq(0 .. Limiter!WindowTicks), NEW k, SplitAt(ages, k)
  PROVE  Limiter!Live(ages) = SubSeq(ages, 1 + k, Len(ages))
<1> DEFINE Front(n) == /\ \A i \in 1 .. n : ages[i] >= Limiter!WindowTicks
                       /\ n < Len(ages) => ages[n + 1] < Limiter!WindowTicks
<1>1. /\ Len(ages) \in Nat /\ k \in 0 .. Len(ages)
      /\ Limiter!WindowTicks \in Nat
      /\ \A i \in 1 .. Len(ages) : ages[i] \in 0 .. Limiter!WindowTicks
  BY WindowIsPositive, LenProperties, ElementOfSeq DEF SplitAt
<1>2. Front(k)
  BY <1>1 DEF SplitAt
<1>3. ASSUME NEW n \in 0 .. Len(ages), Front(n)
      PROVE  n = k
  <2>1. ~(n < k)
    <3> SUFFICES ASSUME n < k
                 PROVE  FALSE
      OBVIOUS
    <3>1. n + 1 \in 1 .. k /\ n < Len(ages) /\ n + 1 \in 1 .. Len(ages)
      BY <1>1
    <3>2. ages[n + 1] >= Limiter!WindowTicks /\ ages[n + 1] < Limiter!WindowTicks
      BY <1>3, <3>1 DEF SplitAt
    <3>3. QED
      BY <1>1, <3>1, <3>2
  <2>2. ~(k < n)
    <3> SUFFICES ASSUME k < n
                 PROVE  FALSE
      OBVIOUS
    <3>1. k + 1 \in 1 .. n /\ k + 1 \in k + 1 .. Len(ages) /\ k + 1 \in 1 .. Len(ages)
      BY <1>1
    <3>2. ages[k + 1] >= Limiter!WindowTicks /\ ages[k + 1] < Limiter!WindowTicks
      BY <1>3, <3>1 DEF SplitAt
    <3>3. QED
      BY <1>1, <3>1, <3>2
  <2>3. QED
    BY <1>1, <2>1, <2>2
<1>4. (CHOOSE n \in 0 .. Len(ages) : Front(n)) = k
  BY <1>1, <1>2, <1>3
<1>5. QED
  BY <1>4 DEF Limiter!Live

(* And so does dropping just those that are out of it.                      *)
LEMMA RecentIs ==
  ASSUME Limiter!RateLimitAssumption, NEW ages \in Seq(0 .. Limiter!WindowTicks), NEW k, SplitAt(ages, k)
  PROVE  Limiter!Recent(ages) = SubSeq(ages, 1 + k, Len(ages))
<1> DEFINE Old(n) == \A i \in 1 .. Len(ages) : ages[i] >= Limiter!WindowTicks <=> i <= n
<1>1. /\ Len(ages) \in Nat /\ k \in 0 .. Len(ages)
      /\ Limiter!WindowTicks \in Nat
      /\ \A i \in 1 .. Len(ages) : ages[i] \in 0 .. Limiter!WindowTicks
  BY WindowIsPositive, LenProperties, ElementOfSeq DEF SplitAt
<1>2. Old(k)
  <2> SUFFICES ASSUME NEW i \in 1 .. Len(ages)
               PROVE  ages[i] >= Limiter!WindowTicks <=> i <= k
    OBVIOUS
  <2>1. CASE i <= k
    BY <1>1, <2>1 DEF SplitAt
  <2>2. CASE ~(i <= k)
    <3>1. i \in k + 1 .. Len(ages) /\ ages[i] \in 0 .. Limiter!WindowTicks
      BY <1>1, <2>2
    <3>2. ages[i] < Limiter!WindowTicks
      BY <3>1 DEF SplitAt
    <3>3. QED
      BY <1>1, <2>2, <3>1, <3>2
  <2>3. QED
    BY <2>1, <2>2
<1>3. ASSUME NEW n \in 0 .. Len(ages), Old(n)
      PROVE  n = k
  <2>1. ASSUME n < k
        PROVE  FALSE
    <3>1. k \in 1 .. Len(ages) /\ ~(k <= n)
      BY <1>1, <2>1
    <3>2. QED
      BY <1>1, <1>2, <1>3, <3>1
  <2>2. ASSUME k < n
        PROVE  FALSE
    <3>1. n \in 1 .. Len(ages) /\ ~(n <= k)
      BY <1>1, <2>2
    <3>2. QED
      BY <1>1, <1>2, <1>3, <3>1
  <2>3. QED
    BY <1>1, <2>1, <2>2
<1>4. (CHOOSE n \in 0 .. Len(ages) : Old(n)) = k
  BY <1>1, <1>2, <1>3
<1>5. QED
  BY <1>4 DEF Limiter!Recent

(* What is left of a deque: no more than there was, all of it young.        *)
LEMMA LiveDeque ==
  ASSUME Limiter!RateLimitAssumption, NEW ages, Aging(ages)
  PROVE  /\ Aging(Limiter!Live(ages))
         /\ Limiter!Recent(ages) = Limiter!Live(ages)
         /\ Limiter!Recent(Limiter!Live(ages)) = Limiter!Live(ages)
         /\ Len(Limiter!Live(ages)) <= Len(ages)
         /\ \A i \in 1 .. Len(Limiter!Live(ages)) : Limiter!Live(ages)[i] < Limiter!WindowTicks
         /\ ages # <<>> /\ ages[1] >= Limiter!WindowTicks => Len(Limiter!Live(ages)) < Len(ages)
         /\ SplitAt(Limiter!Live(ages), 0)
<1>1. PICK k : SplitAt(ages, k)
  BY Splits
<1> DEFINE rest == SubSeq(ages, 1 + k, Len(ages))
<1>2. /\ Len(ages) \in Nat /\ k \in 0 .. Len(ages) /\ DOMAIN ages = 1 .. Len(ages)
      /\ Limiter!WindowTicks \in Nat
      /\ \A i \in 1 .. Len(ages) : ages[i] \in 0 .. Limiter!WindowTicks
      /\ ages \in Seq(0 .. Limiter!WindowTicks)
  BY <1>1, WindowIsPositive, LenProperties, ElementOfSeq DEF SplitAt, Aging
<1>3. Limiter!Live(ages) = rest /\ Limiter!Recent(ages) = rest
  BY <1>1, <1>2, LiveIs, RecentIs
<1>4. /\ rest \in Seq(0 .. Limiter!WindowTicks)
      /\ Len(rest) = Len(ages) - k
      /\ \A i \in 1 .. Len(ages) - k : rest[i] = ages[k + i]
  <2>1. \A i \in 1 + k .. Len(ages) : ages[i] \in 0 .. Limiter!WindowTicks
    BY <1>2
  <2>2. /\ rest \in Seq(0 .. Limiter!WindowTicks)
        /\ Len(rest) = IF 1 + k <= Len(ages) THEN Len(ages) - (1 + k) + 1 ELSE 0
        /\ \A i \in 1 .. Len(ages) - (1 + k) + 1 : rest[i] = ages[(1 + k) + i - 1]
    BY <1>2, <2>1, SubSeqProperties
  <2> HIDE DEF rest
  <2>3. \A i \in 1 .. Len(ages) - k : (1 + k) + i - 1 = k + i
    BY <1>2
  <2>4. Len(ages) - (1 + k) + 1 = Len(ages) - k
    BY <1>2
  <2>5. \A i \in 1 .. Len(ages) - k : rest[i] = ages[k + i]
    BY <2>2, <2>3, <2>4
  <2>6. Len(rest) = Len(ages) - k
    <3>1. Len(ages) \in Nat /\ k \in 0 .. Len(ages)
      BY <1>2
    <3>2. Len(rest) = IF 1 + k <= Len(ages) THEN Len(ages) - (1 + k) + 1 ELSE 0
      BY <2>2
    <3>3. QED
      BY <3>1, <3>2
  <2>7. QED
    BY <2>2, <2>5, <2>6
<1> HIDE DEF rest
<1>5. \A i \in 1 .. Len(rest) : rest[i] < Limiter!WindowTicks
  <2>1. \A i \in 1 .. Len(rest) : k + i \in k + 1 .. Len(ages)
    BY <1>2, <1>4
  <2>2. QED
    BY <1>1, <1>4, <2>1 DEF SplitAt
<1>6. Aging(rest)
  <2>1. DOMAIN rest = 1 .. Len(rest)
    BY <1>4, LenProperties
  <2>2. \A i, j \in 1 .. Len(rest) : i < j => rest[i] >= rest[j]
    <3> SUFFICES ASSUME NEW i \in 1 .. Len(rest), NEW j \in 1 .. Len(rest), i < j
                 PROVE  rest[i] >= rest[j]
      OBVIOUS
    <3>1. k + i \in DOMAIN ages /\ k + j \in DOMAIN ages /\ k + i < k + j
      BY <1>2, <1>4
    <3>2. ages[k + i] >= ages[k + j]
      BY <3>1 DEF Aging
    <3>3. QED
      BY <1>4, <3>2
  <2>3. QED
    BY <1>4, <2>1, <2>2 DEF Aging
<1>7. SplitAt(rest, 0)
  BY <1>2, <1>4, <1>5 DEF SplitAt
<1>8. Limiter!Recent(rest) = rest
  <2>1. Limiter!Recent(rest) = SubSeq(rest, 1 + 0, Len(rest))
    BY <1>4, <1>7, RecentIs
  <2>2. QED
    BY <1>4, <2>1, SubSeqFull
<1>9. ages # <<>> /\ ages[1] >= Limiter!WindowTicks => k # 0
  <2> SUFFICES ASSUME ages # <<>>, ages[1] >= Limiter!WindowTicks, k = 0
               PROVE  FALSE
    OBVIOUS
  <2>1. Len(ages) # 0
    BY <1>2, EmptySeq
  <2>2. 1 \in k + 1 .. Len(ages) /\ 1 \in 1 .. Len(ages)
    BY <1>2, <2>1
  <2>3. ages[1] < Limiter!WindowTicks
    BY <1>1, <2>2 DEF SplitAt
  <2>4. QED
    BY <1>2, <2>2, <2>3
<1>10. QED
  BY <1>2, <1>3, <1>4, <1>5, <1>6, <1>7, <1>8, <1>9

-------------------------------------------------------------------------------
(* One caller: its deque and what is left of the wait it was told.          *)

GoodFor(c, ages, left) ==
  /\ Aging(ages)
  /\ left \in Limiter!NoWait .. Limiter!WindowTicks + Rate
  /\ ages # <<>> => Len(ages) <= Limiter!LimitOf(c)
  /\ left # Limiter!NoWait =>
       /\ ages # <<>>
       /\ Limiter!WindowTicks - ages[1] <= left
       /\ left <= Limiter!WindowTicks - ages[1] + Rate

(* A request is let through.                                                *)
LEMMA HitAdmitted ==
  ASSUME Limiter!RateLimitAssumption, NEW c \in Limiter!Callers, NEW ages, Aging(ages),
         Len(Limiter!Live(ages)) < Limiter!LimitOf(c)
  PROVE  GoodFor(c, Limiter!Recorded(Limiter!Live(ages)), Limiter!NoWait)
<1> DEFINE live == Limiter!Live(ages)
           new == Append(live, 0)
<1>1. Aging(live) /\ Len(live) < Limiter!LimitOf(c) /\ Limiter!LimitOf(c) \in Int
      /\ Limiter!WindowTicks \in Nat \ {0} /\ Rate \in Nat \ {0}
  BY LiveDeque, LimitsAreNumbers, WindowIsPositive
<1> HIDE DEF live
<1>2. /\ live \in Seq(0 .. Limiter!WindowTicks)
      /\ Len(live) \in Nat
      /\ DOMAIN live = 1 .. Len(live)
      /\ \A i \in 1 .. Len(live) : live[i] \in 0 .. Limiter!WindowTicks
  BY <1>1, LenProperties, ElementOfSeq DEF Aging
<1>3. /\ new \in Seq(0 .. Limiter!WindowTicks)
      /\ Len(new) = Len(live) + 1
      /\ DOMAIN new = 1 .. Len(live) + 1
      /\ \A i \in 1 .. Len(live) : new[i] = live[i]
      /\ new[Len(live) + 1] = 0
  <2>1. 0 \in 0 .. Limiter!WindowTicks
    BY <1>1
  <2>2. QED
    BY <1>2, <2>1, AppendProperties, LenProperties
<1> HIDE DEF new
<1>4. \A i, j \in 1 .. Len(live) + 1 : i < j => new[i] >= new[j]
  <2> SUFFICES ASSUME NEW i \in 1 .. Len(live) + 1, NEW j \in 1 .. Len(live) + 1, i < j
               PROVE  new[i] >= new[j]
    OBVIOUS
  <2>1. i \in 1 .. Len(live) /\ new[i] = live[i] /\ live[i] \in 0 .. Limiter!WindowTicks
    BY <1>2, <1>3
  <2>2. CASE j = Len(live) + 1
    BY <1>1, <1>3, <2>1, <2>2
  <2>3. CASE j # Len(live) + 1
    <3>1. j \in 1 .. Len(live) /\ new[j] = live[j]
      BY <1>2, <1>3, <2>3
    <3>2. live[i] >= live[j]
      BY <1>1, <1>2, <2>1, <3>1 DEF Aging
    <3>3. QED
      BY <2>1, <3>1, <3>2
  <2>4. QED
    BY <2>2, <2>3
<1>5. Aging(new)
  BY <1>3, <1>4 DEF Aging
<1>6. Len(new) <= Limiter!LimitOf(c)
  BY <1>1, <1>2, <1>3
<1>7. Limiter!NoWait \in Limiter!NoWait .. Limiter!WindowTicks + Rate
  BY <1>1 DEF Limiter!NoWait
<1>8. QED
  BY <1>5, <1>6, <1>7 DEF GoodFor, Limiter!Recorded, new, live

(* A request is refused, with a Retry-After.                                *)
LEMMA HitRefused ==
  ASSUME Limiter!RateLimitAssumption, NEW c \in Limiter!Callers, NEW ages, Aging(ages),
         ages # <<>> => Len(ages) <= Limiter!LimitOf(c),
         0 < Limiter!LimitOf(c), Limiter!LimitOf(c) <= Len(Limiter!Live(ages))
  PROVE  GoodFor(c, Limiter!AfterRefusal(Limiter!Live(ages)), Limiter!RetryAfter(Limiter!Live(ages)) * Rate)
<1> DEFINE live == Limiter!Live(ages)
           left == Limiter!WindowTicks - live[1]
<1>1. /\ Aging(live) /\ Limiter!LimitOf(c) <= Len(live) /\ Limiter!LimitOf(c) \in Int
      /\ Len(live) <= Len(ages)
      /\ \A i \in 1 .. Len(live) : live[i] < Limiter!WindowTicks
      /\ Limiter!WindowTicks \in Nat \ {0} /\ Rate \in Nat \ {0}
  BY LiveDeque, LimitsAreNumbers, WindowIsPositive
<1> HIDE DEF live
<1>2. /\ Len(live) \in Nat /\ Len(ages) \in Nat
      /\ \A i \in 1 .. Len(live) : live[i] \in 0 .. Limiter!WindowTicks
  BY <1>1, LenProperties, ElementOfSeq DEF Aging
<1>3. 1 \in 1 .. Len(live) /\ live # <<>> /\ ages # <<>>
  <2>1. Len(live) > 0 /\ Len(ages) > 0
    BY <1>1, <1>2
  <2>2. QED
    BY <1>2, <2>1, EmptySeq
<1>4. live[1] \in 0 .. Limiter!WindowTicks /\ left \in Nat \ {0} /\ left <= Limiter!WindowTicks
  BY <1>1, <1>2, <1>3
<1> HIDE DEF left
<1>5. /\ left \div Rate \in Nat
      /\ (left \div Rate) * Rate \in Nat
      /\ (left \div Rate) * Rate <= left
      /\ left < (left \div Rate) * Rate + Rate
  BY <1>1, <1>4, Division
<1>6. Limiter!RetryAfter(live) = left \div Rate + 1
  BY <1>5 DEF Limiter!RetryAfter, left
<1>7. (left \div Rate + 1) * Rate = (left \div Rate) * Rate + Rate
  <2>1. \A q, u \in Nat : (q + 1) * u = q * u + u
    OBVIOUS
  <2>2. QED
    BY <1>1, <1>5, <2>1
<1> DEFINE told == Limiter!RetryAfter(live) * Rate
<1>8. told \in Nat /\ left <= told /\ told <= left + Rate
  <2> DEFINE whole == (left \div Rate) * Rate
  <2>1. told = whole + Rate
    BY <1>6, <1>7
  <2>2. whole \in Nat /\ whole <= left /\ left < whole + Rate
    BY <1>5
  <2> HIDE DEF told, whole
  <2>3. QED
    BY <1>1, <1>4, <2>1, <2>2
<1> HIDE DEF told
<1>9. told \in Limiter!NoWait .. Limiter!WindowTicks + Rate
  BY <1>1, <1>4, <1>8 DEF Limiter!NoWait
<1>10. Len(live) <= Limiter!LimitOf(c)
  BY <1>1, <1>2, <1>3
<1>11. GoodFor(c, live, told)
  BY <1>1, <1>3, <1>8, <1>9, <1>10 DEF GoodFor, left
<1>12. QED
  BY <1>11 DEF Limiter!AfterRefusal, told, live

(* A tick passes.                                                           *)
Aged(ages) == [i \in DOMAIN ages |-> IF ages[i] < Limiter!WindowTicks THEN ages[i] + 1 ELSE Limiter!WindowTicks]

LEMMA Aging1 ==
  ASSUME Limiter!RateLimitAssumption, NEW ages, Aging(ages)
  PROVE  /\ Aging(Aged(ages))
         /\ Len(Aged(ages)) = Len(ages)
         /\ DOMAIN Aged(ages) = 1 .. Len(ages)
<1> DEFINE older == Aged(ages)
<1>1. /\ Len(ages) \in Nat
      /\ DOMAIN ages = 1 .. Len(ages)
      /\ \A i \in 1 .. Len(ages) : ages[i] \in 0 .. Limiter!WindowTicks
      /\ Limiter!WindowTicks \in Nat \ {0}
  BY WindowIsPositive, LenProperties, ElementOfSeq DEF Aging
<1>2. /\ DOMAIN older = 1 .. Len(ages)
      /\ \A i \in 1 .. Len(ages) :
           older[i] = IF ages[i] < Limiter!WindowTicks THEN ages[i] + 1 ELSE Limiter!WindowTicks
      /\ older = [i \in 1 .. Len(ages) |-> older[i]]
  BY <1>1 DEF Aged
<1> HIDE DEF older
<1>3. \A i \in 1 .. Len(ages) : older[i] \in 0 .. Limiter!WindowTicks
  BY <1>1, <1>2
<1>4. older \in Seq(0 .. Limiter!WindowTicks)
  BY <1>1, <1>2, <1>3
<1>5. Len(older) = Len(ages)
  BY <1>1, <1>2, <1>4, LenProperties
<1>6. \A i, j \in 1 .. Len(ages) : i < j => older[i] >= older[j]
  <2> SUFFICES ASSUME NEW i \in 1 .. Len(ages), NEW j \in 1 .. Len(ages), i < j
               PROVE  older[i] >= older[j]
    OBVIOUS
  <2>1. ages[i] >= ages[j]
    BY <1>1 DEF Aging
  <2>2. QED
    BY <1>1, <1>2, <2>1
<1>7. QED
  BY <1>2, <1>4, <1>5, <1>6 DEF Aging, older

LEMMA HitsTicked ==
  ASSUME Limiter!RateLimitAssumption, NEW c \in Limiter!Callers, NEW ages, NEW left, GoodFor(c, ages, left)
  PROVE  GoodFor(c, Aged(ages), IF left > 0 THEN left - 1 ELSE left)
<1> DEFINE older == Aged(ages)
           now == IF left > 0 THEN left - 1 ELSE left
<1>1. /\ Aging(older) /\ Len(older) = Len(ages) /\ DOMAIN older = 1 .. Len(ages)
      /\ Limiter!WindowTicks \in Nat \ {0} /\ Rate \in Nat \ {0}
      /\ Len(ages) \in Nat /\ DOMAIN ages = 1 .. Len(ages)
      /\ \A i \in 1 .. Len(ages) : ages[i] \in 0 .. Limiter!WindowTicks
  BY Aging1, WindowIsPositive, LenProperties, ElementOfSeq DEF Aging, GoodFor
<1>2. older # <<>> <=> ages # <<>>
  <2>1. older # <<>> <=> Len(older) # 0
    BY <1>1, EmptySeq DEF Aging
  <2>2. ages # <<>> <=> Len(ages) # 0
    BY EmptySeq DEF Aging, GoodFor
  <2>3. QED
    BY <1>1, <2>1, <2>2
<1>3. left \in Limiter!NoWait .. Limiter!WindowTicks + Rate
  BY DEF GoodFor
<1>4. now \in Limiter!NoWait .. Limiter!WindowTicks + Rate /\ (now # Limiter!NoWait => left # Limiter!NoWait)
  BY <1>1, <1>3 DEF Limiter!NoWait
<1>5. ASSUME left # Limiter!NoWait
      PROVE  Limiter!WindowTicks - older[1] <= now /\ now <= Limiter!WindowTicks - older[1] + Rate
  <2>1. ages # <<>> /\ Limiter!WindowTicks - ages[1] <= left /\ left <= Limiter!WindowTicks - ages[1] + Rate
    BY <1>5 DEF GoodFor
  <2>2. 1 \in 1 .. Len(ages)
    BY <1>1, <2>1, EmptySeq DEF GoodFor, Aging
  <2>3. older[1] = IF ages[1] < Limiter!WindowTicks THEN ages[1] + 1 ELSE Limiter!WindowTicks
    BY <1>1, <2>2 DEF Aged
  <2>4. ages[1] \in 0 .. Limiter!WindowTicks /\ left \in Nat
    BY <1>1, <1>3, <1>5, <2>2 DEF Limiter!NoWait
  <2> HIDE DEF older
  <2>5. QED
    BY <1>1, <2>1, <2>3, <2>4
<1>6. older # <<>> => Len(older) <= Limiter!LimitOf(c)
  BY <1>1, <1>2 DEF GoodFor
<1>7. now # Limiter!NoWait => older # <<>>
  BY <1>2, <1>4 DEF GoodFor
<1> HIDE DEF older, now
<1>8. GoodFor(c, older, now)
  BY <1>1, <1>4, <1>5, <1>6, <1>7 DEF GoodFor
<1>9. QED
  BY <1>8 DEF older, now

-------------------------------------------------------------------------------
(* The invariant.                                                           *)

LEMMA CallersOfRequests ==
  ASSUME NEW r \in Limiter!Requests
  PROVE  Limiter!CallerOf(r) \in Limiter!Callers
BY DEF Limiter!Requests, Limiter!CallerOf, Limiter!Callers

LEMMA PerCaller ==
  ASSUME Limiter!RateLimitAssumption
  PROVE  Limiter!IInv <=> /\ hits \in [Limiter!Callers -> Seq(0 .. Limiter!WindowTicks)]
                  /\ answer \in [Limiter!Callers -> {"none", "admitted", "refused"}]
                  /\ wait \in [Limiter!Callers -> Limiter!NoWait .. Limiter!WindowTicks + Rate]
                  /\ \A c \in Limiter!Callers : GoodFor(c, hits[c], wait[c])
BY DEF Limiter!IInv, Limiter!TypeOK, Limiter!WaitsForTheOldest, GoodFor, Aging

LEMMA EmptyIsGood ==
  ASSUME Limiter!RateLimitAssumption, NEW c \in Limiter!Callers
  PROVE  GoodFor(c, <<>>, Limiter!NoWait)
<1>1. Limiter!NoWait \in Limiter!NoWait .. Limiter!WindowTicks + Rate
  BY WindowIsPositive DEF Limiter!NoWait
<1>2. <<>> \in Seq(0 .. Limiter!WindowTicks) /\ DOMAIN <<>> = {}
  BY EmptySeq
<1>3. QED
  BY <1>1, <1>2 DEF GoodFor, Aging

(* A step gives every caller a good deque; what follows is IInv'.           *)
LEMMA AllGood ==
  ASSUME Limiter!RateLimitAssumption,
         \A c \in Limiter!Callers : GoodFor(c, hits'[c], wait'[c]),
         hits' = [c \in Limiter!Callers |-> hits'[c]], wait' = [c \in Limiter!Callers |-> wait'[c]],
         answer' \in [Limiter!Callers -> {"none", "admitted", "refused"}]
  PROVE  Limiter!IInv'
<1>1. \A c \in Limiter!Callers : hits'[c] \in Seq(0 .. Limiter!WindowTicks) /\ wait'[c] \in Limiter!NoWait .. Limiter!WindowTicks + Rate
  BY DEF GoodFor, Aging
<1>2. /\ hits' \in [Limiter!Callers -> Seq(0 .. Limiter!WindowTicks)]
      /\ wait' \in [Limiter!Callers -> Limiter!NoWait .. Limiter!WindowTicks + Rate]
  BY <1>1
<1>3. QED
  BY <1>2 DEF Limiter!IInv, Limiter!TypeOK, Limiter!WaitsForTheOldest, GoodFor, Aging

LEMMA LimiterNextIInv ==
  ASSUME Limiter!RateLimitAssumption, Limiter!IInv, [Limiter!Next]_(Limiter!vars)
  PROVE  Limiter!IInv'
<1>1. /\ hits \in [Limiter!Callers -> Seq(0 .. Limiter!WindowTicks)]
      /\ answer \in [Limiter!Callers -> {"none", "admitted", "refused"}]
      /\ wait \in [Limiter!Callers -> Limiter!NoWait .. Limiter!WindowTicks + Rate]
      /\ \A c \in Limiter!Callers : GoodFor(c, hits[c], wait[c])
      /\ \A c \in Limiter!Callers : Aging(hits[c])
  BY PerCaller DEF GoodFor
<1>2. CASE UNCHANGED <<hits, wait>> /\ answer' \in [Limiter!Callers -> {"none", "admitted", "refused"}]
  BY <1>1, <1>2, AllGood
<1>3. ASSUME NEW r \in Limiter!Requests, Limiter!Ask(r)
      PROVE  Limiter!IInv'
  <2> DEFINE c == Limiter!CallerOf(r)
  <2>1. c \in Limiter!Callers
    BY CallersOfRequests
  <2> HIDE DEF c
  <2>2. CASE Limiter!Unguarded(r) \/ Limiter!Pass(r)
    BY <1>1, <1>2, <2>1, <2>2 DEF Limiter!Unguarded, Limiter!Pass, Limiter!vars, c
  <2>3. CASE Limiter!Admit(r)
    <3>1. /\ Len(Limiter!Live(hits[c])) < Limiter!LimitOf(c)
          /\ hits' = [hits EXCEPT ![c] = Limiter!Recorded(Limiter!Live(hits[c]))]
          /\ wait' = [wait EXCEPT ![c] = Limiter!NoWait]
          /\ answer' = [answer EXCEPT ![c] = "admitted"]
      BY <2>3 DEF Limiter!Admit, c
    <3>2. GoodFor(c, Limiter!Recorded(Limiter!Live(hits[c])), Limiter!NoWait)
      BY <1>1, <2>1, <3>1, HitAdmitted
    <3>3. \A b \in Limiter!Callers : GoodFor(b, hits'[b], wait'[b])
      BY <1>1, <2>1, <3>1, <3>2
    <3>4. QED
      BY <1>1, <3>1, <3>3, AllGood
  <2>4. CASE Limiter!Refuse(r)
    <3>1. /\ 0 < Limiter!LimitOf(c) /\ Limiter!LimitOf(c) <= Len(Limiter!Live(hits[c]))
          /\ hits' = [hits EXCEPT ![c] = Limiter!AfterRefusal(Limiter!Live(hits[c]))]
          /\ wait' = [wait EXCEPT ![c] = Limiter!RetryAfter(Limiter!Live(hits[c])) * Rate]
          /\ answer' = [answer EXCEPT ![c] = "refused"]
      BY <2>4 DEF Limiter!Refuse, c
    <3>2. hits[c] # <<>> => Len(hits[c]) <= Limiter!LimitOf(c)
      BY <1>1, <2>1 DEF GoodFor
    <3>3. GoodFor(c, Limiter!AfterRefusal(Limiter!Live(hits[c])), Limiter!RetryAfter(Limiter!Live(hits[c])) * Rate)
      BY <1>1, <2>1, <3>1, <3>2, HitRefused
    <3>4. \A b \in Limiter!Callers : GoodFor(b, hits'[b], wait'[b])
      BY <1>1, <2>1, <3>1, <3>3
    <3>5. QED
      BY <1>1, <3>1, <3>4, AllGood
  <2>5. QED
    BY <1>3, <2>2, <2>3, <2>4 DEF Limiter!Ask
<1>4. CASE Limiter!Tick
  <2>1. /\ hits' = [c \in Limiter!Callers |-> Aged(hits[c])]
        /\ wait' = [c \in Limiter!Callers |-> IF wait[c] > 0 THEN wait[c] - 1 ELSE wait[c]]
        /\ answer' = answer
    BY <1>4 DEF Limiter!Tick, Aged
  <2>2. \A c \in Limiter!Callers : GoodFor(c, hits'[c], wait'[c])
    BY <1>1, <2>1, HitsTicked
  <2>3. QED
    BY <1>1, <2>1, <2>2, AllGood
<1>5. CASE Limiter!Restart
  BY <1>5, EmptyIsGood, AllGood DEF Limiter!Restart
<1>6. CASE UNCHANGED Limiter!vars
  BY <1>1, <1>2, <1>6 DEF Limiter!vars
<1>7. QED
  BY <1>3, <1>4, <1>5, <1>6 DEF Limiter!Next

LEMMA LimiterInitIInv ==
  ASSUME Limiter!RateLimitAssumption, Limiter!Init
  PROVE  Limiter!IInv
<1>1. \A c \in Limiter!Callers : GoodFor(c, hits[c], wait[c])
  BY EmptyIsGood DEF Limiter!Init
<1>2. \A c \in Limiter!Callers : hits[c] \in Seq(0 .. Limiter!WindowTicks) /\ wait[c] \in Limiter!NoWait .. Limiter!WindowTicks + Rate
  BY <1>1 DEF GoodFor, Aging
<1>3. QED
  BY <1>1, <1>2, PerCaller DEF Limiter!Init

-------------------------------------------------------------------------------
(* The sliding window.                                                      *)

(* Of a deque whose hits are all young nothing is forgotten.                *)
LEMMA AllYoung ==
  ASSUME Limiter!RateLimitAssumption, NEW ages \in Seq(0 .. Limiter!WindowTicks),
         \A i \in 1 .. Len(ages) : ages[i] < Limiter!WindowTicks
  PROVE  Limiter!Recent(ages) = ages
<1>1. Len(ages) \in Nat
  BY LenProperties
<1>2. SplitAt(ages, 0)
  BY <1>1 DEF SplitAt
<1>3. Limiter!Recent(ages) = SubSeq(ages, 1 + 0, Len(ages))
  BY <1>2, RecentIs
<1>4. QED
  BY <1>3, SubSeqFull

LEMMA RecentAfterAdmission ==
  ASSUME Limiter!RateLimitAssumption, NEW ages, Aging(ages)
  PROVE  Limiter!Recent(Limiter!Recorded(Limiter!Live(ages))) = Append(Limiter!Recent(ages), 0)
<1> DEFINE live == Limiter!Live(ages)
           new == Append(live, 0)
<1>1. /\ Aging(live) /\ Limiter!Recent(ages) = live
      /\ \A i \in 1 .. Len(live) : live[i] < Limiter!WindowTicks
      /\ Limiter!WindowTicks \in Nat \ {0}
  BY LiveDeque, WindowIsPositive
<1> HIDE DEF live
<1>2. live \in Seq(0 .. Limiter!WindowTicks) /\ Len(live) \in Nat
  BY <1>1, LenProperties DEF Aging
<1>3. /\ new \in Seq(0 .. Limiter!WindowTicks)
      /\ Len(new) = Len(live) + 1
      /\ \A i \in 1 .. Len(live) : new[i] = live[i]
      /\ new[Len(live) + 1] = 0
  <2>1. 0 \in 0 .. Limiter!WindowTicks
    BY <1>1
  <2>2. QED
    BY <1>2, <2>1, AppendProperties
<1> HIDE DEF new
<1>4. \A i \in 1 .. Len(new) : new[i] < Limiter!WindowTicks
  <2> SUFFICES ASSUME NEW i \in 1 .. Len(new)
               PROVE  new[i] < Limiter!WindowTicks
    OBVIOUS
  <2>1. CASE i \in 1 .. Len(live)
    BY <1>1, <1>3, <2>1
  <2>2. CASE i = Len(live) + 1
    BY <1>1, <1>3, <2>2
  <2>3. QED
    BY <1>2, <1>3, <2>1, <2>2
<1>5. Limiter!Recent(new) = new
  BY <1>3, <1>4, AllYoung
<1>6. QED
  BY <1>1, <1>5 DEF Limiter!Recorded, new, live

(* What is recent after a tick was recent before, and is younger than the   *)
(* window still.                                                            *)
LEMMA RecentAfterTick ==
  ASSUME Limiter!RateLimitAssumption, NEW ages, Aging(ages)
  PROVE  Limiter!Recent(Aged(ages)) = Limiter!Sliding!Within(Limiter!Sliding!Older(Limiter!Recent(ages)))
<1> DEFINE live == Limiter!Live(ages)
           aged == Aged(ages)
           older == [i \in DOMAIN live |-> live[i] + 1]
           L == Len(ages)
<1>1. PICK k : SplitAt(ages, k)
  BY Splits
<1>2. /\ Aging(aged) /\ Len(aged) = L /\ DOMAIN aged = 1 .. L
      /\ Aging(live) /\ Limiter!Recent(ages) = live
      /\ \A i \in 1 .. Len(live) : live[i] < Limiter!WindowTicks
      /\ Limiter!WindowTicks \in Nat \ {0}
  BY Aging1, LiveDeque, WindowIsPositive
<1>3. PICK m : SplitAt(aged, m)
  BY <1>2, Splits
<1>4. /\ L \in Nat /\ DOMAIN ages = 1 .. L
      /\ \A i \in 1 .. L : ages[i] \in 0 .. Limiter!WindowTicks
      /\ k \in 0 .. L /\ m \in 0 .. L
      /\ ages \in Seq(0 .. Limiter!WindowTicks)
  BY <1>1, <1>2, <1>3, LenProperties, ElementOfSeq DEF Aging, SplitAt
<1>5. live = SubSeq(ages, 1 + k, L)
  BY <1>1, <1>4, LiveIs
<1>6. Limiter!Recent(aged) = SubSeq(aged, 1 + m, L)
  BY <1>2, <1>3, RecentIs DEF Aging
<1>7. \A i \in 1 .. L : aged[i] = IF ages[i] < Limiter!WindowTicks THEN ages[i] + 1 ELSE Limiter!WindowTicks
  BY <1>4 DEF Aged
<1>8. k <= m
  <2> SUFFICES ASSUME m < k
               PROVE  FALSE
    BY <1>4
  <2>1. k \in 1 .. L /\ k \in 1 .. k /\ k \in m + 1 .. L
    BY <1>4
  <2>2. ages[k] >= Limiter!WindowTicks /\ aged[k] < Limiter!WindowTicks
    BY <1>1, <1>2, <1>3, <2>1 DEF SplitAt
  <2>3. QED
    BY <1>2, <1>4, <1>7, <2>1, <2>2
<1>9. /\ live \in Seq(0 .. Limiter!WindowTicks)
      /\ Len(live) = L - k
      /\ \A i \in 1 .. L - k : live[i] = ages[k + i]
  <2>1. \A i \in 1 + k .. L : ages[i] \in 0 .. Limiter!WindowTicks
    BY <1>4
  <2>2. /\ Len(live) = IF 1 + k <= L THEN L - (1 + k) + 1 ELSE 0
        /\ \A i \in 1 .. L - (1 + k) + 1 : live[i] = ages[(1 + k) + i - 1]
    <3> HIDE DEF live
    <3>1. QED
      BY <1>4, <1>5, <2>1, SubSeqProperties
  <2> HIDE DEF live, L
  <2>3. L \in Nat /\ k \in 0 .. L
    BY <1>4
  <2>4. L - (1 + k) + 1 = L - k /\ \A i \in 1 .. L - k : (1 + k) + i - 1 = k + i
    BY <2>3
  <2>5. Len(live) = L - k
    <3>1. Len(live) = IF 1 + k <= L THEN L - (1 + k) + 1 ELSE 0
      BY <2>2
    <3>2. QED
      BY <2>3, <3>1
  <2>6. \A i \in 1 .. L - k : live[i] = ages[k + i]
    BY <2>2, <2>4
  <2>7. QED
    BY <1>2, <2>5, <2>6 DEF Aging
<1> HIDE DEF live, aged, L
<1>10. /\ older \in Seq(0 .. Limiter!WindowTicks)
       /\ Len(older) = L - k
       /\ \A i \in 1 .. L - k : older[i] = live[i] + 1 /\ older[i] = aged[k + i]
  <2>1. DOMAIN live = 1 .. L - k /\ L - k \in Nat
    BY <1>4, <1>9, LenProperties
  <2>2. \A i \in 1 .. L - k : live[i] \in 0 .. Limiter!WindowTicks /\ live[i] < Limiter!WindowTicks
    BY <1>2, <1>9, ElementOfSeq
  <2>3. \A i \in 1 .. L - k : live[i] + 1 \in 0 .. Limiter!WindowTicks
    BY <1>2, <2>2
  <2>4. older = [i \in 1 .. L - k |-> live[i] + 1]
    BY <2>1
  <2>5. older \in [1 .. L - k -> 0 .. Limiter!WindowTicks]
    BY <2>3, <2>4
  <2>6. older \in Seq(0 .. Limiter!WindowTicks) /\ Len(older) = L - k
    <3> HIDE DEF older
    <3>1. older \in Seq(0 .. Limiter!WindowTicks)
      BY <2>1, <2>5, SeqDef
    <3>2. 1 .. Len(older) = 1 .. L - k /\ Len(older) \in Nat
      BY <2>5, <3>1, LenProperties
    <3>3. QED
      BY <2>1, <3>1, <3>2
  <2>7. ASSUME NEW i \in 1 .. L - k
        PROVE  older[i] = live[i] + 1 /\ older[i] = aged[k + i]
    <3>1. k + i \in 1 .. L
      BY <1>4
    <3>2. live[i] = ages[k + i] /\ ages[k + i] < Limiter!WindowTicks
      BY <1>9, <2>2
    <3>3. aged[k + i] = ages[k + i] + 1
      BY <1>7, <3>1, <3>2
    <3>4. QED
      BY <2>4, <3>2, <3>3
  <2>8. QED
    BY <2>6, <2>7
<1> HIDE DEF older
<1>11. SplitAt(older, m - k)
  <2>1. m - k \in 0 .. Len(older)
    BY <1>4, <1>8, <1>10
  <2>2. ASSUME NEW i \in 1 .. m - k
        PROVE  older[i] >= Limiter!WindowTicks
    <3>1. i \in 1 .. L - k /\ k + i \in 1 .. m
      BY <1>4, <1>8
    <3>2. QED
      BY <1>3, <1>10, <3>1 DEF SplitAt
  <2>3. ASSUME NEW i \in (m - k) + 1 .. Len(older)
        PROVE  older[i] < Limiter!WindowTicks
    <3>1. i \in 1 .. L - k /\ k + i \in m + 1 .. L
      BY <1>4, <1>8, <1>10
    <3>2. QED
      BY <1>2, <1>3, <1>10, <3>1 DEF SplitAt
  <2>4. QED
    BY <2>1, <2>2, <2>3 DEF SplitAt
<1>12. Limiter!Recent(older) = SubSeq(older, 1 + (m - k), L - k)
  BY <1>10, <1>11, RecentIs
<1>13. SubSeq(aged, 1 + m, L) = SubSeq(older, 1 + (m - k), L - k)
  <2> DEFINE s == SubSeq(aged, 1 + m, L)
             t == SubSeq(older, 1 + (m - k), L - k)
             n == L - m
  <2>1. /\ n \in Nat /\ 1 + m \in Int /\ L \in Int /\ 1 + (m - k) \in Int /\ L - k \in Int
        /\ L - (1 + m) + 1 = n /\ (L - k) - (1 + (m - k)) + 1 = n
        /\ (IF 1 + m <= L THEN n ELSE 0) = n
        /\ (IF 1 + (m - k) <= L - k THEN n ELSE 0) = n
    BY <1>4, <1>8
  <2>2. \A i \in 1 + m .. L : aged[i] \in 0 .. Limiter!WindowTicks
    <3>1. \A i \in 1 + m .. L : i \in 1 .. L
      BY <1>4
    <3>2. QED
      BY <1>2, <3>1, ElementOfSeq DEF Aging
  <2>3. \A i \in 1 + (m - k) .. L - k : older[i] \in 0 .. Limiter!WindowTicks
    <3>1. \A i \in 1 + (m - k) .. L - k : i \in 1 .. L - k
      BY <1>4, <1>8
    <3>2. QED
      BY <1>10, <3>1, ElementOfSeq
  <2>4. /\ s \in Seq(0 .. Limiter!WindowTicks) /\ Len(s) = n
        /\ \A i \in 1 .. n : s[i] = aged[(1 + m) + i - 1]
    BY <2>1, <2>2, SubSeqProperties
  <2>5. /\ t \in Seq(0 .. Limiter!WindowTicks) /\ Len(t) = n
        /\ \A i \in 1 .. n : t[i] = older[(1 + (m - k)) + i - 1]
    BY <2>1, <2>3, SubSeqProperties
  <2> HIDE DEF s, t
  <2>6. ASSUME NEW i \in 1 .. n
        PROVE  s[i] = t[i]
    <3>1. (1 + (m - k)) + i - 1 \in 1 .. L - k
      BY <1>4, <1>8
    <3>2. k + ((1 + (m - k)) + i - 1) = (1 + m) + i - 1
      BY <1>4
    <3>3. older[(1 + (m - k)) + i - 1] = aged[(1 + m) + i - 1]
      BY <1>10, <3>1, <3>2
    <3>4. QED
      BY <2>4, <2>5, <3>3
  <2>7. s = t
    BY <2>4, <2>5, <2>6, SeqEqual
  <2>8. QED
    BY <2>7 DEF s, t
<1>14. Limiter!Recent(aged) = Limiter!Recent(older)
  BY <1>6, <1>12, <1>13
<1>15. Limiter!Sliding!Older(Limiter!Recent(ages)) = older
  BY <1>2 DEF Limiter!Sliding!Older, older
<1>16. Limiter!Sliding!Within(older) = Limiter!Recent(older)
  BY DEF Limiter!Sliding!Within, Limiter!Recent
<1>17. QED
  BY <1>14, <1>15, <1>16 DEF aged

-------------------------------------------------------------------------------
(* The theorems on the limiter.                                             *)

(* The invariant that the other theorems rest on: the types, the budgets,   *)
(* and how the wait of a refused caller goes with its oldest hit.           *)
THEOREM LimiterInductive ==
  ASSUME Limiter!RateLimitAssumption
  PROVE  Limiter!Spec => []Limiter!IInv
BY LimiterInitIInv, LimiterNextIInv, PTL DEF Limiter!Spec

(* Type correctness, deques in order of age.                                *)
THEOREM LimiterTypeCorrect ==
  ASSUME Limiter!RateLimitAssumption
  PROVE  Limiter!Spec => []Limiter!TypeOK
<1>1. Limiter!IInv => Limiter!TypeOK
  BY DEF Limiter!IInv
<1>2. QED
  BY <1>1, LimiterInductive, PTL

(* Whoever waits as long as Retry-After says is within its budget again.    *)
THEOREM WaitIsEnough ==
  ASSUME Limiter!RateLimitAssumption
  PROVE  Limiter!Spec => []Limiter!WaitSuffices
<1>1. Limiter!IInv => Limiter!WaitSuffices
  <2> SUFFICES ASSUME Limiter!IInv, NEW c \in Limiter!Callers, wait[c] = 0
               PROVE  Len(Limiter!Live(hits[c])) < Limiter!LimitOf(c)
    BY DEF Limiter!WaitSuffices
  <2>1. /\ Aging(hits[c]) /\ hits[c] # <<>> /\ Len(hits[c]) <= Limiter!LimitOf(c)
        /\ Limiter!WindowTicks - hits[c][1] <= 0
    BY DEF Limiter!IInv, Limiter!TypeOK, Limiter!WaitsForTheOldest, Aging, Limiter!NoWait
  <2>2. Len(hits[c]) \in Nat /\ Limiter!LimitOf(c) \in Int /\ Limiter!WindowTicks \in Nat
    BY <2>1, LimitsAreNumbers, WindowIsPositive, LenProperties DEF Aging
  <2>3. hits[c][1] \in 0 .. Limiter!WindowTicks
    <3>1. 1 \in 1 .. Len(hits[c])
      BY <2>1, <2>2, EmptySeq DEF Aging
    <3>2. QED
      BY <2>1, <3>1, ElementOfSeq DEF Aging
  <2>4. hits[c][1] >= Limiter!WindowTicks
    BY <2>1, <2>2, <2>3
  <2>5. Len(Limiter!Live(hits[c])) < Len(hits[c]) /\ Aging(Limiter!Live(hits[c]))
    BY <2>1, <2>4, LiveDeque
  <2>6. Len(Limiter!Live(hits[c])) \in Nat
    BY <2>5, LenProperties DEF Aging
  <2>7. QED
    BY <2>1, <2>2, <2>5, <2>6
<1>2. QED
  BY <1>1, LimiterInductive, PTL

(* And Retry-After is at most a second longer than that.                    *)
THEOREM WaitIsNoLonger ==
  ASSUME Limiter!RateLimitAssumption
  PROVE  Limiter!Spec => []Limiter!WaitIsShort
<1>1. Limiter!IInv => Limiter!WaitIsShort
  BY DEF Limiter!IInv, Limiter!WaitsForTheOldest, Limiter!WaitIsShort
<1>2. QED
  BY <1>1, LimiterInductive, PTL

LEMMA NothingIsRecent ==
  ASSUME Limiter!RateLimitAssumption
  PROVE  Limiter!Recent(<<>>) = <<>>
<1>1. <<>> \in Seq(0 .. Limiter!WindowTicks) /\ Len(<<>>) = 0 /\ 1 .. 0 = {}
  OBVIOUS
<1>2. \A i \in 1 .. Len(<<>>) : <<>>[i] < Limiter!WindowTicks
  BY <1>1
<1>3. QED
  BY <1>1, <1>2, AllYoung

LEMMA StepSlides ==
  ASSUME Limiter!RateLimitAssumption, Limiter!IInv, [Limiter!Next]_(Limiter!vars)
  PROVE  [Limiter!Sliding!SNext]_(Limiter!Sliding!svars)
<1> DEFINE recent == [c \in Limiter!Callers |-> Limiter!Recent(hits[c])]
<1>1. \A c \in Limiter!Callers : Aging(hits[c])
  BY DEF Limiter!IInv, Limiter!TypeOK, Aging
<1>2. hits \in [Limiter!Callers -> Seq(0 .. Limiter!WindowTicks)]
  BY DEF Limiter!IInv, Limiter!TypeOK
<1>3. \A c \in Limiter!Callers : Limiter!Recent(hits[c]) = Limiter!Live(hits[c])
  BY <1>1, LiveDeque
<1>4. ASSUME NEW r \in Limiter!Requests, Limiter!Ask(r)
      PROVE  [Limiter!Sliding!SNext]_(Limiter!Sliding!svars)
  <2> DEFINE c == Limiter!CallerOf(r)
  <2>1. c \in Limiter!Callers
    BY CallersOfRequests
  <2> HIDE DEF c
  <2>2. CASE Limiter!Unguarded(r)
    BY <2>2 DEF Limiter!Unguarded, Limiter!vars, Limiter!Sliding!svars
  <2>3. CASE Limiter!Pass(r)
    BY <2>1, <2>3 DEF Limiter!Pass, Limiter!Sliding!SNext, Limiter!Sliding!SPass, c
  <2>4. CASE Limiter!Admit(r)
    <3>1. /\ Len(Limiter!Live(hits[c])) < Limiter!LimitOf(c)
          /\ hits' = [hits EXCEPT ![c] = Limiter!Recorded(Limiter!Live(hits[c]))]
          /\ answer' = [answer EXCEPT ![c] = "admitted"]
      BY <2>4 DEF Limiter!Admit, c
    <3>2. Limiter!Recent(hits'[c]) = Append(Limiter!Recent(hits[c]), 0)
      BY <1>1, <1>2, <2>1, <3>1, RecentAfterAdmission
    <3>3. \A b \in Limiter!Callers : b # c => Limiter!Recent(hits'[b]) = Limiter!Recent(hits[b])
      BY <1>2, <3>1
    <3>4. recent' = [recent EXCEPT ![c] = Append(Limiter!Recent(hits[c]), 0)]
      BY <2>1, <3>2, <3>3
    <3>5. recent[c] = Limiter!Recent(hits[c]) /\ Len(recent[c]) < Limiter!LimitOf(c)
      BY <1>3, <2>1, <3>1
    <3>6. Limiter!Sliding!SAdmit(c)
      BY <3>1, <3>4, <3>5 DEF Limiter!Sliding!SAdmit
    <3>7. QED
      BY <2>1, <3>6 DEF Limiter!Sliding!SNext
  <2>5. CASE Limiter!Refuse(r)
    <3>1. /\ 0 < Limiter!LimitOf(c) /\ Limiter!LimitOf(c) <= Len(Limiter!Live(hits[c]))
          /\ hits' = [hits EXCEPT ![c] = Limiter!Live(hits[c])]
          /\ answer' = [answer EXCEPT ![c] = "refused"]
      BY <2>5 DEF Limiter!Refuse, Limiter!AfterRefusal, c
    <3>2. Limiter!Recent(hits'[c]) = Limiter!Recent(hits[c])
      BY <1>1, <1>2, <2>1, <3>1, LiveDeque
    <3>3. \A b \in Limiter!Callers : Limiter!Recent(hits'[b]) = Limiter!Recent(hits[b])
      BY <1>2, <3>1, <3>2
    <3>4. recent' = recent
      BY <3>3
    <3>5. recent[c] = Limiter!Live(hits[c])
      BY <1>3, <2>1
    <3>6. Limiter!Sliding!SRefuse(c)
      BY <3>1, <3>4, <3>5 DEF Limiter!Sliding!SRefuse
    <3>7. QED
      BY <2>1, <3>6 DEF Limiter!Sliding!SNext
  <2>6. QED
    BY <1>4, <2>2, <2>3, <2>4, <2>5 DEF Limiter!Ask
<1>5. CASE Limiter!Tick
  <2>1. hits' = [c \in Limiter!Callers |-> Aged(hits[c])] /\ UNCHANGED answer
    BY <1>5 DEF Limiter!Tick, Aged
  <2>2. \A c \in Limiter!Callers : Limiter!Recent(hits'[c]) = Limiter!Sliding!Within(Limiter!Sliding!Older(recent[c]))
    BY <1>1, <2>1, RecentAfterTick
  <2>3. recent' = [c \in Limiter!Callers |-> Limiter!Sliding!Within(Limiter!Sliding!Older(recent[c]))]
    BY <2>2
  <2>4. Limiter!Sliding!STick
    BY <2>1, <2>3 DEF Limiter!Sliding!STick
  <2>5. QED
    BY <2>4 DEF Limiter!Sliding!SNext
<1>6. CASE Limiter!Restart
  <2>1. Limiter!Sliding!SInit'
    BY <1>6, NothingIsRecent DEF Limiter!Restart, Limiter!Sliding!SInit
  <2>2. QED
    BY <2>1 DEF Limiter!Sliding!SNext, Limiter!Sliding!SRestart
<1>7. CASE UNCHANGED Limiter!vars
  BY <1>7 DEF Limiter!vars, Limiter!Sliding!svars
<1>8. QED
  BY <1>4, <1>5, <1>6, <1>7 DEF Limiter!Next

(* The pruned deques implement the sliding window: in no window more than   *)
(* the limit is let through, and none is refused before that.               *)
THEOREM LimiterRefinement ==
  ASSUME Limiter!RateLimitAssumption
  PROVE  Limiter!Spec => Limiter!SlidesOverTheWindow
<1>1. Limiter!Init => Limiter!Sliding!SInit
  BY NothingIsRecent DEF Limiter!Init, Limiter!Sliding!SInit
<1>2. Limiter!IInv /\ [Limiter!Next]_(Limiter!vars) => [Limiter!Sliding!SNext]_(Limiter!Sliding!svars)
  BY StepSlides
<1>3. QED
  BY <1>1, <1>2, LimiterInductive, PTL DEF Limiter!Spec, Limiter!SlidesOverTheWindow, Limiter!Sliding!SSpec

-------------------------------------------------------------------------------
(* The composition.                                                         *)

LEMMA LimiterRuns == MCSpec => Limiter!Spec
<1>1. MCInit => Limiter!Init
  BY DEF MCInit
<1>2. [MCNext]_<<scene, vars, limits>> => [Limiter!Next]_(Limiter!vars)
  <2> SUFFICES ASSUME [MCNext]_<<scene, vars, limits>>
               PROVE  Limiter!Next \/ UNCHANGED limits
    BY DEF Limiter!vars, limits
  <2>1. CASE MCNext
    BY <2>1, Zenon DEF MCNext
  <2>2. CASE UNCHANGED <<scene, vars, limits>>
    BY <2>2, Zenon
  <2>3. QED
    BY <2>1, <2>2
<1>3. QED
  BY <1>1, <1>2, PTL DEF MCSpec, Limiter!Spec

(* The invariant behind the login part.                                     *)
LEMMA LoginsKeep == MCSpec => [](IInv /\ (scene = "one login" => KeptBy(t1)))
<1> DEFINE Kept == IInv /\ (scene = "one login" => KeptBy(t1))
<1>1. MCInit => Kept
  BY InitIInv DEF MCInit, KeptBy, Init
<1>2. Kept /\ [MCNext]_<<scene, vars, limits>> => Kept'
  <2> SUFFICES ASSUME Kept, [MCNext]_<<scene, vars, limits>>
               PROVE  Kept'
    OBVIOUS
  <2>1. CASE scene = "logins" /\ Next /\ UNCHANGED scene
    BY <2>1, NextIInv
  <2>2. CASE scene = "one login" /\ LoginsOfOne /\ UNCHANGED scene
    <3>1. Next
      BY <2>2, GateAssumption DEF LoginsOfOne, Next
    <3>2. QED
      BY <2>2, <3>1, NextIInv, KeptStep
  <2>3. CASE UNCHANGED <<scene, vars>>
    <3>1. IInv'
      BY <2>3, NextIInv
    <3>2. KeptBy(t1) => KeptBy(t1)'
      BY <2>3 DEF KeptBy, Recent, vars
    <3>3. QED
      BY <2>3, <3>1, <3>2
  <2>4. QED
    BY <2>1, <2>2, <2>3 DEF MCNext
<1>3. QED
  BY <1>1, <1>2, PTL DEF MCSpec

(* Nobody is turned away for nothing, or for too long: not by the lockout,  *)
(* however the logins of threads interleave, and not by the rate limiter.   *)
THEOREM Justified == MCSpec => []RefusalsAreJustified
<1>1. IInv /\ (scene = "one login" => KeptBy(t1)) =>
        TypeOK /\ LockoutJustified /\ (scene = "one login" => FailuresCount)
  BY GateAssumption DEF IInv, KeptBy, FailuresCount
<1>2. /\ TypeOK /\ LockoutJustified /\ (scene = "one login" => FailuresCount)
      /\ Limiter!TypeOK /\ Limiter!WaitSuffices /\ Limiter!WaitIsShort
      => RefusalsAreJustified
  BY DEF RefusalsAreJustified
<1>3. QED
  BY <1>1, <1>2, LimiterTypeCorrect, WaitIsEnough, WaitIsNoLonger, GateAssumption,
     LoginsKeep, LimiterRuns, PTL

(* The rate limiter lets through, in no window, more than its limit, and    *)
(* refuses nobody before that: its pruned deques are a sliding window.      *)
THEOREM LimiterSlides == MCSpec => SlidesOverTheWindow
BY LimiterRefinement, LimiterRuns, GateAssumption, PTL DEF SlidesOverTheWindow

===============================================================================
