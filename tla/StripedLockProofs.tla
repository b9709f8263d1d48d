-------------------------- MODULE StripedLockProofs --------------------------
(***************************************************************************)
(* Proofs about StripedLock, for every number of threads, keys and         *)
(* stripes and for every hash function.                                    *)
(***************************************************************************)
EXTENDS StripedLock, WellFoundedInduction, TLAPS

Guarded(t) == {StripeIndex(k) : k \in asked[t]}

(* What a waiting thread t has and lacks: either everything is still to be *)
(* taken, in ascending order, or only stripe i is and all it holds is      *)
(* below i.                                                                *)
Waiting(t) ==
  \/ \E i \in Stripe :
       /\ want[t] = <<i>>
       /\ Held(t) \cup {i} = Guarded(t)
       /\ \A s \in Held(t) : s < i
  \/ \E i, j \in Stripe :
       /\ want[t] = <<i, j>>
       /\ i < j
       /\ Held(t) = {}
       /\ {i, j} = Guarded(t)

(* The inductive invariant.                                                *)
Progress(t) ==
  /\ pc[t] = "idle" => Held(t) = {}
  /\ pc[t] = "taking" => Waiting(t)
  /\ pc[t] = "inside" => Held(t) = Guarded(t)

LockInv == TypeOK /\ \A t \in Thread : Progress(t)

-----------------------------------------------------------------------------

(* The index of every key is the index of a mutex of the array.            *)
LEMMA StripeIndexType == \A k \in Key : StripeIndex(k) \in Stripe
  BY StripesAssumption, HashAssumption DEF StripeIndex, Stripe

(* The locking order of two stripes is a sequence of stripes.              *)
LEMMA LockOrderType ==
  ASSUME NEW i \in Stripe, NEW j \in Stripe
  PROVE  LockOrder(i, j) \in Seq(Stripe)
  BY DEF LockOrder

(* Initially nothing is held and nobody waits.                             *)
LEMMA InitLockInv == Init => LockInv
  <1> SUFFICES ASSUME Init PROVE LockInv
    OBVIOUS
  <1>1. TypeOK
    BY MaxCallsAssumption DEF Init, TypeOK
  <1>2. \A t \in Thread : Held(t) = {}
    BY NobodyAssumption DEF Init, Held
  <1>3. QED
    BY <1>1, <1>2 DEF Init, LockInv, Progress

(* A call asks for stripes in ascending order.                             *)
LEMMA BeginStep ==
  ASSUME LockInv, NEW t \in Thread, NEW a \in Key, NEW b \in Key,
         Begin(t, {a, b}, LockOrder(StripeIndex(a), StripeIndex(b)))
  PROVE  LockInv'
  <1> DEFINE i == StripeIndex(a)
             j == StripeIndex(b)
  <1>1. i \in Stripe /\ j \in Stripe
    BY StripeIndexType
  <1>2. TypeOK'
    BY <1>1, LockOrderType, MaxCallsAssumption DEF LockInv, TypeOK, Begin
  <1>3. \A u \in Thread : Held(u)' = Held(u)
    BY DEF Begin, Held
  <1>4. ASSUME NEW u \in Thread, u # t PROVE Progress(u)'
    <2>1. /\ pc'[u] = pc[u]
          /\ asked'[u] = asked[u]
          /\ want'[u] = want[u]
      BY <1>4 DEF LockInv, TypeOK, Begin
    <2>2. Guarded(u)' = Guarded(u)
      BY <2>1 DEF Guarded
    <2>3. QED
      BY <1>3, <2>1, <2>2 DEF LockInv, Progress, Waiting
  <1>5. Progress(t)'
    <2>1. /\ pc'[t] = "taking"
          /\ asked'[t] = {a, b}
          /\ want'[t] = LockOrder(i, j)
      BY DEF LockInv, TypeOK, Begin
    <2>2. Guarded(t)' = {i, j}
      BY <2>1 DEF Guarded, StripeIndex
    <2>3. Held(t)' = {}
      BY <1>3 DEF LockInv, Progress, Begin
    <2>4. CASE i = j
      <3>1. want'[t] = <<i>>
        BY <2>1, <2>4 DEF LockOrder
      <3>2. QED
        BY <1>1, <2>1, <2>2, <2>3, <2>4, <3>1 DEF Progress, Waiting
    <2>5. CASE i < j
      <3>1. want'[t] = <<i, j>>
        BY <1>1, <2>1, <2>5 DEF LockOrder, Stripe
      <3>2. QED
        BY <1>1, <2>1, <2>2, <2>3, <2>5, <3>1 DEF Progress, Waiting
    <2>6. CASE j < i
      <3>1. want'[t] = <<j, i>>
        BY <1>1, <2>1, <2>6 DEF LockOrder, Stripe
      <3>2. QED
        BY <1>1, <2>1, <2>2, <2>3, <2>6, <3>1 DEF Progress, Waiting
    <2>7. QED
      BY <1>1, <2>4, <2>5, <2>6 DEF Stripe
  <1>6. QED
    BY <1>2, <1>4, <1>5 DEF LockInv

(* Taking the stripe at the head of the queue keeps the rest ascending.    *)
LEMMA TakeStep ==
  ASSUME LockInv, NEW t \in Thread, Take(t)
  PROVE  /\ LockInv'
         /\ pc'[t] = "inside" => Held(t)' = Guarded(t)'
  <1> DEFINE s == Head(want[t])
             rest == Tail(want[t])
  <1>1. pc[t] = "taking" /\ Waiting(t)
    BY DEF LockInv, Progress, Take
  <1>2. s \in Stripe /\ rest \in Seq(Stripe)
    <2>1. CASE \E i \in Stripe : want[t] = <<i>>
      BY <2>1
    <2>2. CASE \E i, j \in Stripe : want[t] = <<i, j>>
      <3>1. PICK i \in Stripe, j \in Stripe : want[t] = <<i, j>>
        BY <2>2
      <3>2. s = i /\ rest = <<j>>
        BY <3>1
      <3>3. QED
        BY <3>1, <3>2
    <2>3. QED
      BY <1>1, <2>1, <2>2 DEF Waiting
  <1>3. TypeOK'
    BY <1>2 DEF LockInv, TypeOK, Take
  <1>4. Held(t)' = Held(t) \cup {s}
    BY <1>2 DEF LockInv, TypeOK, Take, Held
  <1>5. \A u \in Thread : Guarded(u)' = Guarded(u)
    BY DEF Take, Guarded
  <1>6. ASSUME NEW u \in Thread, u # t PROVE Progress(u)'
    <2>1. pc'[u] = pc[u] /\ want'[u] = want[u]
      BY <1>6 DEF LockInv, TypeOK, Take
    <2>2. Held(u)' = Held(u)
      BY <1>2, <1>6, NobodyAssumption DEF LockInv, TypeOK, Take, Held
    <2>3. QED
      BY <1>5, <2>1, <2>2 DEF LockInv, Progress, Waiting
  <1>7. Progress(t)'
    <2>1. CASE \E i \in Stripe : /\ want[t] = <<i>>
                                 /\ Held(t) \cup {i} = Guarded(t)
      <3>1. rest = <<>> /\ Held(t) \cup {s} = Guarded(t)
        BY <2>1
      <3>2. pc'[t] = "inside"
        BY <3>1 DEF LockInv, TypeOK, Take
      <3>3. QED
        BY <1>4, <1>5, <3>1, <3>2 DEF Progress
    <2>2. CASE \E i, j \in Stripe : /\ want[t] = <<i, j>>
                                    /\ i < j
                                    /\ Held(t) = {}
                                    /\ {i, j} = Guarded(t)
      <3>1. PICK i \in Stripe, j \in Stripe : /\ want[t] = <<i, j>>
                                              /\ i < j
                                              /\ Held(t) = {}
                                              /\ {i, j} = Guarded(t)
        BY <2>2
      <3>2. s = i /\ rest = <<j>>
        BY <3>1
      <3>3. pc'[t] = "taking" /\ want'[t] = <<j>>
        <4>1. rest # <<>>
          BY <3>2
        <4>2. want'[t] = rest /\ pc'[t] = IF rest = <<>> THEN "inside" ELSE "taking"
          BY DEF LockInv, TypeOK, Take
        <4>3. QED
          BY <3>2, <4>1, <4>2
      <3>4. Held(t)' = {i}
        BY <1>4, <3>1, <3>2
      <3>5. QED
        BY <1>5, <3>1, <3>3, <3>4 DEF Progress, Waiting
    <2>3. QED
      BY <1>1, <2>1, <2>2 DEF Waiting
  <1>8. QED
    BY <1>3, <1>6, <1>7 DEF LockInv, Progress

(* Dropping a guard gives a stripe back and touches no other thread.       *)
LEMMA DropStep ==
  ASSUME LockInv, NEW t \in Thread, Drop(t)
  PROVE  LockInv' /\ pc'[t] \in {"idle", "dropping"}
  <1>1. PICK s \in Held(t) :
          /\ owner' = [owner EXCEPT ![s] = Nobody]
          /\ pc' = [pc EXCEPT ![t] = IF Held(t) = {s} THEN "idle" ELSE "dropping"]
    BY DEF Drop
  <1>2. s \in Stripe /\ owner[s] = t
    BY DEF Held
  <1>3. TypeOK'
    BY <1>1, <1>2 DEF LockInv, TypeOK, Drop
  <1>4. Held(t)' = Held(t) \ {s}
    BY <1>1, <1>2, NobodyAssumption DEF LockInv, TypeOK, Held
  <1>5. ASSUME NEW u \in Thread, u # t PROVE Progress(u)'
    <2>1. pc'[u] = pc[u] /\ want'[u] = want[u] /\ asked'[u] = asked[u]
      BY <1>1, <1>5 DEF LockInv, TypeOK, Drop
    <2>2. Held(u)' = Held(u)
      BY <1>1, <1>2, <1>5, NobodyAssumption DEF LockInv, TypeOK, Held
    <2>3. Guarded(u)' = Guarded(u)
      BY <2>1 DEF Guarded
    <2>4. QED
      BY <2>1, <2>2, <2>3 DEF LockInv, Progress, Waiting
  <1>6. pc'[t] = "idle" => Held(t)' = {}
    BY <1>1, <1>4 DEF LockInv, TypeOK
  <1>7. pc'[t] \in {"idle", "dropping"}
    BY <1>1 DEF LockInv, TypeOK
  <1>8. QED
    BY <1>3, <1>5, <1>6, <1>7 DEF LockInv, Progress

(* The invariant is inductive.                                             *)
LEMMA NextLockInv == LockInv /\ [Next]_vars => LockInv'
  <1> SUFFICES ASSUME LockInv, [Next]_vars PROVE LockInv'
    OBVIOUS
  <1>1. ASSUME NEW t \in Thread, NEW k \in Key, CallLock(t, k) PROVE LockInv'
    <2>1. /\ {k, k} = {k}
          /\ LockOrder(StripeIndex(k), StripeIndex(k)) = <<StripeIndex(k)>>
      BY DEF LockOrder
    <2>2. Begin(t, {k, k}, LockOrder(StripeIndex(k), StripeIndex(k)))
      BY <1>1, <2>1 DEF CallLock
    <2>3. QED
      BY <2>2, BeginStep
  <1>2. ASSUME NEW t \in Thread, NEW a \in Key, NEW b \in Key, CallLockTwo(t, a, b)
        PROVE  LockInv'
    BY <1>2, BeginStep DEF CallLockTwo
  <1>3. ASSUME NEW t \in Thread, Take(t) PROVE LockInv'
    BY <1>3, TakeStep
  <1>4. ASSUME NEW t \in Thread, Drop(t) PROVE LockInv'
    BY <1>4, DropStep
  <1>5. CASE UNCHANGED vars
    <2>1. TypeOK'
      BY <1>5 DEF vars, LockInv, TypeOK
    <2>2. ASSUME NEW t \in Thread PROVE Progress(t)'
      <3>1. Held(t)' = Held(t) /\ Guarded(t)' = Guarded(t)
        BY <1>5 DEF vars, Held, Guarded
      <3>2. QED
        BY <1>5, <3>1 DEF vars, LockInv, Progress, Waiting
    <2>3. QED
      BY <2>1, <2>2 DEF LockInv
  <1>6. QED
    BY <1>1, <1>2, <1>3, <1>4, <1>5 DEF Next, Step, Rest

(* Type correctness and the lock invariant hold in every reachable state.  *)
THEOREM LockInvariant == Spec => []LockInv
  BY InitLockInv, NextLockInv, PTL DEF Spec

(* TypeOK for all constants.                                               *)
THEOREM TypeCorrect == Spec => []TypeOK
  <1>1. LockInv => TypeOK
    BY DEF LockInv
  <1>2. QED
    BY <1>1, LockInvariant, PTL

-----------------------------------------------------------------------------

(* Two threads inside never guard a common stripe.                         *)
LEMMA InsideDisjoint ==
  ASSUME LockInv, NEW t \in Thread, NEW u \in Thread, t # u, pc[t] = "inside"
  PROVE  Guarded(t) \cap Held(u) = {}
  BY DEF LockInv, Progress, Held

(* Mutual exclusion on keys: the guards a caller gets back cover all the   *)
(* keys it named.                                                          *)
THEOREM MutualExclusion == Spec => []GuardsCoverKeys
  <1>1. LockInv => GuardsCoverKeys
    <2> SUFFICES ASSUME LockInv, NEW t \in Thread, NEW u \in Thread, t # u,
                        pc[t] = "inside", pc[u] = "inside",
                        NEW a \in asked[t], NEW b \in asked[u]
                 PROVE  StripeIndex(a) # StripeIndex(b)
      BY DEF GuardsCoverKeys
    <2>1. StripeIndex(a) \in Guarded(t) /\ StripeIndex(b) \in Guarded(u)
      BY DEF Guarded
    <2>2. Held(u) = Guarded(u)
      BY DEF LockInv, Progress
    <2>3. QED
      BY <2>1, <2>2, InsideDisjoint
  <1>2. QED
    BY <1>1, LockInvariant, PTL

-----------------------------------------------------------------------------

(* A nonempty set of naturals has a least element.                         *)
LEMMA LeastNatural ==
  ASSUME NEW T \in SUBSET Nat, T # {}
  PROVE  \E n \in T : \A m \in T : n <= m
  <1> DEFINE R == OpToRel(<, Nat)
  <1>1. IsWellFoundedOn(R, Nat)
    BY NatLessThanWellFounded
  <1>2. PICK n \in T : \A m \in T : <<m, n>> \notin R
    <2> HIDE DEF R
    <2>1. QED
      BY <1>1, WFMin
  <1>3. \A m \in T : ~(m < n)
    BY <1>2 DEF OpToRel
  <1>4. QED
    BY <1>3

(* A thread that t waits for, if it waits itself, waits for a higher       *)
(* stripe.                                                                 *)
LEMMA WaitsUpwards ==
  ASSUME LockInv, NEW t \in Thread, NEW u \in Thread,
         WaitsFor(t, u), pc[u] = "taking"
  PROVE  /\ Head(want[t]) \in Stripe
         /\ Head(want[u]) \in Stripe
         /\ Head(want[t]) < Head(want[u])
  <1>1. Waiting(t) /\ Waiting(u)
    BY DEF LockInv, Progress, WaitsFor
  <1>2. Head(want[t]) \in Stripe
    BY <1>1 DEF Waiting
  <1>3. Head(want[t]) \in Held(u)
    BY <1>2 DEF WaitsFor, Held
  <1>4. PICK i \in Stripe : want[u] = <<i>> /\ \A s \in Held(u) : s < i
    BY <1>1, <1>3 DEF Waiting
  <1>5. Head(want[u]) = i
    BY <1>4
  <1>6. QED
    BY <1>2, <1>3, <1>4, <1>5

(* Ascending acquisition leaves no cycle of waiting threads: the thread    *)
(* that waits for the highest stripe waits for no waiting thread.          *)
THEOREM DeadlockFreedom == Spec => []NoHoldAndWaitCycle
  <1>1. LockInv => NoHoldAndWaitCycle
    <2> SUFFICES ASSUME LockInv, NEW S \in (SUBSET Thread) \ {{}},
                        \A t \in S : \E u \in S : WaitsFor(t, u)
                 PROVE  FALSE
      BY DEF NoHoldAndWaitCycle
    <2> DEFINE Gap(t) == NStripes - Head(want[t])
               Gaps == {Gap(t) : t \in S}
    <2>1. \A t \in S : t \in Thread /\ pc[t] = "taking"
      BY DEF WaitsFor
    <2>2. \A t \in S : Gap(t) \in Nat
      <3> SUFFICES ASSUME NEW t \in S PROVE Gap(t) \in Nat
        OBVIOUS
      <3>1. PICK u \in S : WaitsFor(t, u)
        OBVIOUS
      <3>2. Head(want[t]) \in Stripe
        BY <2>1, <3>1, WaitsUpwards
      <3>3. QED
        BY <3>2, StripesAssumption DEF Stripe
    <2>3. Gaps \in SUBSET Nat /\ Gaps # {}
      BY <2>2
    <2>4. PICK n \in Gaps : \A m \in Gaps : n <= m
      BY <2>3, LeastNatural
    <2>5. PICK t \in S : n = Gap(t)
      BY <2>4
    <2>6. PICK u \in S : WaitsFor(t, u)
      BY <2>5
    <2>7. /\ Head(want[t]) \in Stripe
          /\ Head(want[u]) \in Stripe
          /\ Head(want[t]) < Head(want[u])
      BY <2>1, <2>6, WaitsUpwards
    <2>8. Gap(u) < Gap(t)
      BY <2>7, StripesAssumption DEF Stripe
    <2>9. Gap(t) <= Gap(u)
      BY <2>4, <2>5
    <2>10. QED
      BY <2>2, <2>8, <2>9
  <1>2. QED
    BY <1>1, LockInvariant, PTL

-----------------------------------------------------------------------------

(* What a thread holds in the abstract table is what it guards while it is *)
(* inside.                                                                 *)
LEMMA InsideGuarded ==
  \A t : Inside(t) = IF pc[t] = "inside" THEN Guarded(t) ELSE {}
  BY DEF Inside, Guarded

(* A step that leaves t where it is, or moves it between states outside,   *)
(* leaves what t holds in the table alone.                                 *)
LEMMA InsideSame ==
  ASSUME NEW t \in Thread, asked'[t] = asked[t],
         (pc'[t] = "inside") <=> (pc[t] = "inside")
  PROVE  Inside(t)' = Inside(t)
  BY DEF Inside, StripeIndex

(* The mutex array implements the lock table: a call that has not returned *)
(* holds nothing, the last Mutex::lock acquires every stripe of the call   *)
(* at once, the first dropped guard gives all of them back.                *)
THEOREM Refinement == Spec => ImplementsTable
  <1> DEFINE H == [t \in Thread |-> Inside(t)]
  <1>1. Init => Table!TableInit
    BY DEF Init, Table!TableInit, Inside
  <1>2. LockInv /\ [Next]_vars => [Table!TableNext]_H
    <2> SUFFICES ASSUME LockInv, [Next]_vars PROVE Table!TableNext \/ H' = H
      OBVIOUS
    <2>1. ASSUME NEW t \in Thread, NEW keys, NEW stripes, Begin(t, keys, stripes)
          PROVE  H' = H
      <3>1. ASSUME NEW u \in Thread PROVE Inside(u)' = Inside(u)
        <4>1. pc[t] # "inside" /\ pc'[t] # "inside"
          BY <2>1 DEF LockInv, TypeOK, Begin
        <4>2. CASE u = t
          BY <4>1, <4>2 DEF Inside
        <4>3. CASE u # t
          BY <2>1, <4>3, InsideSame DEF LockInv, TypeOK, Begin
        <4>4. QED
          BY <4>2, <4>3
      <3>2. QED
        BY <3>1
    <2>2. ASSUME NEW t \in Thread, Take(t)
          PROVE  Table!TableNext \/ H' = H
      <3>1. ASSUME NEW u \in Thread, u # t PROVE Inside(u)' = Inside(u)
        BY <2>2, <3>1, InsideSame DEF LockInv, TypeOK, Take
      <3>2. pc[t] = "taking" /\ Inside(t) = {}
        BY <2>2 DEF Take, Inside
      <3>3. pc'[t] \in {"inside", "taking"}
        BY <2>2 DEF LockInv, TypeOK, Take
      <3>4. CASE pc'[t] = "taking"
        <4>1. Inside(t)' = Inside(t)
          BY <3>2, <3>4 DEF Inside
        <4>2. QED
          BY <3>1, <4>1
      <3>5. CASE pc'[t] = "inside"
        <4> DEFINE K == Guarded(t)'
        <4>1. LockInv' /\ Held(t)' = K
          BY <2>2, <3>5, TakeStep
        <4>2. Inside(t)' = K
          BY <3>5 DEF Inside, Guarded
        <4>3. K \in SUBSET Stripe
          BY <4>1 DEF Held
        <4>4. ASSUME NEW u \in Thread \ {t} PROVE Inside(u) \cap K = {}
          <5>1. pc[u] = "inside" => Guarded(u) \cap Held(t)' = {}
            <6>1. pc'[u] = pc[u]
              BY <2>2 DEF LockInv, TypeOK, Take
            <6>2. pc[u] = "inside" => Held(u)' = Guarded(u)'
              BY <4>1, <6>1 DEF LockInv, Progress
            <6>3. Guarded(u)' = Guarded(u)
              BY <2>2 DEF Take, Guarded
            <6>4. Held(u)' \cap Held(t)' = {}
              BY DEF Held
            <6>5. QED
              BY <6>2, <6>3, <6>4
          <5>2. QED
            BY <4>1, <5>1, InsideGuarded
        <4>5. H' = [H EXCEPT ![t] = K]
          BY <3>1, <4>2
        <4>6. Table!Acquire(t, K)
          BY <3>2, <4>4, <4>5 DEF Table!Acquire
        <4>7. K # {}
          <5>1. Head(want[t]) \in Held(t)'
            BY <2>2, <4>1 DEF LockInv, TypeOK, Progress, Waiting, Take, Held
          <5>2. QED
            BY <4>1, <5>1
        <4>8. QED
          BY <4>3, <4>6, <4>7 DEF Table!TableNext
      <3>6. QED
        BY <3>3, <3>4, <3>5
    <2>3. ASSUME NEW t \in Thread, Drop(t)
          PROVE  Table!TableNext \/ H' = H
      <3>1. ASSUME NEW u \in Thread, u # t PROVE Inside(u)' = Inside(u)
        BY <2>3, <3>1, InsideSame DEF LockInv, TypeOK, Drop
      <3>2. Inside(t)' = {}
        BY <2>3, DropStep DEF Inside
      <3>3. CASE pc[t] = "inside"
        <4>1. Inside(t) = Held(t)
          BY <3>3, InsideGuarded DEF LockInv, Progress
        <4>2. Held(t) # {}
          BY <2>3 DEF Drop
        <4>3. H' = [H EXCEPT ![t] = {}]
          BY <3>1, <3>2
        <4>4. Table!Release(t)
          BY <4>1, <4>2, <4>3 DEF Table!Release
        <4>5. QED
          BY <4>4 DEF Table!TableNext
      <3>4. CASE pc[t] # "inside"
        <4>1. Inside(t) = {}
          BY <3>4 DEF Inside
        <4>2. QED
          BY <3>1, <3>2, <4>1
      <3>5. QED
        BY <3>3, <3>4
    <2>4. CASE UNCHANGED vars
      BY <2>4 DEF vars, Inside, StripeIndex
    <2>5. QED
      BY <2>1, <2>2, <2>3, <2>4 DEF Next, Step, Rest, CallLock, CallLockTwo
  <1>3. QED
    BY <1>1, <1>2, LockInvariant, PTL DEF Spec, ImplementsTable, Table!TableSpec

==============================================================================
