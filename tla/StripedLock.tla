----------------------------- MODULE StripedLock -----------------------------
(***************************************************************************)
(* concurrency.rs: an array of NStripes mutexes, picked by the hash of a   *)
(* key.  A thread calls lock (one key) or lock_two (two keys), takes the   *)
(* mutexes one after another, stays inside, and drops the guards.          *)
(*                                                                         *)
(* The std mutexes are external: a mutex is its owner, a lock attempt on   *)
(* an owned mutex waits, and re-locking one's own mutex waits for ever.    *)
(***************************************************************************)
EXTENDS Naturals, Sequences

CONSTANTS Thread,     \* the threads of the process
          Key,        \* the strings that are locked (unique ids and paths)
          NStripes,   \* the const generic N; HyperbolicTreeTensor uses 64
          Hash,       \* DefaultHasher on a key
          Nobody,     \* the owner of a free mutex
          MaxCalls    \* bound: how many lock calls one thread makes

ASSUME StripesAssumption == NStripes \in Nat \ {0}
ASSUME HashAssumption == Hash \in [Key -> Nat]
ASSUME NobodyAssumption == Nobody \notin Thread
ASSUME MaxCallsAssumption == MaxCalls \in Nat

VARIABLES pc,      \* pc[t]: "idle", "taking", "inside" or "dropping"
          asked,   \* asked[t]: the keys of the call in progress
          want,    \* want[t]: the stripes still to be locked, in order
          owner,   \* owner[s]: the thread that has mutex s, or Nobody
          calls    \* calls[t]: how many calls t has made

vars == <<pc, asked, want, owner, calls>>

Stripe == 0 .. NStripes - 1

(* Wrong variants of the next two definitions, for checking that the       *)
(* properties notice: no reduction modulo N; stripes in argument order; no *)
(* guard for the higher stripe; no case for two keys on one stripe.        *)
StripeIndexUnreduced(k) == Hash[k]
LockOrderOfArguments(i, j) == IF i = j THEN <<i>> ELSE <<i, j>>
LockOrderLowerOnly(i, j) == IF i < j THEN <<i>> ELSE <<j>>
LockOrderTwice(i, j) == IF i < j THEN <<i, j>> ELSE <<j, i>>

(* The index of the mutex that guards a key.                               *)
StripeIndex(k) == Hash[k] % NStripes

(* The order in which lock_two locks two stripes: the lower index first,   *)
(* and a stripe that guards both keys only once.                           *)
LockOrder(i, j) == IF i = j THEN <<i>> ELSE IF i < j THEN <<i, j>> ELSE <<j, i>>

Held(t) == {s \in Stripe : owner[s] = t}

Init ==
  /\ pc = [t \in Thread |-> "idle"]
  /\ asked = [t \in Thread |-> {}]
  /\ want = [t \in Thread |-> <<>>]
  /\ owner = [s \in Stripe |-> Nobody]
  /\ calls = [t \in Thread |-> 0]

Begin(t, keys, stripes) ==
  /\ pc[t] = "idle"
  /\ calls[t] < MaxCalls
  /\ pc' = [pc EXCEPT ![t] = "taking"]
  /\ asked' = [asked EXCEPT ![t] = keys]
  /\ want' = [want EXCEPT ![t] = stripes]
  /\ calls' = [calls EXCEPT ![t] = @ + 1]
  /\ UNCHANGED owner

CallLock(t, k) == Begin(t, {k}, <<StripeIndex(k)>>)

CallLockTwo(t, a, b) ==
  Begin(t, {a, b}, LockOrder(StripeIndex(a), StripeIndex(b)))

(* One Mutex::lock returns.  After the last one the caller has its guards. *)
Take(t) ==
  LET s == Head(want[t])
      rest == Tail(want[t])
  IN  /\ pc[t] = "taking"
      /\ owner[s] = Nobody
      /\ owner' = [owner EXCEPT ![s] = t]
      /\ want' = [want EXCEPT ![t] = rest]
      /\ pc' = [pc EXCEPT ![t] = IF rest = <<>> THEN "inside" ELSE "taking"]
      /\ UNCHANGED <<asked, calls>>

(* One guard is dropped.  The guards of lock_two are an opaque pair, so    *)
(* the order in which a caller lets them go is left open.                  *)
Drop(t) ==
  /\ pc[t] \in {"inside", "dropping"}
  /\ \E s \in Held(t) :
       /\ owner' = [owner EXCEPT ![s] = Nobody]
       /\ pc' = [pc EXCEPT ![t] = IF Held(t) = {s} THEN "idle" ELSE "dropping"]
  /\ UNCHANGED <<asked, want, calls>>

Step(t) ==
  \/ \E k \in Key : CallLock(t, k)
  \/ \E a, b \in Key : CallLockTwo(t, a, b)
  \/ Take(t)
  \/ Drop(t)

(* The system rests only when every thread is out of calls.                *)
Rest == (\A t \in Thread : pc[t] = "idle" /\ calls[t] = MaxCalls) /\ UNCHANGED vars

Next == (\E t \in Thread : Step(t)) \/ Rest

Spec == Init /\ [][Next]_vars

(* A thread that holds a guard runs on to drop it, and a free mutex that a *)
(* thread waits for is eventually handed over.  Nothing makes a thread     *)
(* call lock.  The std mutex is not fair, so no strong fairness.           *)
FairSpec == Spec /\ \A t \in Thread : WF_vars(Take(t)) /\ WF_vars(Drop(t))

-----------------------------------------------------------------------------

TypeOK ==
  /\ pc \in [Thread -> {"idle", "taking", "inside", "dropping"}]
  /\ asked \in [Thread -> SUBSET Key]
  /\ want \in [Thread -> Seq(Stripe)]
  /\ owner \in [Stripe -> Thread \cup {Nobody}]
  /\ calls \in [Thread -> 0 .. MaxCalls]

(* Two callers that asked for a common key, or for keys that hash to a     *)
(* common stripe, are never both inside: the guards returned by lock and   *)
(* lock_two cover every key of the call (concurrency.rs, "one guard        *)
(* already serializes both keys").                                         *)
GuardsCoverKeys ==
  \A t, u \in Thread :
    /\ t # u
    /\ pc[t] = "inside"
    /\ pc[u] = "inside"
    => \A a \in asked[t], b \in asked[u] : StripeIndex(a) # StripeIndex(b)

WaitsFor(t, u) == pc[t] = "taking" /\ owner[Head(want[t])] = u

(* lock_two's promise: hold-and-wait never closes a cycle.  In every       *)
(* nonempty set of threads one is not waiting for a member of the set.     *)
NoHoldAndWaitCycle ==
  \A S \in (SUBSET Thread) \ {{}} :
    \E t \in S : \A u \in S : ~WaitsFor(t, u)

(* Every lock and lock_two call returns: while each thread makes finitely  *)
(* many calls, waiting always ends.                                        *)
EveryCallReturns == \A t \in Thread : pc[t] = "taking" ~> pc[t] = "inside"

(* The refinement: a caller holds the stripes of all its keys from the     *)
(* last Mutex::lock to the first dropped guard, and nothing before.        *)
Inside(t) == IF pc[t] = "inside" THEN {StripeIndex(k) : k \in asked[t]} ELSE {}

Table == INSTANCE LockTable WITH
           Key <- Stripe,
           held <- [t \in Thread |-> Inside(t)]

(* The mutex array implements all-or-nothing acquisition of key sets.      *)
ImplementsTable == Table!TableSpec

==============================================================================
