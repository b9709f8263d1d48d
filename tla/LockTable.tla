------------------------------ MODULE LockTable ------------------------------
(***************************************************************************)
(* What a caller of concurrency.rs may rely on, with the mechanism left    *)
(* out: a thread asks for a set of lock keys, gets all of them in one step *)
(* when no other thread holds any of them, and gives them all back.        *)
(*                                                                         *)
(* StripedLock shows that the array of mutexes implements this; TreeTensor *)
(* takes its parent stripes through Acquire and Release.                   *)
(***************************************************************************)

CONSTANTS Thread,   \* the threads that take locks
          Key       \* what they lock

VARIABLE held       \* held[t]: the keys thread t holds

TableInit == held = [t \in Thread |-> {}]

(* StripedLock::lock and lock_two, from the call to the returned guards.   *)
Acquire(t, keys) ==
  /\ held[t] = {}
  /\ \A u \in Thread \ {t} : held[u] \cap keys = {}
  /\ held' = [held EXCEPT ![t] = keys]

(* The guards go out of scope.                                             *)
Release(t) ==
  /\ held[t] # {}
  /\ held' = [held EXCEPT ![t] = {}]

TableNext ==
  \E t \in Thread :
    \/ \E keys \in SUBSET Key : keys # {} /\ Acquire(t, keys)
    \/ Release(t)

TableSpec == TableInit /\ [][TableNext]_held

TableTypeOK == held \in [Thread -> SUBSET Key]

(* Two threads never hold the same key at the same time.                   *)
Exclusive == \A t, u \in Thread : t # u => held[t] \cap held[u] = {}

==============================================================================
