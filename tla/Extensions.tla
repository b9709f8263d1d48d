------------------------------ MODULE Extensions ------------------------------
(***************************************************************************)
(* The extension manager (extension.rs) behind the lock of its registry,   *)
(* with the file system storage provider as one of its extensions.  What   *)
(* an extension does in initialize and shutdown is its own: they succeed,  *)
(* return an error, or panic.  The configurations and the capabilities are *)
(* left out, as they have the keys of the extensions.                      *)
(***************************************************************************)
EXTENDS FileStorage, Sequences, SequencesExt

CONSTANTS Name,       \* the names of extensions
          Provider    \* the name of the storage provider

ASSUME NameAssumption == Provider \in Name

VARIABLES
  order,      \* dependency_order: the names, as they were first registered
  running,    \* the extensions that are initialized and not shut down
  replaced,   \* history: those registered over another since it was initialized
  poisoned    \* whether a panic has poisoned the registry's lock

managerVars == <<order, running, replaced, poisoned>>
vars == <<managerVars, providerVars>>

Registered == ToSet(order)

Init ==
  /\ ProviderInit
  /\ order = <<>> /\ running = {} /\ replaced = {}
  /\ poisoned = FALSE

(* manager_mut: the write guard, which a poisoned lock refuses for good.   *)
Exclusive == call = Idle /\ ~poisoned

(* An instance of the provider goes, and its cache with it.                *)
DropInstance(n) ==
  /\ cache' = IF n = Provider THEN NoEntry ELSE cache
  /\ UNCHANGED <<files, call, faults, history>>

(* Wrong: the name enters the order again.                                 *)
register_again(n) ==
  /\ Exclusive
  /\ order' = IF Len(order) < 2 * Cardinality(Name) THEN Append(order, n) ELSE order
  /\ running' = running \ {n}
  /\ replaced' = IF n \in Registered THEN replaced \cup {n} ELSE replaced
  /\ UNCHANGED poisoned
  /\ DropInstance(n)

(* An extension of the same name is replaced where it stands in the order, *)
(* and is not shut down.                                                   *)
register_extension(n) ==
  /\ Exclusive
  /\ order' = IF n \in Registered THEN order ELSE Append(order, n)
  /\ running' = running \ {n}
  /\ replaced' = IF n \in Registered THEN replaced \cup {n} ELSE replaced
  /\ UNCHANGED poisoned
  /\ DropInstance(n)

(* Of the extensions in a list of names, all are done, or those before one *)
(* that fails or panics.                                                   *)
Through(names, done) ==
  \E count \in 0 .. Len(names) :
    /\ done = ToSet(SubSeq(names, 1, count))
    /\ poisoned' \in IF count = Len(names) THEN {FALSE} ELSE BOOLEAN

initialize_all ==
  /\ Exclusive
  /\ \E done \in SUBSET Name :
       /\ Through(order, done)
       /\ running' = running \cup done
       /\ replaced' = replaced \ done
  /\ UNCHANGED <<order, providerVars>>

(* Wrong: in the order they were registered in.                            *)
shutdown_all_forward ==
  /\ Exclusive
  /\ \E done \in SUBSET Name : Through(order, done) /\ running' = running \ done
  /\ UNCHANGED <<order, replaced, providerVars>>

shutdown_all ==
  /\ Exclusive
  /\ \E done \in SUBSET Name : Through(Reverse(order), done) /\ running' = running \ done
  /\ UNCHANGED <<order, replaced, providerVars>>

(* Only an extension that has shut down is removed.  Its name is in the    *)
(* order once.                                                             *)
remove_extension(n) ==
  /\ Exclusive
  /\ \E i \in DOMAIN order : order[i] = n /\ order' = RemoveAt(order, i)
  /\ running' = running \ {n}
  /\ replaced' = replaced \ {n}
  /\ UNCHANGED poisoned
  /\ DropInstance(n)

(* Or it stays, if it fails to shut down.                                  *)
RemoveFails(n) ==
  /\ Exclusive
  /\ n \in Registered
  /\ poisoned' \in BOOLEAN
  /\ UNCHANGED <<order, running, replaced, providerVars>>

(* Calls reach the provider through the manager, running or not.           *)
CallProvider ==
  /\ Exclusive
  /\ Provider \in Registered
  /\ ProviderCall
  /\ UNCHANGED managerVars

StepProvider == ProviderStep /\ UNCHANGED managerVars

(* The process dies: the files stay.                                       *)
Restart ==
  /\ Crash
  /\ order' = <<>> /\ running' = {} /\ replaced' = {}
  /\ poisoned' = FALSE

Next ==
  \/ \E n \in Name : register_extension(n) \/ remove_extension(n) \/ RemoveFails(n)
  \/ initialize_all \/ shutdown_all
  \/ CallProvider \/ StepProvider
  \/ Restart

Spec == Init /\ [][Next]_vars

-----------------------------------------------------------------------------
(* Properties *)

TypeOK ==
  /\ ProviderTypeOK
  /\ Registered \subseteq Name /\ Len(order) = Cardinality(Registered)
  /\ running \cup replaced \subseteq Registered
  /\ poisoned \in BOOLEAN

(* An extension runs only while those registered before it do, whatever    *)
(* failed half way, or was removed: they are initialized "in dependency    *)
(* order" and shut down in reverse.  Except where one was registered over  *)
(* another and not initialized yet.                                        *)
RunningPrefix ==
  \A i, j \in DOMAIN order :
    i < j /\ order[j] \in running => order[i] \in running \cup replaced

==============================================================================
