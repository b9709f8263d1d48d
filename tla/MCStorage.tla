------------------------------ MODULE MCStorage ------------------------------
(* An instance of Storage for TLC: a chain of three below the root. *)
EXTENDS Storage, TLC

MCPath == {<<>>, <<"a">>, <<"a", "b">>, <<"a", "b", "c">>}

NoCall == [kind |-> "idle", path |-> <<>>, arg |-> "none"]

Content(v) == [val |-> v]

MCInitially == [p \in MCPath |-> IF p = <<>> THEN Content(Dir) ELSE Nil]

(* Every path can be removed.  The longest is put with its ancestors, in    *)
(* two ways, and the shortest, which is an ancestor, in a third.           *)
JobOn(kind, path) ==
  [kind |-> kind, path |-> path, arg |-> IF kind \in Puts THEN CHOOSE v \in Value : TRUE ELSE Dir]

MCJobs ==
  {JobOn("remove", p) : p \in MCPath \ {Root}}
    \cup {JobOn(k, <<"a", "b", "c">>) : k \in {"put", "put_data_only"}}
    \cup {JobOn("put_positioned", <<"a">>), JobOn("get", <<"a", "b">>),
          JobOn("embed_all", <<"a">>)}

Threads == Permutations(Thread)

==============================================================================
