---------------------------- MODULE CellIndexProofs ----------------------------
(***************************************************************************)
(* Proofs about CellIndex, for every number of threads, ids and cells and  *)
(* every way the bands divide the cells.                                   *)
(***************************************************************************)
EXTENDS CellIndex, FiniteSetTheorems, TLAPS

Busy(t) == pc[t] \in Updating

(* No call is working on the id.                                           *)
Free(x) == \A t \in Thread : Busy(t) => id[t] # x

(* The cell that the entries have the id of a call in.                     *)
Place(t) ==
  CASE pc[t] \in {"insert", "forget", "remove", "detach"} -> old[t]
    [] pc[t] \in {"drop", "unmark", "unload", "push"} -> None
    [] pc[t] \in {"record", "load", "mark", "name"} -> cell[t]

(* The cell that the id of a call counts for in the load of its band.      *)
Counted(t) ==
  CASE pc[t] \in {"insert", "forget", "remove", "detach", "drop", "unmark", "unload"} -> old[t]
    [] pc[t] \in {"push", "record", "load"} -> None
    [] pc[t] \in {"mark", "name"} -> cell[t]

(* What a call has to do with the maps at each of its steps.               *)
CallOK(t) ==
  /\ id[t] \in Id
  /\ pc[t] \in {"insert", "push", "record", "load", "mark", "name"} => cell[t] \in Cell
  /\ pc[t] \in {"forget", "remove"} => cell[t] = None
  /\ pc[t] \in {"forget", "remove", "insert"} => nodeCell[id[t]] = old[t]
  /\ pc[t] \in {"detach", "drop", "unmark", "unload"} =>
       /\ old[t] \in Cell /\ cell[t] # old[t]
       /\ nodeCell[id[t]] = IF cell[t] = None THEN None ELSE old[t]
  /\ pc[t] \in {"push", "record"} => nodeCell[id[t]] = old[t]
  /\ pc[t] \in {"load", "mark", "name"} => nodeCell[id[t]] = cell[t]
  /\ pc[t] # "forget" /\ cell[t] = None => id[t] \notin named
  /\ \A c \in Cell : id[t] \in Members(c) => c = Place(t)

NoCall(t) == id[t] = None /\ cell[t] = None /\ old[t] = None

Calls == \A t \in Thread : IF Busy(t) THEN CallOK(t) ELSE NoCall(t)

OneCall == \A t, u \in Thread : t # u /\ Busy(t) /\ Busy(u) => id[t] # id[u]

(* An id that no call works on is in no cell but its own, and has a path.  *)
AtRest(x) ==
  /\ \A c \in Cell : x \in Members(c) => nodeCell[x] = c
  /\ x \in named <=> nodeCell[x] # None

FreeIds == \A x \in Id : Free(x) => AtRest(x)

CountedAt(x, c) ==
  \/ Free(x) /\ nodeCell[x] = c
  \/ \E t \in Thread : Busy(t) /\ id[t] = x /\ Counted(t) = c

CountedIn(b) == {x \in Id : \E c \in Cell : CountedAt(x, c) /\ Band[c] = b}

LoadExact ==
  \A b \in Bands : IsFiniteSet(CountedIn(b)) /\ bandLoad[b] = Cardinality(CountedIn(b))

(* What a query may come upon it has been told of.                         *)
Foreseen ==
  \A t \in Thread :
    IF pc[t] \in Querying
    THEN /\ \A c \in Cell : Members(c) \subseteq seen[t]
         /\ \A u \in Thread : Busy(u) /\ cell[u] # None => id[u] \in seen[t]
         /\ pc[t] = "answered" => found[t] = {}
         /\ pc[t] = "bands" => found[t] = {} /\ answer[t] = {}
    ELSE found[t] = {} /\ answer[t] = {}

Inv == TypeOK /\ Calls /\ OneCall /\ FreeIds /\ LoadExact /\ Foreseen /\ QueryNoGhost

-----------------------------------------------------------------------------
(* Where no two calls share a cell *)

Apart ==
  \A t, u \in Thread :
    t # u /\ Busy(t) /\ Busy(u) => {cell[t], old[t]} \cap {cell[u], old[u]} \subseteq {None}

(* The ids are in the entries of their cells.                              *)
Present ==
  /\ \A x \in Id : Free(x) /\ nodeCell[x] # None => x \in Members(nodeCell[x])
  /\ \A t \in Thread : Busy(t) /\ Place(t) # None => id[t] \in Members(Place(t))

(* An entry is empty, or gone and still marked, only while the call that   *)
(* emptied it is on its way.                                               *)
Entries ==
  /\ \A t \in Thread : /\ pc[t] = "drop" => cells[old[t]] = {}
                       /\ pc[t] = "unmark" => cells[old[t]] = None
  /\ \A c \in Cell : cells[c] = {} => \E t \in Thread : pc[t] = "drop" /\ old[t] = c

Sectors ==
  /\ \A c \in Cell : \A x \in Members(c) :
       \/ c \in bandSectors[Band[c]]
       \/ \E t \in Thread : pc[t] \in {"record", "load", "mark"} /\ id[t] = x
  /\ \A b \in Bands : \A c \in bandSectors[b] :
       /\ Band[c] = b
       /\ cells[c] # None \/ \E t \in Thread : pc[t] = "unmark" /\ old[t] = c

(* What is left to do for a query leads it to every settled id.            *)
Leads(t) ==
  /\ settled[t] # {} => pc[t] \in Querying
  /\ \A x \in settled[t] :
       /\ Registered(x)
       /\ pc[t] = "walk" => \/ Band[nodeCell[x]] \in bandsLeft[t]
                            \/ nodeCell[x] \in cellsLeft[t]
                            \/ x \in found[t]
       /\ pc[t] = "resolve" => x \in found[t] \cup answer[t]
       /\ pc[t] = "answered" => x \in answer[t]

Underway == \A t \in Thread : Leads(t)

ApartInv == Inv /\ Apart /\ Present /\ Entries /\ Sectors /\ Underway

-----------------------------------------------------------------------------
(* What a step of a call does *)

(* No step of a call touches another call, or another id but to lose it.   *)
Keeps(t, x) ==
  /\ Busy(t) /\ x = id[t]
  /\ UNCHANGED <<query, settled, seen>>
  /\ \A u \in Thread \ {t} :
       pc'[u] = pc[u] /\ id'[u] = id[u] /\ cell'[u] = cell[u] /\ old'[u] = old[u]
  /\ \A y \in Id \ {x} :
       /\ nodeCell'[y] = nodeCell[y] /\ (y \in named' <=> y \in named)
       /\ \A c \in Cell : y \in Members(c)' => y \in Members(c)
  /\ \A c \in Cell : x \in Members(c)' => x \in Members(c) \/ cell[t] # None
  /\ \/ /\ pc'[t] \in Updating /\ id'[t] = x /\ cell'[t] = cell[t] /\ old'[t] = old[t]
        /\ CallOK(t)'
     \/ pc'[t] = "idle" /\ NoCall(t)' /\ AtRest(x)'

LEMMA KeepsCalls ==
  ASSUME Inv, NEW t \in Thread, NEW x \in Id, Keeps(t, x)
  PROVE  Calls' /\ OneCall' /\ FreeIds'
  <1> USE DEF Inv, Keeps
  <1>1. \A u \in Thread \ {t} : /\ Busy(u)' <=> Busy(u)
                                /\ Place(u)' = Place(u)
    BY DEF Busy, Place
  <1>2. Busy(t)' => pc'[t] \in Updating
    BY DEF Busy
  <1>3. "idle" \notin Updating
    BY DEF Updating
  <1>4. Calls'
    <2>1. ASSUME NEW u \in Thread \ {t}, Busy(u) PROVE CallOK(u)'
      <3>1. id[u] \in Id \ {x} /\ CallOK(u)
        BY <2>1 DEF Calls, OneCall, CallOK
      <3>2. /\ pc'[u] = pc[u] /\ id'[u] = id[u] /\ cell'[u] = cell[u] /\ old'[u] = old[u]
            /\ nodeCell'[id[u]] = nodeCell[id[u]] /\ (id[u] \in named' <=> id[u] \in named)
            /\ \A c \in Cell : id[u] \in Members(c)' => id[u] \in Members(c)
        BY <3>1
      <3>3. QED
        BY <3>1, <3>2, <1>1 DEF CallOK
    <2>2. ASSUME NEW u \in Thread \ {t}, ~Busy(u) PROVE NoCall(u)'
      BY <2>2 DEF Calls, NoCall
    <2>3. QED
      BY <1>1, <1>2, <1>3, <2>1, <2>2 DEF Calls, Busy
  <1>5. OneCall'
    BY <1>1, <1>2, <1>3 DEF OneCall, Busy
  <1>6. FreeIds'
    <2>1. ASSUME NEW y \in Id \ {x}, Free(y)' PROVE AtRest(y)'
      <3>1. Free(y)
        BY <2>1, <1>1 DEF Free
      <3>2. QED
        BY <3>1 DEF FreeIds, AtRest
    <2>2. ASSUME Free(x)' PROVE AtRest(x)'
      BY <2>2, <1>3 DEF Free, Busy
    <2>3. QED
      BY <2>1, <2>2 DEF FreeIds
  <1>7. QED
    BY <1>4, <1>5, <1>6

LEMMA KeepsQueries ==
  ASSUME Inv, NEW t \in Thread, NEW x \in Id, Keeps(t, x), TypeOK'
  PROVE  Foreseen' /\ QueryNoGhost'
  <1> USE DEF Inv, Keeps
  <1>1. /\ \A u \in Thread : pc'[u] \in Querying <=> pc[u] \in Querying
        /\ \A u \in Thread : pc[u] \in Querying => u # t /\ pc'[u] = pc[u]
        /\ \A u \in Thread : Busy(u)' => /\ Busy(u) /\ id'[u] = id[u] /\ cell'[u] = cell[u]
    BY DEF Busy, Updating, Querying
  <1>2. UNCHANGED <<found, answer, seen>>
    BY DEF query
  <1>3. ASSUME NEW u \in Thread, pc[u] \in Querying, NEW c \in Cell, NEW y \in Members(c)'
        PROVE  y \in seen[u]
    <2>1. y \in Id
      BY <1>3 DEF TypeOK, Members
    <2>2. CASE y \in Members(c)
      BY <2>2, <1>3 DEF Foreseen
    <2>3. CASE y = x /\ cell[t] # None
      BY <2>3, <1>3 DEF Foreseen
    <2>4. QED
      BY <2>1, <2>2, <2>3, <1>3
  <1>4. Foreseen'
    BY <1>1, <1>2, <1>3 DEF Foreseen
  <1>5. QED
    BY <1>2, <1>4 DEF QueryNoGhost

(* What the id of a call counts for.                                       *)
LEMMA CountedByCall ==
  ASSUME OneCall, NEW t \in Thread, Busy(t), NEW c
  PROVE  CountedAt(id[t], c) <=> c = Counted(t)
  BY DEF OneCall, CountedAt, Free

LEMMA KeepsCounted ==
  ASSUME Inv, NEW t \in Thread, NEW x \in Id, Keeps(t, x), NEW y \in Id \ {x}, NEW c
  PROVE  CountedAt(y, c)' <=> CountedAt(y, c)
  <1> USE DEF Keeps
  <1>1. \A u \in Thread : u = t \/ (/\ Busy(u)' <=> Busy(u)
                                   /\ Counted(u)' = Counted(u) /\ id'[u] = id[u])
    BY DEF Busy, Counted
  <1>2. Busy(t)' => id'[t] = x
    BY DEF Busy, Updating
  <1>3. QED
    BY <1>1, <1>2 DEF CountedAt, Free

(* The cell an id counts for after a step.                                 *)
CountedNext(t, x) == IF pc'[t] = "idle" THEN nodeCell'[x] ELSE Counted(t)'

LEMMA KeepsOwnCount ==
  ASSUME Inv, NEW t \in Thread, NEW x \in Id, Keeps(t, x), NEW c
  PROVE  /\ CountedAt(x, c) <=> c = Counted(t)
         /\ CountedAt(x, c)' <=> c = CountedNext(t, x)
  <1>1. OneCall /\ OneCall'
    BY KeepsCalls DEF Inv
  <1>2. CountedAt(x, c) <=> c = Counted(t)
    BY <1>1, CountedByCall DEF Keeps
  <1>3. CASE pc'[t] = "idle"
    <2>1. \A u \in Thread : Busy(u)' => Busy(u) /\ u # t /\ id'[u] = id[u]
      BY <1>3 DEF Keeps, Busy, Updating
    <2>2. Free(x)'
      BY <2>1, <1>1 DEF Free, OneCall, Keeps
    <2>3. QED
      BY <1>2, <1>3, <2>2 DEF CountedAt, CountedNext, Free
  <1>4. CASE pc'[t] # "idle"
    <2>1. Busy(t)' /\ id'[t] = x
      BY <1>4 DEF Keeps, Busy
    <2>2. CountedAt(x, c)' <=> c = Counted(t)'
      BY <2>1, <1>1 DEF OneCall, CountedAt, Free
    <2>3. QED
      BY <1>2, <1>4, <2>2 DEF CountedNext
  <1>5. QED
    BY <1>3, <1>4

(* The loads stay exact: the id counts for the same cell as before, ...    *)
LEMMA LoadStays ==
  ASSUME Inv, NEW t \in Thread, NEW x \in Id, Keeps(t, x),
         UNCHANGED bandLoad, CountedNext(t, x) = Counted(t)
  PROVE  LoadExact'
  <1>1. \A y \in Id, c \in Cell : CountedAt(y, c)' <=> CountedAt(y, c)
    <2>1. ASSUME NEW y \in Id, NEW c \in Cell PROVE CountedAt(y, c)' <=> CountedAt(y, c)
      <3>1. CASE y = x
        BY <3>1, KeepsOwnCount
      <3>2. CASE y # x
        BY <3>2, KeepsCounted
      <3>3. QED
        BY <3>1, <3>2
    <2>2. QED
      BY <2>1
  <1>2. \A b \in Bands : CountedIn(b)' = CountedIn(b)
    BY <1>1 DEF CountedIn
  <1>3. QED
    BY <1>2 DEF Inv, LoadExact

(* ... or counts for a cell where it did for none, ...                     *)
LEMMA LoadGrows ==
  ASSUME Inv, NEW t \in Thread, NEW x \in Id, Keeps(t, x), NEW c \in Cell,
         Counted(t) = None, CountedNext(t, x) = c,
         bandLoad' = [bandLoad EXCEPT ![Band[c]] = @ + 1]
  PROVE  LoadExact'
  <1>1. ASSUME NEW b \in Bands
        PROVE  /\ x \notin CountedIn(b)
               /\ CountedIn(b)' = IF Band[c] = b THEN CountedIn(b) \cup {x} ELSE CountedIn(b)
    <2>1. \A d \in Cell : ~CountedAt(x, d) /\ (CountedAt(x, d)' <=> d = c)
      BY KeepsOwnCount, NoneAssumption
    <2>2. \A y \in Id \ {x}, d \in Cell : CountedAt(y, d)' <=> CountedAt(y, d)
      BY KeepsCounted
    <2>3. QED
      BY <2>1, <2>2 DEF CountedIn
  <1>2. ASSUME NEW b \in Bands
        PROVE  IsFiniteSet(CountedIn(b))' /\ bandLoad'[b] = Cardinality(CountedIn(b))'
    <2>1. IsFiniteSet(CountedIn(b)) /\ bandLoad[b] = Cardinality(CountedIn(b)) /\ bandLoad[b] \in Nat
      BY DEF Inv, LoadExact, TypeOK
    <2>2. bandLoad'[b] = IF Band[c] = b THEN bandLoad[b] + 1 ELSE bandLoad[b]
      BY DEF Inv, TypeOK
    <2>3. /\ IsFiniteSet(CountedIn(b) \cup {x})
          /\ Cardinality(CountedIn(b) \cup {x}) = bandLoad[b] + 1
      BY <1>1, <2>1, FS_AddElement
    <2>4. QED
      BY <1>1, <2>1, <2>2, <2>3
  <1>3. QED
    BY <1>2 DEF LoadExact

(* ... or for none where it did for a cell.  There is a load to subtract.  *)
LEMMA LoadShrinks ==
  ASSUME Inv, NEW t \in Thread, NEW x \in Id, Keeps(t, x), NEW c \in Cell,
         Counted(t) = c, CountedNext(t, x) = None,
         bandLoad' = [bandLoad EXCEPT ![Band[c]] =
                        IF bandLoad[Band[c]] = 0 THEN 0 ELSE bandLoad[Band[c]] - 1]
  PROVE  LoadExact'
  <1>1. ASSUME NEW b \in Bands
        PROVE  /\ Band[c] = b => x \in CountedIn(b)
               /\ CountedIn(b)' = IF Band[c] = b THEN CountedIn(b) \ {x} ELSE CountedIn(b)
    <2>1. \A d \in Cell : ~CountedAt(x, d)' /\ (CountedAt(x, d) <=> d = c)
      BY KeepsOwnCount, NoneAssumption
    <2>2. \A y \in Id \ {x}, d \in Cell : CountedAt(y, d)' <=> CountedAt(y, d)
      BY KeepsCounted
    <2>3. QED
      BY <2>1, <2>2 DEF CountedIn
  <1>2. ASSUME NEW b \in Bands
        PROVE  IsFiniteSet(CountedIn(b))' /\ bandLoad'[b] = Cardinality(CountedIn(b))'
    <2>1. IsFiniteSet(CountedIn(b)) /\ bandLoad[b] = Cardinality(CountedIn(b)) /\ bandLoad[b] \in Nat
      BY DEF Inv, LoadExact, TypeOK
    <2>2. CASE Band[c] = b
      <3>1. IsFiniteSet(CountedIn(b) \ {x}) /\ Cardinality(CountedIn(b) \ {x}) = bandLoad[b] - 1
        BY <1>1, <2>1, <2>2, FS_RemoveElement
      <3>2. bandLoad[b] # 0
        BY <1>1, <2>1, <2>2, FS_EmptySet
      <3>3. bandLoad'[b] = bandLoad[b] - 1
        BY <2>2, <3>2 DEF Inv, TypeOK
      <3>4. QED
        BY <1>1, <2>2, <3>1, <3>3
    <2>3. CASE Band[c] # b
      BY <1>1, <2>1, <2>3 DEF Inv, TypeOK
    <2>4. QED
      BY <2>2, <2>3
  <1>3. QED
    BY <1>2 DEF LoadExact

-----------------------------------------------------------------------------
(* The steps of an insert and of a remove *)

LEMMA BandsType == \A c \in Cell : Band[c] \in Bands
  BY DEF Bands

(* What is left to show of a step.                                         *)
LEMMA KeepsInv ==
  ASSUME Inv, NEW t \in Thread, NEW x \in Id, Keeps(t, x), TypeOK', LoadExact'
  PROVE  Inv'
  BY KeepsCalls, KeepsQueries DEF Inv

LEMMA InsertStep ==
  ASSUME Inv, NEW t \in Thread, NEW x \in Id, x = id[t], Insert(t)
  PROVE  Keeps(t, x) /\ Inv'
  <1> USE DEF Inv, Insert, Goto, shared, index, update, query
  <1>1. Busy(t) /\ CallOK(t)
    BY DEF Busy, Updating, Calls
  <1>2. TypeOK'
    BY DEF TypeOK, Updating
  <1>3. \A u \in Thread \ {t} : pc'[u] = pc[u]
    BY DEF TypeOK
  <1>4. /\ pc[t] = "insert"
        /\ \/ pc'[t] = "name" /\ old[t] = cell[t]
           \/ pc'[t] = "push" /\ old[t] = None
           \/ pc'[t] = "detach" /\ old[t] \notin {None, cell[t]}
    BY <1>1 DEF TypeOK, CallOK
  <1>5. CallOK(t)'
    BY <1>1, <1>4, NoneAssumption DEF CallOK, Place, Members, TypeOK
  <1>6. Keeps(t, x)
    BY <1>1, <1>3, <1>4, <1>5 DEF Keeps, Updating, Members, CallOK
  <1>7. CountedNext(t, x) = Counted(t)
    BY <1>4 DEF CountedNext, Counted
  <1>8. QED
    BY <1>1, <1>2, <1>6, <1>7, LoadStays, KeepsInv

(* The new cell has the id before node_cell says so.                       *)
LEMMA PushStep ==
  ASSUME Inv, NEW t \in Thread, NEW x \in Id, x = id[t], Push(t)
  PROVE  Keeps(t, x) /\ Inv'
  <1> USE DEF Inv, Push, Goto, shared, index, update, query
  <1>1. Busy(t) /\ CallOK(t)
    BY DEF Busy, Updating, Calls
  <1>2. TypeOK'
    BY <1>1, BandsType DEF TypeOK, Updating, CallOK, Members
  <1>3. \A u \in Thread \ {t} : pc'[u] = pc[u]
    BY DEF TypeOK
  <1>4. /\ \A c \in Cell : Members(c)' = IF c = cell[t] THEN Members(c) \cup {x} ELSE Members(c)
        /\ pc[t] = "push" /\ pc'[t] = "record" /\ cell[t] \in Cell
    <2>1. Members(cell[t]) \cup {x} \in SUBSET Id /\ cell[t] \in Cell
      BY <1>1 DEF TypeOK, Members, CallOK
    <2>2. QED
      BY <1>1, <2>1, NoneAssumption DEF TypeOK, Members
  <1>5. CallOK(t)'
    BY <1>1, <1>4, NoneAssumption DEF CallOK, Place, Members
  <1>6. Keeps(t, x)
    BY <1>1, <1>3, <1>4, <1>5, NoneAssumption DEF Keeps, Updating
  <1>7. CountedNext(t, x) = Counted(t)
    BY <1>1, <1>4 DEF CountedNext, Counted, CallOK
  <1>8. QED
    BY <1>1, <1>2, <1>6, <1>7, LoadStays, KeepsInv

LEMMA RecordStep ==
  ASSUME Inv, NEW t \in Thread, NEW x \in Id, x = id[t], Record(t)
  PROVE  Keeps(t, x) /\ Inv'
  <1> USE DEF Inv, Record, Goto, shared, index, update, query
  <1>1. Busy(t) /\ CallOK(t)
    BY DEF Busy, Updating, Calls
  <1>2. TypeOK'
    BY <1>1, BandsType DEF TypeOK, Updating, CallOK, Members
  <1>3. \A u \in Thread \ {t} : pc'[u] = pc[u]
    BY DEF TypeOK
  <1>4. /\ \A y \in Id : nodeCell'[y] = IF y = x THEN cell[t] ELSE nodeCell[y]
        /\ pc[t] = "record" /\ pc'[t] = "load"
    BY <1>1 DEF TypeOK
  <1>5. CallOK(t)'
    BY <1>1, <1>4, NoneAssumption DEF CallOK, Place, Members
  <1>6. Keeps(t, x)
    BY <1>1, <1>3, <1>4, <1>5 DEF Keeps, Updating, Members, CallOK
  <1>7. CountedNext(t, x) = Counted(t)
    BY <1>1, <1>4 DEF CountedNext, Counted, CallOK
  <1>8. QED
    BY <1>1, <1>2, <1>6, <1>7, LoadStays, KeepsInv

LEMMA LoadStep ==
  ASSUME Inv, NEW t \in Thread, NEW x \in Id, x = id[t], Load(t)
  PROVE  Keeps(t, x) /\ Inv'
  <1> USE DEF Inv, Load, Goto, shared, index, update, query
  <1>1. Busy(t) /\ CallOK(t)
    BY DEF Busy, Updating, Calls
  <1>2. TypeOK'
    BY <1>1, BandsType DEF TypeOK, Updating, CallOK, Members
  <1>3. \A u \in Thread \ {t} : pc'[u] = pc[u]
    BY DEF TypeOK
  <1>4. pc[t] = "load" /\ pc'[t] = "mark" /\ cell[t] \in Cell
    BY <1>1 DEF TypeOK, CallOK
  <1>5. CallOK(t)'
    BY <1>1, <1>4, NoneAssumption DEF CallOK, Place, Members
  <1>6. Keeps(t, x)
    BY <1>1, <1>3, <1>4, <1>5 DEF Keeps, Updating, Members, CallOK
  <1>7. Counted(t) = None /\ CountedNext(t, x) = cell[t]
    BY <1>4 DEF CountedNext, Counted
  <1>8. LoadExact'
    BY <1>1, <1>4, <1>6, <1>7, LoadGrows
  <1>9. QED
    BY <1>1, <1>2, <1>6, <1>8, KeepsInv

LEMMA MarkStep ==
  ASSUME Inv, NEW t \in Thread, NEW x \in Id, x = id[t], Mark(t)
  PROVE  Keeps(t, x) /\ Inv'
  <1> USE DEF Inv, Mark, Goto, shared, index, update, query
  <1>1. Busy(t) /\ CallOK(t)
    BY DEF Busy, Updating, Calls
  <1>2. TypeOK'
    BY <1>1, BandsType DEF TypeOK, Updating, CallOK, Members
  <1>3. \A u \in Thread \ {t} : pc'[u] = pc[u]
    BY DEF TypeOK
  <1>4. pc[t] = "mark" /\ pc'[t] = "name"
    BY <1>1 DEF TypeOK
  <1>5. CallOK(t)'
    BY <1>1, <1>4, NoneAssumption DEF CallOK, Place, Members
  <1>6. Keeps(t, x)
    BY <1>1, <1>3, <1>4, <1>5 DEF Keeps, Updating, Members, CallOK
  <1>7. CountedNext(t, x) = Counted(t)
    BY <1>1, <1>4 DEF CountedNext, Counted, CallOK
  <1>8. QED
    BY <1>1, <1>2, <1>6, <1>7, LoadStays, KeepsInv

(* The path is forgotten before the index loses the id.                    *)
LEMMA ForgetStep ==
  ASSUME Inv, NEW t \in Thread, NEW x \in Id, x = id[t], Forget(t)
  PROVE  Keeps(t, x) /\ Inv'
  <1> USE DEF Inv, Forget, Goto, shared, index, update, query
  <1>1. Busy(t) /\ CallOK(t)
    BY DEF Busy, Updating, Calls
  <1>2. TypeOK'
    BY <1>1, BandsType DEF TypeOK, Updating, CallOK, Members
  <1>3. \A u \in Thread \ {t} : pc'[u] = pc[u]
    BY DEF TypeOK
  <1>4. pc[t] = "forget" /\ pc'[t] = "remove"
    BY <1>1 DEF TypeOK
  <1>5. CallOK(t)'
    BY <1>1, <1>4, NoneAssumption DEF CallOK, Place, Members
  <1>6. Keeps(t, x)
    BY <1>1, <1>3, <1>4, <1>5 DEF Keeps, Updating, Members, CallOK
  <1>7. CountedNext(t, x) = Counted(t)
    BY <1>1, <1>4 DEF CountedNext, Counted, CallOK
  <1>8. QED
    BY <1>1, <1>2, <1>6, <1>7, LoadStays, KeepsInv


(* An id that has been inserted is at rest, and has its path.              *)
LEMMA NameStep ==
  ASSUME Inv, NEW t \in Thread, NEW x \in Id, x = id[t], Name(t)
  PROVE  Keeps(t, x) /\ Inv'
  <1> USE DEF Inv, Name, Goto, Leave, shared, index, update, query
  <1>1. Busy(t) /\ CallOK(t)
    BY DEF Busy, Updating, Calls
  <1>2. TypeOK'
    BY <1>1, BandsType DEF TypeOK, Updating, CallOK, Members
  <1>3. \A u \in Thread \ {t} : /\ pc'[u] = pc[u] /\ id'[u] = id[u]
                                /\ cell'[u] = cell[u] /\ old'[u] = old[u]
    BY DEF TypeOK
  <1>4. /\ pc[t] = "name" /\ pc'[t] = "idle" /\ NoCall(t)'
    BY <1>1 DEF TypeOK, NoCall
  <1>5. AtRest(x)'
    BY <1>1, <1>4, NoneAssumption DEF AtRest, CallOK, Place, Members
  <1>6. Keeps(t, x)
    BY <1>1, <1>3, <1>4, <1>5 DEF Keeps, Members
  <1>7. CountedNext(t, x) = Counted(t)
    BY <1>1, <1>4 DEF CountedNext, Counted, CallOK
  <1>8. QED
    BY <1>1, <1>2, <1>6, <1>7, LoadStays, KeepsInv

(* An id that was never there is at rest at once.                          *)
LEMMA RemoveStep ==
  ASSUME Inv, NEW t \in Thread, NEW x \in Id, x = id[t], Remove(t)
  PROVE  Keeps(t, x) /\ Inv'
  <1> USE DEF Inv, Remove, Goto, Leave, shared, index, update, query
  <1>1. Busy(t) /\ CallOK(t)
    BY DEF Busy, Updating, Calls
  <1>2. TypeOK'
    BY <1>1, BandsType DEF TypeOK, Updating, CallOK, Members
  <1>3. \A u \in Thread \ {t} : /\ pc'[u] = pc[u] /\ id'[u] = id[u]
                                /\ cell'[u] = cell[u] /\ old'[u] = old[u]
    BY DEF TypeOK
  <1>4. /\ pc[t] = "remove" /\ UNCHANGED <<cells, named>>
        /\ \A y \in Id : nodeCell'[y] = IF y = x THEN None ELSE nodeCell[y]
        /\ \/ nodeCell[x] = None /\ pc'[t] = "idle" /\ NoCall(t)'
           \/ nodeCell[x] # None /\ pc'[t] = "detach" /\ UNCHANGED update
    BY <1>1 DEF TypeOK, NoCall
  <1>5. /\ pc'[t] = "idle" => AtRest(x)'
        /\ pc'[t] = "detach" => CallOK(t)'
    BY <1>1, <1>4, NoneAssumption DEF AtRest, CallOK, Place, Members, TypeOK
  <1>6. Keeps(t, x)
    BY <1>1, <1>3, <1>4, <1>5 DEF Keeps, Members, Updating
  <1>7. CountedNext(t, x) = Counted(t)
    BY <1>1, <1>4 DEF CountedNext, Counted, CallOK
  <1>8. QED
    BY <1>1, <1>2, <1>6, <1>7, LoadStays, KeepsInv

(* The id leaves the only cell it is in.                                   *)
LEMMA DetachStep ==
  ASSUME Inv, NEW t \in Thread, NEW x \in Id, x = id[t], Detach(t)
  PROVE  Keeps(t, x) /\ Inv'
  <1> USE DEF Inv, Detach, Goto, Leave, shared, index, update, query
  <1>1. Busy(t) /\ CallOK(t)
    BY DEF Busy, Updating, Calls
  <1>2. TypeOK'
    BY <1>1, BandsType DEF TypeOK, Updating, CallOK, Members
  <1>3. \A u \in Thread \ {t} : /\ pc'[u] = pc[u] /\ id'[u] = id[u]
                                /\ cell'[u] = cell[u] /\ old'[u] = old[u]
    BY DEF TypeOK
  <1>4. /\ pc[t] = "detach" /\ pc'[t] \in {"drop", "unload"}
        /\ \A c \in Cell : Members(c)' = Members(c) \ (IF c = old[t] THEN {x} ELSE {})
    <2>1. old[t] \in Cell /\ Members(old[t]) \ {x} \in SUBSET Id
      BY <1>1 DEF TypeOK, Members, CallOK
    <2>2. QED
      BY <1>1, <2>1, NoneAssumption DEF TypeOK, Members
  <1>5. CallOK(t)'
    BY <1>1, <1>4, NoneAssumption DEF CallOK, Place
  <1>6. Keeps(t, x)
    BY <1>1, <1>3, <1>4, <1>5 DEF Keeps, Updating
  <1>7. CountedNext(t, x) = Counted(t)
    BY <1>1, <1>4 DEF CountedNext, Counted, CallOK
  <1>8. QED
    BY <1>1, <1>2, <1>6, <1>7, LoadStays, KeepsInv

(* Whatever else is in the cell by then goes with it.                      *)
LEMMA DropStep ==
  ASSUME Inv, NEW t \in Thread, NEW x \in Id, x = id[t], Drop(t)
  PROVE  Keeps(t, x) /\ Inv'
  <1> USE DEF Inv, Drop, Goto, Leave, shared, index, update, query
  <1>1. Busy(t) /\ CallOK(t)
    BY DEF Busy, Updating, Calls
  <1>2. TypeOK'
    BY <1>1, BandsType DEF TypeOK, Updating, CallOK, Members
  <1>3. \A u \in Thread \ {t} : /\ pc'[u] = pc[u] /\ id'[u] = id[u]
                                /\ cell'[u] = cell[u] /\ old'[u] = old[u]
    BY DEF TypeOK
  <1>4. /\ pc[t] = "drop" /\ pc'[t] = "unmark"
        /\ \A c \in Cell : Members(c)' = IF c = old[t] THEN {} ELSE Members(c)
    BY <1>1 DEF TypeOK, Members, CallOK
  <1>5. CallOK(t)'
    BY <1>1, <1>4 DEF CallOK, Place
  <1>6. Keeps(t, x)
    BY <1>1, <1>3, <1>4, <1>5 DEF Keeps, Updating
  <1>7. CountedNext(t, x) = Counted(t)
    BY <1>1, <1>4 DEF CountedNext, Counted, CallOK
  <1>8. QED
    BY <1>1, <1>2, <1>6, <1>7, LoadStays, KeepsInv

LEMMA UnmarkStep ==
  ASSUME Inv, NEW t \in Thread, NEW x \in Id, x = id[t], Unmark(t)
  PROVE  Keeps(t, x) /\ Inv'
  <1> USE DEF Inv, Unmark, Goto, Leave, shared, index, update, query
  <1>1. Busy(t) /\ CallOK(t)
    BY DEF Busy, Updating, Calls
  <1>2. TypeOK'
    BY <1>1, BandsType DEF TypeOK, Updating, CallOK, Members
  <1>3. \A u \in Thread \ {t} : /\ pc'[u] = pc[u] /\ id'[u] = id[u]
                                /\ cell'[u] = cell[u] /\ old'[u] = old[u]
    BY DEF TypeOK
  <1>4. pc[t] = "unmark" /\ pc'[t] = "unload"
    BY <1>1 DEF TypeOK
  <1>5. CallOK(t)'
    BY <1>1, <1>4 DEF CallOK, Place, Members
  <1>6. Keeps(t, x)
    BY <1>1, <1>3, <1>4, <1>5 DEF Keeps, Updating, Members
  <1>7. CountedNext(t, x) = Counted(t)
    BY <1>1, <1>4 DEF CountedNext, Counted, CallOK
  <1>8. QED
    BY <1>1, <1>2, <1>6, <1>7, LoadStays, KeepsInv

(* The id counts for no band, until its new one has it.                    *)
LEMMA UnloadStep ==
  ASSUME Inv, NEW t \in Thread, NEW x \in Id, x = id[t], Unload(t)
  PROVE  Keeps(t, x) /\ Inv'
  <1> USE DEF Inv, Unload, Goto, Leave, shared, index, update, query
  <1>1. Busy(t) /\ CallOK(t)
    BY DEF Busy, Updating, Calls
  <1>2. TypeOK'
    BY <1>1, BandsType DEF TypeOK, Updating, CallOK, Members
  <1>3. \A u \in Thread \ {t} : /\ pc'[u] = pc[u] /\ id'[u] = id[u]
                                /\ cell'[u] = cell[u] /\ old'[u] = old[u]
    BY DEF TypeOK
  <1>4. /\ pc[t] = "unload" /\ UNCHANGED <<cells, nodeCell, named>>
        /\ \/ cell[t] = None /\ pc'[t] = "idle" /\ NoCall(t)'
           \/ cell[t] # None /\ pc'[t] = "push" /\ UNCHANGED update
    BY <1>1 DEF TypeOK, NoCall
  <1>5. /\ pc'[t] = "idle" => AtRest(x)'
        /\ pc'[t] = "push" => CallOK(t)'
    BY <1>1, <1>4, NoneAssumption DEF AtRest, CallOK, Place, Members, TypeOK
  <1>6. Keeps(t, x)
    BY <1>1, <1>3, <1>4, <1>5 DEF Keeps, Members, Updating
  <1>7. Counted(t) = old[t] /\ old[t] \in Cell /\ CountedNext(t, x) = None
    BY <1>1, <1>4 DEF CountedNext, Counted, CallOK
  <1>8. LoadExact'
    BY <1>6, <1>7, LoadShrinks
  <1>9. QED
    BY <1>1, <1>2, <1>6, <1>8, KeepsInv


-----------------------------------------------------------------------------
(* Where calls begin *)

(* A call takes on an id that no other call works on.                      *)
Begins(t, x) ==
  /\ pc[t] = "idle" /\ Free(x)
  /\ UNCHANGED <<shared, query>>
  /\ \A u \in Thread \ {t} :
       pc'[u] = pc[u] /\ id'[u] = id[u] /\ cell'[u] = cell[u] /\ old'[u] = old[u]
  /\ pc'[t] \in {"insert", "forget"}
  /\ id'[t] = x /\ old'[t] = nodeCell[x]
  /\ IF pc'[t] = "insert" THEN cell'[t] \in Cell /\ \A u \in Thread : x \in seen'[u]
     ELSE cell'[t] = None
  /\ \A u \in Thread : seen[u] \subseteq seen'[u]

LEMMA BeginsInv ==
  ASSUME Inv, NEW t \in Thread, NEW x \in Id, Begins(t, x), TypeOK'
  PROVE  Inv'
  <1> USE DEF Inv, Begins
  <1>1. /\ \A u \in Thread \ {t} : Busy(u)' <=> Busy(u)
        /\ ~Busy(t) /\ Busy(t)'
        /\ UNCHANGED <<cells, nodeCell, bandLoad, bandSectors, named>>
        /\ UNCHANGED <<bandsLeft, cellsLeft, found, answer>>
        /\ \A c : Members(c)' = Members(c)
    BY DEF Busy, Updating, shared, index, query, Members
  <1>2. \A y \in Id \ {x} : Free(y)' <=> Free(y)
    BY <1>1 DEF Free
  <1>3. ~Free(x)'
    BY <1>1 DEF Free
  <1>4. CallOK(t)'
    <2>1. AtRest(x)
      BY DEF FreeIds
    <2>2. QED
      BY <1>1, <2>1, NoneAssumption DEF AtRest, CallOK, Place
  <1>5. Calls'
    <2>1. ASSUME NEW u \in Thread \ {t}, Busy(u) PROVE CallOK(u)'
      BY <1>1, <2>1 DEF Calls, CallOK, Place
    <2>2. ASSUME NEW u \in Thread \ {t}, ~Busy(u) PROVE NoCall(u)'
      BY <1>1, <2>2 DEF Calls, NoCall
    <2>3. QED
      BY <1>1, <1>4, <2>1, <2>2 DEF Calls
  <1>6. OneCall'
    BY <1>1 DEF OneCall, Free
  <1>7. FreeIds'
    BY <1>1, <1>2, <1>3 DEF FreeIds, AtRest
  <1>8. LoadExact'
    <2>1. ASSUME NEW y \in Id, NEW c \in Cell PROVE CountedAt(y, c)' <=> CountedAt(y, c)
      <3>1. CASE y # x
        <4>1. \A u \in Thread \ {t} : Counted(u)' = Counted(u)
          BY DEF Counted
        <4>2. QED
          BY <1>1, <1>2, <3>1, <4>1 DEF CountedAt
      <3>2. CASE y = x
        <4>1. Counted(t)' = nodeCell[x]
          BY DEF Counted
        <4>2. CountedAt(x, c) <=> nodeCell[x] = c
          BY DEF CountedAt, Free
        <4>3. CountedAt(x, c)' <=> nodeCell[x] = c
          BY <1>1, <1>3, <1>6, <4>1 DEF CountedAt, OneCall
        <4>4. QED
          BY <3>2, <4>2, <4>3
      <3>3. QED
        BY <3>1, <3>2
    <2>2. \A b \in Bands : CountedIn(b)' = CountedIn(b)
      BY <2>1 DEF CountedIn
    <2>3. QED
      BY <1>1, <2>2 DEF LoadExact
  <1>9. Foreseen' /\ QueryNoGhost'
    <2>1. /\ \A u \in Thread : pc'[u] \in Querying <=> pc[u] \in Querying
          /\ \A u \in Thread : pc[u] \in Querying => pc'[u] = pc[u]
      BY DEF Querying
    <2>2. ASSUME NEW u \in Thread, pc[u] \in Querying,
                 NEW v \in Thread, Busy(v)', cell'[v] # None
          PROVE  id'[v] \in seen'[u]
      <3>1. CASE v = t
        BY <2>2, <3>1
      <3>2. CASE v # t
        BY <1>1, <2>2, <3>2 DEF Foreseen
      <3>3. QED
        BY <3>1, <3>2
    <2>3. \A u \in Thread : pc[u] \in Querying => \A c \in Cell : Members(c)' \subseteq seen'[u]
      BY <1>1 DEF Foreseen
    <2>4. Foreseen'
      BY <1>1, <2>1, <2>2, <2>3 DEF Foreseen
    <2>5. QED
      BY <1>1, <2>4 DEF QueryNoGhost
  <1>10. QED
    BY <1>5, <1>6, <1>7, <1>8, <1>9

LEMMA BeginInsertStep ==
  ASSUME Inv, NEW t \in Thread, NEW x \in Id, NEW c \in Cell, BeginInsert(t, x, c)
  PROVE  Begins(t, x) /\ Inv'
  <1> USE DEF Inv, BeginInsert, MayUpdate, Goto, Touch
  <1>1. TypeOK'
    BY DEF TypeOK, Updating, shared, index, query
  <1>2. Free(x)
    BY DEF Free, Busy, Updating
  <1>3. Begins(t, x)
    BY <1>2 DEF Begins, TypeOK
  <1>4. QED
    BY <1>1, <1>3, BeginsInv

LEMMA BeginRemoveStep ==
  ASSUME Inv, NEW t \in Thread, NEW x \in Id, BeginRemove(t, x)
  PROVE  Begins(t, x) /\ Inv'
  <1> USE DEF Inv, BeginRemove, MayUpdate, Goto, Touch
  <1>1. TypeOK'
    BY DEF TypeOK, Updating, shared, index, query
  <1>2. Free(x)
    BY DEF Free, Busy, Updating
  <1>3. cell[t] = None
    BY DEF Calls, NoCall, Busy, Updating
  <1>4. Begins(t, x)
    BY <1>2, <1>3 DEF Begins, TypeOK
  <1>5. QED
    BY <1>1, <1>4, BeginsInv

-----------------------------------------------------------------------------
(* The steps of a query *)

(* No step of a query touches a call or the maps.                          *)
Looks(t) ==
  /\ ~Busy(t) /\ ~Busy(t)'
  /\ UNCHANGED <<shared, update>>
  /\ \A u \in Thread \ {t} :
       /\ pc'[u] = pc[u] /\ found'[u] = found[u] /\ answer'[u] = answer[u]
       /\ seen'[u] = seen[u] /\ settled'[u] = settled[u]
       /\ bandsLeft'[u] = bandsLeft[u] /\ cellsLeft'[u] = cellsLeft[u]

(* What the index has and may come to have.                                *)
Coming(x) == nodeCell[x] # None \/ \E u \in Thread : id[u] = x

LEMMA LooksInv ==
  ASSUME Inv, NEW t \in Thread, Looks(t), TypeOK',
         IF pc'[t] \in Querying
         THEN /\ \/ pc[t] \in Querying /\ seen'[t] = seen[t]
                 \/ {x \in Id : Coming(x)} \subseteq seen'[t]
              /\ found'[t] \cup answer'[t] \subseteq seen'[t]
              /\ pc'[t] = "answered" => found'[t] = {}
              /\ pc'[t] = "bands" => found'[t] = {} /\ answer'[t] = {}
         ELSE found'[t] = {} /\ answer'[t] = {}
  PROVE  Inv'
  <1> USE DEF Inv, Looks
  <1>1. /\ UNCHANGED <<cells, nodeCell, bandLoad, bandSectors, named, id, cell, old>>
        /\ \A u \in Thread : Busy(u)' <=> Busy(u)
        /\ \A u \in Thread : Busy(u) => u # t /\ pc'[u] = pc[u]
        /\ \A c : Members(c)' = Members(c)
    BY DEF shared, index, update, Busy, Members
  <1>2. \A u \in Thread : Busy(u) => Place(u)' = Place(u) /\ Counted(u)' = Counted(u)
    BY <1>1 DEF Place, Counted
  <1>3. Calls'
    BY <1>1, <1>2 DEF Calls, CallOK, NoCall
  <1>4. OneCall'
    BY <1>1 DEF OneCall
  <1>5. FreeIds'
    BY <1>1 DEF FreeIds, Free, AtRest
  <1>6. LoadExact'
    <2>1. \A y \in Id, c \in Cell : CountedAt(y, c)' <=> CountedAt(y, c)
      BY <1>1, <1>2 DEF CountedAt, Free
    <2>2. \A b \in Bands : CountedIn(b)' = CountedIn(b)
      BY <2>1 DEF CountedIn
    <2>3. QED
      BY <1>1, <2>2 DEF LoadExact
  <1>7. ASSUME NEW c \in Cell, NEW x \in Members(c) PROVE x \in Id /\ Coming(x)
    <2>1. x \in Id
      BY <1>7 DEF TypeOK, Members
    <2>2. CASE Free(x)
      BY <1>7, <2>1, <2>2, NoneAssumption DEF FreeIds, AtRest, Coming
    <2>3. CASE ~Free(x)
      BY <2>1, <2>3 DEF Free, Coming
    <2>4. QED
      BY <2>1, <2>2, <2>3
  <1>8. ASSUME pc'[t] \in Querying
        PROVE  /\ \A c \in Cell : Members(c)' \subseteq seen'[t]
               /\ \A u \in Thread : Busy(u)' /\ cell'[u] # None => id'[u] \in seen'[t]
    <2>1. CASE pc[t] \in Querying /\ seen'[t] = seen[t]
      BY <1>1, <2>1 DEF Foreseen
    <2>2. CASE {x \in Id : Coming(x)} \subseteq seen'[t]
      BY <1>1, <1>7, <2>2 DEF Coming, Calls, CallOK
    <2>3. QED
      BY <1>8, <2>1, <2>2
  <1>9. Foreseen'
    BY <1>1, <1>8 DEF Foreseen
  <1>10. QueryNoGhost'
    BY DEF QueryNoGhost
  <1>11. QED
    BY <1>3, <1>4, <1>5, <1>6, <1>9, <1>10

LEMMA BeginQueryStep ==
  ASSUME Inv, NEW t \in Thread, BeginQuery(t)
  PROVE  Looks(t) /\ Inv'
  <1> USE DEF Inv, BeginQuery, Goto, query
  <1>1. TypeOK'
    BY DEF TypeOK, Querying, shared, index, update
  <1>2. pc[t] = "idle" /\ pc'[t] = "bands" /\ found'[t] = {} /\ answer'[t] = {}
    BY DEF TypeOK, Foreseen, Querying
  <1>3. Looks(t)
    BY <1>2 DEF Looks, Busy, Updating, TypeOK
  <1>4. {x \in Id : Coming(x)} \subseteq seen'[t]
    BY DEF Coming, TypeOK
  <1>5. QED
    BY <1>1, <1>2, <1>3, <1>4, LooksInv DEF Querying

LEMMA ListBandsStep ==
  ASSUME Inv, NEW t \in Thread, ListBands(t)
  PROVE  Looks(t) /\ Inv'
  <1> USE DEF Inv, ListBands, Goto
  <1>1. TypeOK'
    BY DEF TypeOK, Querying, shared, index, update
  <1>2. pc[t] = "bands" /\ pc'[t] = "walk"
    BY DEF TypeOK
  <1>3. Looks(t)
    BY <1>2 DEF Looks, Busy, Updating, TypeOK
  <1>4. QED
    BY <1>1, <1>2, <1>3, LooksInv DEF Querying, QueryNoGhost

LEMMA ListCellsStep ==
  ASSUME Inv, NEW t \in Thread, NEW b \in Bands, ListCells(t, b)
  PROVE  Looks(t) /\ Inv'
  <1> USE DEF Inv, ListCells
  <1>1. TypeOK'
    BY DEF TypeOK, Querying, shared, index, update
  <1>2. pc[t] = "walk" /\ pc'[t] = "walk"
    BY DEF TypeOK
  <1>3. Looks(t)
    BY <1>2 DEF Looks, Busy, Updating, TypeOK
  <1>4. QED
    BY <1>1, <1>2, <1>3, LooksInv DEF Querying, QueryNoGhost

(* What a query comes upon it has been told of.                            *)
LEMMA VisitStep ==
  ASSUME Inv, NEW t \in Thread, NEW c \in Cell, Visit(t, c)
  PROVE  Looks(t) /\ Inv'
  <1> USE DEF Inv, Visit
  <1>1. TypeOK'
    BY DEF TypeOK, Querying, shared, index, update, Members
  <1>2. pc[t] = "walk" /\ pc'[t] = "walk"
    BY DEF TypeOK
  <1>3. Looks(t)
    BY <1>2 DEF Looks, Busy, Updating, TypeOK
  <1>4. found'[t] \cup answer'[t] \subseteq seen'[t]
    <2>1. Members(c) \subseteq seen[t]
      BY <1>2 DEF Foreseen, Querying
    <2>2. found'[t] = found[t] \cup Members(c)
      BY DEF TypeOK
    <2>3. QED
      BY <2>1, <2>2 DEF QueryNoGhost
  <1>5. QED
    BY <1>1, <1>2, <1>3, <1>4, LooksInv DEF Querying

LEMMA QueryDoneStep ==
  ASSUME Inv, NEW t \in Thread, QueryDone(t)
  PROVE  Looks(t) /\ Inv'
  <1> USE DEF Inv, QueryDone, Goto, query
  <1>1. TypeOK'
    BY DEF TypeOK, Querying, shared, index, update
  <1>2. pc[t] = "walk" /\ pc'[t] = "resolve"
    BY DEF TypeOK
  <1>3. Looks(t)
    BY <1>2 DEF Looks, Busy, Updating, TypeOK
  <1>4. QED
    BY <1>1, <1>2, <1>3, LooksInv DEF Querying, QueryNoGhost

LEMMA ResolveStep ==
  ASSUME Inv, NEW t \in Thread, Resolve(t)
  PROVE  Looks(t) /\ Inv'
  <1> USE DEF Inv, Resolve, Goto, query
  <1>1. CASE \E x \in found[t] :
               /\ found' = [found EXCEPT ![t] = @ \ {x}]
               /\ answer' = [answer EXCEPT ![t] = @ \cup ({x} \cap named)]
               /\ UNCHANGED <<pc, bandsLeft, cellsLeft>>
    <2>1. TypeOK'
      BY <1>1 DEF TypeOK, shared, index, update
    <2>2. pc[t] = "resolve" /\ pc'[t] = "resolve"
      BY <1>1
    <2>3. Looks(t)
      BY <1>1, <2>2 DEF Looks, Busy, Updating, TypeOK
    <2>4. found'[t] \cup answer'[t] \subseteq seen'[t]
      BY <1>1 DEF TypeOK, QueryNoGhost
    <2>5. QED
      BY <2>1, <2>2, <2>3, <2>4, LooksInv DEF Querying
  <1>2. CASE found[t] = {} /\ Goto(t, "answered") /\ UNCHANGED query
    <2>1. TypeOK'
      BY <1>2 DEF TypeOK, shared, index, update, Querying
    <2>2. pc[t] = "resolve" /\ pc'[t] = "answered"
      BY <1>2 DEF TypeOK
    <2>3. Looks(t)
      BY <1>2, <2>2 DEF Looks, Busy, Updating, TypeOK
    <2>4. found'[t] = {} /\ found'[t] \cup answer'[t] \subseteq seen'[t]
      BY <1>2 DEF QueryNoGhost
    <2>5. QED
      BY <2>1, <2>2, <2>3, <2>4, LooksInv DEF Querying
  <1>3. QED
    BY <1>1, <1>2

LEMMA ReturnStep ==
  ASSUME Inv, NEW t \in Thread, Return(t)
  PROVE  Looks(t) /\ Inv'
  <1> USE DEF Inv, Return, Goto, Leave
  <1>1. TypeOK'
    BY DEF TypeOK, shared, index
  <1>2. /\ pc[t] = "answered" /\ pc'[t] = "idle" /\ found'[t] = {} /\ answer'[t] = {}
        /\ NoCall(t)
    BY DEF TypeOK, Foreseen, Querying, Calls, Busy, Updating
  <1>3. UNCHANGED <<id, cell, old>>
    BY <1>2 DEF NoCall, TypeOK
  <1>4. Looks(t)
    BY <1>2, <1>3 DEF Looks, Busy, Updating, TypeOK, update
  <1>5. QED
    BY <1>1, <1>2, <1>4, LooksInv DEF Querying

-----------------------------------------------------------------------------
(* Whatever cells are shared *)

LEMMA InitInv == Init => Inv
  <1> SUFFICES ASSUME Init PROVE Inv
    OBVIOUS
  <1>1. TypeOK
    BY DEF Init, TypeOK
  <1>2. \A t \in Thread : ~Busy(t) /\ NoCall(t) /\ pc[t] \notin Querying
    BY DEF Init, Busy, NoCall, Updating, Querying
  <1>3. \A x \in Id : AtRest(x)
    BY DEF Init, AtRest, Members
  <1>4. LoadExact
    <2>1. \A b \in Bands : CountedIn(b) = {}
      BY <1>2, NoneAssumption DEF Init, CountedIn, CountedAt
    <2>2. QED
      BY <2>1, FS_EmptySet DEF Init, LoadExact
  <1>5. Foreseen /\ QueryNoGhost
    BY <1>2 DEF Init, Foreseen, QueryNoGhost
  <1>6. QED
    BY <1>1, <1>2, <1>3, <1>4, <1>5 DEF Inv, Calls, OneCall, FreeIds

LEMMA StutterInv == Inv /\ UNCHANGED vars => Inv'
  <1> SUFFICES ASSUME Inv, UNCHANGED vars PROVE Inv'
    OBVIOUS
  <1> USE DEF Inv, vars, shared, index, update, query
  <1>1. TypeOK' /\ QueryNoGhost'
    BY DEF TypeOK, QueryNoGhost
  <1>2. /\ \A t \in Thread : /\ (Busy(t)' <=> Busy(t)) /\ (NoCall(t)' <=> NoCall(t))
                             /\ Place(t)' = Place(t) /\ Counted(t)' = Counted(t)
        /\ \A c : Members(c)' = Members(c)
        /\ \A x : (Free(x)' <=> Free(x)) /\ (AtRest(x)' <=> AtRest(x))
    BY DEF Busy, NoCall, Place, Counted, Members, Free, AtRest
  <1>3. Calls' /\ OneCall' /\ FreeIds' /\ Foreseen'
    BY <1>2 DEF Calls, CallOK, OneCall, FreeIds, Foreseen
  <1>4. \A x, c : CountedAt(x, c)' <=> CountedAt(x, c)
    BY <1>2 DEF CountedAt
  <1>5. \A b : CountedIn(b)' = CountedIn(b)
    BY <1>4 DEF CountedIn
  <1>6. QED
    BY <1>1, <1>3, <1>5 DEF LoadExact

LEMMA NextInv == Inv /\ [Next]_vars => Inv'
  <1> SUFFICES ASSUME Inv, [Next]_vars PROVE Inv'
    OBVIOUS
  <1>1. ASSUME NEW t \in Thread, Update(t) PROVE Inv'
    <2>1. ASSUME NEW x \in Id, BeginRemove(t, x) PROVE Inv'
      BY <2>1, BeginRemoveStep
    <2>2. ASSUME NEW x \in Id, NEW c \in Cell, BeginInsert(t, x, c) PROVE Inv'
      BY <2>2, BeginInsertStep
    <2>3. ASSUME \/ Insert(t) \/ Push(t) \/ Record(t) \/ Load(t) \/ Mark(t) \/ Name(t)
                 \/ Forget(t) \/ Remove(t) \/ Detach(t) \/ Drop(t) \/ Unmark(t) \/ Unload(t)
          PROVE  Inv'
      <3>1. Busy(t)
        BY <2>3 DEF Insert, Push, Record, Load, Mark, Name, Forget, Remove, Detach, Drop,
                    Unmark, Unload, Busy, Updating
      <3>2. PICK x \in Id : x = id[t]
        BY <3>1 DEF Inv, Calls, CallOK
      <3>3. QED
        BY <2>3, <3>2, InsertStep, PushStep, RecordStep, LoadStep, MarkStep, NameStep,
           ForgetStep, RemoveStep, DetachStep, DropStep, UnmarkStep, UnloadStep
    <2>4. QED
      BY <1>1, <2>1, <2>2, <2>3 DEF Update
  <1>2. ASSUME NEW t \in Thread, Query(t) PROVE Inv'
    BY <1>2, BeginQueryStep, ListBandsStep, ListCellsStep, VisitStep, QueryDoneStep,
       ResolveStep, ReturnStep DEF Query
  <1>3. QED
    BY <1>1, <1>2, StutterInv DEF Next

(* The invariant of every history, also of those where two calls change    *)
(* the same cell at once.                                                  *)
THEOREM IndexInvariant == Spec => []Inv
  BY InitInv, NextInv, PTL DEF Spec

(* The types of all variables.                                             *)
THEOREM TypeCorrect == Spec => []TypeOK
  <1>1. Inv => TypeOK
    BY DEF Inv
  <1>2. QED
    BY <1>1, IndexInvariant, PTL

(* A query gives no id that the index did not have at some moment of it.   *)
(* No sharing of cells brings an id back: members.retain and cells.remove  *)
(* only take away, and an id is pushed before it is named.                 *)
THEOREM NoGhosts == Spec => []QueryNoGhost
  <1>1. Inv => QueryNoGhost
    BY DEF Inv
  <1>2. QED
    BY <1>1, IndexInvariant, PTL

(* The counter of a band is ahead of what is registered there, and its     *)
(* saturating subtraction in detach never meets a zero.                    *)
THEOREM LoadsCount == Spec => []LoadCounts
  <1>1. ASSUME Inv, NEW b \in Bands
        PROVE  bandLoad[b] >= Cardinality({x \in Id : Registered(x) /\ Band[nodeCell[x]] = b})
    <2> DEFINE here == {x \in Id : Registered(x) /\ Band[nodeCell[x]] = b}
    <2>1. here \subseteq CountedIn(b)
      BY <1>1 DEF Inv, TypeOK, Registered, CountedIn, CountedAt, Free, Busy
    <2>2. /\ IsFiniteSet(CountedIn(b)) /\ bandLoad[b] = Cardinality(CountedIn(b))
          /\ bandLoad[b] \in Nat
      BY <1>1 DEF Inv, LoadExact, TypeOK
    <2> HIDE DEF here
    <2>3. IsFiniteSet(here) /\ Cardinality(here) <= Cardinality(CountedIn(b))
      BY <2>1, <2>2, FS_Subset
    <2>4. Cardinality(here) \in Nat
      BY <2>3, FS_CardinalityType
    <2>5. bandLoad[b] >= Cardinality(here)
      BY <2>2, <2>3, <2>4
    <2>6. QED
      BY <2>5 DEF here
  <1>2. Inv => LoadCounts
    BY <1>1 DEF LoadCounts
  <1>3. QED
    BY <1>2, IndexInvariant, PTL

-----------------------------------------------------------------------------
(* Where no two calls share a cell: the steps of an insert and of a remove *)

(* A step takes no id out of a cell but its own, and leaves that one where *)
(* it is to be.                                                            *)
Holds(t, x) ==
  /\ Keeps(t, x)
  /\ \A y \in Id \ {x} : \A c \in Cell : y \in Members(c) => y \in Members(c)'
  /\ IF pc'[t] = "idle" THEN (nodeCell[x] # None => x \in Members(nodeCell[x]))'
     ELSE (Place(t) # None => x \in Members(Place(t)))'

LEMMA HoldsApart ==
  ASSUME ApartInv, NEW t \in Thread, NEW x \in Id, Keeps(t, x)
  PROVE  Apart' /\ Underway'
  <1> USE DEF ApartInv, Inv
  <1>1. /\ \A u \in Thread \ {t} : Busy(u)' <=> Busy(u)
        /\ Busy(t)' => cell'[t] = cell[t] /\ old'[t] = old[t]
    BY DEF Keeps, Busy, Updating
  <1>2. Apart'
    BY <1>1 DEF Keeps, Apart
  <1>3. ASSUME NEW u \in Thread, NEW y \in settled[u]
        PROVE  y \in Id \ {x} /\ Registered(y)'
    <2>1. Registered(y) /\ y \in Id
      BY <1>3 DEF Underway, Leads, TypeOK
    <2>2. y # x
      BY <2>1 DEF Keeps, Registered, Busy
    <2>3. nodeCell'[y] = nodeCell[y]
      BY <2>1, <2>2 DEF Keeps
    <2>4. \A v \in Thread : pc'[v] \in Updating => id'[v] # y
      BY <2>1, <2>2 DEF Keeps, Registered, Updating
    <2>5. QED
      BY <2>1, <2>2, <2>3, <2>4 DEF Registered
  <1>4. ASSUME NEW u \in Thread PROVE Leads(u)'
    <2>1. \A y \in settled[u] : nodeCell'[y] = nodeCell[y]
      BY <1>3 DEF Keeps
    <2>2. pc[u] \in Querying => pc'[u] = pc[u]
      BY DEF Keeps, Busy, Updating, Querying
    <2>3. UNCHANGED <<settled, bandsLeft, cellsLeft, found, answer>> /\ Leads(u)
      BY DEF Keeps, query, Underway
    <2>4. QED
      BY <1>3, <2>1, <2>2, <2>3 DEF Leads
  <1>5. QED
    BY <1>2, <1>4 DEF Underway

LEMMA HoldsPresent ==
  ASSUME ApartInv, NEW t \in Thread, NEW x \in Id, Holds(t, x), TypeOK'
  PROVE  Present'
  <1> USE DEF ApartInv, Inv, Holds
  <1>1. \A u \in Thread \ {t} : /\ Busy(u)' <=> Busy(u)
                                /\ Place(u)' = Place(u) /\ id'[u] = id[u]
    BY DEF Keeps, Busy, Place
  <1>2. ASSUME NEW y \in Id, Free(y)', nodeCell'[y] # None
        PROVE  (y \in Members(nodeCell[y]))'
    <2>1. CASE y = x
      BY <1>2, <2>1 DEF Keeps, Free, Busy
    <2>2. CASE y # x
      <3>1. Free(y) /\ nodeCell'[y] = nodeCell[y]
        BY <1>1, <1>2, <2>2 DEF Keeps, Free
      <3>2. nodeCell[y] \in Cell /\ y \in Members(nodeCell[y])
        BY <1>2, <3>1 DEF Present, TypeOK
      <3>3. QED
        BY <2>2, <3>1, <3>2
    <2>3. QED
      BY <2>1, <2>2
  <1>3. ASSUME NEW u \in Thread, Busy(u)', (Place(u) # None)'
        PROVE  (id[u] \in Members(Place(u)))'
    <2>1. CASE u = t
      BY <1>3, <2>1 DEF Keeps, Busy, Updating
    <2>2. CASE u # t
      <3>1. Busy(u) /\ Place(u)' = Place(u) /\ id'[u] = id[u] /\ Place(u) # None
        BY <1>1, <1>3, <2>2
      <3>2. CallOK(u) /\ id[u] \in Members(Place(u)) /\ id[u] \in Id \ {x}
        BY <2>2, <3>1 DEF Present, OneCall, Keeps, Calls, CallOK
      <3>3. Place(u) \in Cell
        BY <3>1, <3>2 DEF Place, CallOK, TypeOK, Busy, Updating
      <3>4. QED
        BY <3>1, <3>2, <3>3
    <2>3. QED
      BY <2>1, <2>2
  <1>4. QED
    BY <1>2, <1>3 DEF Present

LEMMA HoldsInv ==
  ASSUME ApartInv, NEW t \in Thread, NEW x \in Id, Holds(t, x), Inv', Entries', Sectors'
  PROVE  ApartInv'
  <1>1. Keeps(t, x)
    BY DEF Holds
  <1>2. Apart' /\ Underway' /\ Present'
    BY <1>1, HoldsApart, HoldsPresent DEF Inv
  <1>3. QED
    BY <1>2 DEF ApartInv

(* A step changes the entry of d alone, which no other call works on.      *)
LEMMA HoldsEntries ==
  ASSUME ApartInv, NEW t \in Thread, NEW x \in Id, Keeps(t, x), NEW d \in Cell,
         d \in {cell[t], old[t]},
         \A c \in Cell \ {d} : cells'[c] = cells[c],
         pc[t] = "drop" => d = old[t],
         pc'[t] = "drop" => cells'[old[t]] = {},
         pc'[t] = "unmark" => cells'[old[t]] = None,
         cells'[d] = {} => pc'[t] = "drop" /\ d = old[t]
  PROVE  Entries'
  <1> USE DEF ApartInv, Inv
  <1>1. ASSUME NEW u \in Thread \ {t}, pc[u] \in {"drop", "unmark"}
        PROVE  old'[u] = old[u] /\ cells'[old[u]] = cells[old[u]]
    <2>1. Busy(u) /\ old[u] \in Cell
      BY <1>1 DEF Busy, Updating, Calls, CallOK
    <2>2. d # old[u]
      <3>1. {cell[t], old[t]} \cap {cell[u], old[u]} \subseteq {None}
        BY <2>1 DEF Apart, Keeps
      <3>2. QED
        BY <3>1, NoneAssumption
    <2>3. QED
      BY <2>1, <2>2 DEF Keeps
  <1>2. pc'[t] \in {"drop", "unmark"} => old'[t] = old[t]
    BY DEF Keeps
  <1>3. \A u \in Thread : /\ pc'[u] = "drop" => cells'[old'[u]] = {}
                          /\ pc'[u] = "unmark" => cells'[old'[u]] = None
    BY <1>1, <1>2 DEF Keeps, Entries
  <1>4. ASSUME NEW c \in Cell, cells'[c] = {}
        PROVE  \E u \in Thread : pc'[u] = "drop" /\ old'[u] = c
    <2>1. CASE c = d
      BY <1>2, <1>4, <2>1
    <2>2. CASE c # d
      <3>1. PICK u \in Thread : pc[u] = "drop" /\ old[u] = c
        BY <1>4, <2>2 DEF Entries
      <3>2. u # t
        BY <2>2, <3>1
      <3>3. QED
        BY <3>1, <3>2 DEF Keeps
    <2>3. QED
      BY <2>1, <2>2
  <1>5. QED
    BY <1>3, <1>4 DEF Entries

(* Nor does a step that changes no entry, and is not at an emptied one.    *)
LEMMA SameEntries ==
  ASSUME ApartInv, NEW t \in Thread, NEW x \in Id, Keeps(t, x), UNCHANGED cells,
         pc[t] # "drop", pc'[t] \notin {"drop", "unmark"}
  PROVE  Entries'
  BY DEF ApartInv, Entries, Keeps

(* The ids whose cells may not be marked yet are those of the calls that   *)
(* are on their way to mark them.                                          *)
LEMMA Marked ==
  ASSUME ApartInv, NEW c \in Cell, NEW y \in Members(c)
  PROVE  \/ c \in bandSectors[Band[c]]
         \/ \E u \in Thread : pc[u] \in {"record", "load", "mark"} /\ id[u] = y
  BY DEF ApartInv, Sectors

(* A step that marks and unmarks nothing.                                  *)
LEMMA SameSectors ==
  ASSUME ApartInv, NEW t \in Thread, NEW x \in Id, Keeps(t, x), TypeOK', UNCHANGED bandSectors,
         \A c \in Cell : x \in Members(c)' =>
            \/ pc'[t] \in {"record", "load", "mark"}
            \/ x \in Members(c) /\ pc[t] \notin {"record", "load", "mark"},
         \A c \in Cell : cells[c] # None /\ cells'[c] = None => pc'[t] = "unmark" /\ c = old[t],
         pc[t] # "unmark"
  PROVE  Sectors'
  <1> USE DEF ApartInv, Inv
  <1>1. ASSUME NEW c \in Cell, NEW y \in Members(c)'
        PROVE  \/ c \in bandSectors'[Band[c]]
               \/ \E u \in Thread : pc'[u] \in {"record", "load", "mark"} /\ id'[u] = y
    <2>1. y \in Id
      BY <1>1 DEF TypeOK, Members
    <2>2. CASE y = x
      <3>1. CASE pc'[t] \in {"record", "load", "mark"}
        BY <2>2, <3>1 DEF Keeps
      <3>2. CASE x \in Members(c) /\ pc[t] \notin {"record", "load", "mark"}
        <4>1. \A u \in Thread : pc[u] \in {"record", "load", "mark"} => id[u] # x
          BY <3>2 DEF OneCall, Keeps, Busy, Updating
        <4>2. QED
          BY <2>2, <3>2, <4>1, Marked
      <3>3. QED
        BY <1>1, <2>2, <3>1, <3>2
    <2>3. CASE y # x
      <3>1. y \in Members(c)
        BY <1>1, <2>1, <2>3 DEF Keeps
      <3>2. \A u \in Thread : id[u] = y => u # t
        BY <2>3 DEF Keeps
      <3>3. QED
        BY <3>1, <3>2, Marked DEF Keeps
    <2>4. QED
      BY <2>2, <2>3
  <1>2. ASSUME NEW b \in Bands, NEW c \in bandSectors'[b]
        PROVE  /\ Band[c] = b
               /\ cells'[c] # None \/ \E u \in Thread : pc'[u] = "unmark" /\ old'[u] = c
    <2>1. c \in Cell /\ Band[c] = b
      BY <1>2 DEF Sectors, TypeOK
    <2>2. CASE cells[c] # None
      BY <2>1, <2>2 DEF Keeps
    <2>3. CASE cells[c] = None
      <3>1. PICK u \in Thread : pc[u] = "unmark" /\ old[u] = c
        BY <1>2, <2>3 DEF Sectors
      <3>2. QED
        BY <2>1, <3>1 DEF Keeps
    <2>4. QED
      BY <2>1, <2>2, <2>3
  <1>3. QED
    BY <1>1, <1>2 DEF Sectors

LEMMA InsertApart ==
  ASSUME ApartInv, NEW t \in Thread, NEW x \in Id, x = id[t], Insert(t)
  PROVE  ApartInv'
  <1> USE DEF ApartInv
  <1>1. Keeps(t, x) /\ Inv'
    BY InsertStep
  <1>2. /\ pc[t] = "insert" /\ pc'[t] \in {"name", "push", "detach"}
        /\ \A c \in Cell : Members(c)' = Members(c)
        /\ UNCHANGED <<cells, nodeCell, bandSectors, cell, old>>
        /\ CallOK(t) /\ Busy(t)
    BY DEF Insert, Goto, shared, index, update, Members, Inv, TypeOK, Calls, Busy, Updating
  <1>3. /\ pc'[t] = "name" => Place(t)' = Place(t)
        /\ pc'[t] = "detach" => Place(t)' = Place(t)
        /\ pc'[t] = "push" => Place(t)' = None
        /\ Place(t) \in Cell \cup {None}
    BY <1>2 DEF Place, CallOK, Insert, Goto, Inv, TypeOK
  <1>4. Holds(t, x)
    BY <1>1, <1>2, <1>3 DEF Holds, Present
  <1>5. Entries' /\ Sectors'
    BY <1>1, <1>2, SameEntries, SameSectors DEF Inv
  <1>6. QED
    BY <1>1, <1>4, <1>5, HoldsInv

LEMMA PushApart ==
  ASSUME ApartInv, NEW t \in Thread, NEW x \in Id, x = id[t], Push(t)
  PROVE  ApartInv'
  <1> USE DEF ApartInv
  <1>1. Keeps(t, x) /\ Inv'
    BY PushStep
  <1>2. /\ pc[t] = "push" /\ pc'[t] = "record" /\ cell[t] \in Cell
        /\ cells'[cell[t]] = Members(cell[t]) \cup {x}
        /\ Members(cell[t]) \cup {x} \in SUBSET Id
        /\ \A c \in Cell \ {cell[t]} : cells'[c] = cells[c]
        /\ UNCHANGED <<nodeCell, bandSectors, cell, old>>
    BY DEF Push, Goto, update, Members, Inv, TypeOK, Calls, CallOK, Busy, Updating
  <1>3. cells'[cell[t]] \notin {None, {}}
    BY <1>2, NoneAssumption
  <1>4. \A c \in Cell : Members(c)' = IF c = cell[t] THEN Members(c) \cup {x} ELSE Members(c)
    BY <1>2, <1>3 DEF Members
  <1>5. Holds(t, x)
    BY <1>1, <1>2, <1>4 DEF Holds, Place
  <1>6. Entries'
    BY <1>1, <1>2, <1>3, HoldsEntries
  <1>7. \A c \in Cell : cells[c] # None => cells'[c] # None
    BY <1>2, <1>3
  <1>8. Sectors'
    BY <1>1, <1>2, <1>7, SameSectors DEF Inv
  <1>9. QED
    BY <1>1, <1>5, <1>6, <1>8, HoldsInv

LEMMA RecordApart ==
  ASSUME ApartInv, NEW t \in Thread, NEW x \in Id, x = id[t], Record(t)
  PROVE  ApartInv'
  <1> USE DEF ApartInv
  <1>1. Keeps(t, x) /\ Inv' /\ Busy(t)
    BY RecordStep DEF Keeps
  <1>2. /\ pc[t] = "record" /\ pc'[t] = "load" /\ UNCHANGED <<cells, bandSectors, cell, old>>
        /\ \A c \in Cell : Members(c)' = Members(c)
    BY DEF Record, Goto, update, Members, Inv, TypeOK
  <1>3. Place(t) = cell[t] /\ Place(t)' = cell[t] /\ cell[t] \in Cell
    BY <1>1, <1>2 DEF Place, Inv, Calls, CallOK
  <1>4. Holds(t, x)
    BY <1>1, <1>2, <1>3 DEF Holds, Present
  <1>5. Entries' /\ Sectors'
    BY <1>1, <1>2, SameEntries, SameSectors DEF Inv
  <1>6. QED
    BY <1>1, <1>4, <1>5, HoldsInv

LEMMA LoadApart ==
  ASSUME ApartInv, NEW t \in Thread, NEW x \in Id, x = id[t], Load(t)
  PROVE  ApartInv'
  <1> USE DEF ApartInv
  <1>1. Keeps(t, x) /\ Inv' /\ Busy(t)
    BY LoadStep DEF Keeps
  <1>2. /\ pc[t] = "load" /\ pc'[t] = "mark" /\ UNCHANGED <<cells, bandSectors, cell, old>>
        /\ \A c \in Cell : Members(c)' = Members(c)
    BY DEF Load, Goto, update, Members, Inv, TypeOK
  <1>3. Place(t) = cell[t] /\ Place(t)' = cell[t] /\ cell[t] \in Cell
    BY <1>1, <1>2 DEF Place, Inv, Calls, CallOK
  <1>4. Holds(t, x)
    BY <1>1, <1>2, <1>3 DEF Holds, Present
  <1>5. Entries' /\ Sectors'
    BY <1>1, <1>2, SameEntries, SameSectors DEF Inv
  <1>6. QED
    BY <1>1, <1>4, <1>5, HoldsInv

(* The cell is marked while the id is in it.                               *)
LEMMA MarkApart ==
  ASSUME ApartInv, NEW t \in Thread, NEW x \in Id, x = id[t], Mark(t)
  PROVE  ApartInv'
  <1> USE DEF ApartInv
  <1>1. Keeps(t, x) /\ Inv' /\ Busy(t)
    BY MarkStep DEF Keeps
  <1>2. /\ pc[t] = "mark" /\ pc'[t] = "name" /\ UNCHANGED <<cells, cell, old>>
        /\ \A c \in Cell : Members(c)' = Members(c)
        /\ \A b \in Bands : bandSectors'[b] = bandSectors[b] \cup
                              (IF b = Band[cell[t]] THEN {cell[t]} ELSE {})
    BY DEF Mark, Goto, update, Members, Inv, TypeOK
  <1>3. Place(t) = cell[t] /\ Place(t)' = cell[t] /\ cell[t] \in Cell /\ CallOK(t)
    BY <1>1, <1>2 DEF Place, Inv, Calls, CallOK
  <1>4. Holds(t, x)
    BY <1>1, <1>2, <1>3 DEF Holds, Present
  <1>5. Entries'
    BY <1>1, <1>2, SameEntries
  <1>6. ASSUME NEW c \in Cell, NEW y \in Members(c)'
        PROVE  \/ c \in bandSectors'[Band[c]]
               \/ \E u \in Thread : pc'[u] \in {"record", "load", "mark"} /\ id'[u] = y
    <2>1. CASE y = x
      BY <1>2, <1>3, <1>6, <2>1, BandsType DEF CallOK
    <2>2. CASE y # x
      <3>1. \A u \in Thread : id[u] = y => u # t
        BY <2>2
      <3>2. QED
        BY <1>1, <1>2, <1>6, <3>1, BandsType, Marked DEF Keeps
    <2>3. QED
      BY <2>1, <2>2
  <1>7. cells[cell[t]] # None
    BY <1>1, <1>3, NoneAssumption DEF Present, Members
  <1>8. ASSUME NEW b \in Bands, NEW c \in bandSectors'[b]
        PROVE  /\ Band[c] = b
               /\ cells'[c] # None \/ \E u \in Thread : pc'[u] = "unmark" /\ old'[u] = c
    <2>1. CASE c = cell[t] /\ b = Band[cell[t]]
      BY <1>2, <1>7, <2>1
    <2>2. CASE c \in bandSectors[b]
      <3>1. \A u \in Thread : pc[u] = "unmark" => pc'[u] = "unmark"
        BY <1>1, <1>2 DEF Keeps
      <3>2. QED
        BY <1>2, <2>2, <3>1 DEF Sectors
    <2>3. QED
      BY <1>2, <1>8, <2>1, <2>2
  <1>9. Sectors'
    BY <1>6, <1>8 DEF Sectors
  <1>10. QED
    BY <1>1, <1>4, <1>5, <1>9, HoldsInv

LEMMA NameApart ==
  ASSUME ApartInv, NEW t \in Thread, NEW x \in Id, x = id[t], Name(t)
  PROVE  ApartInv'
  <1> USE DEF ApartInv
  <1>1. Keeps(t, x) /\ Inv' /\ Busy(t)
    BY NameStep DEF Keeps
  <1>2. /\ pc[t] = "name" /\ pc'[t] = "idle" /\ UNCHANGED <<cells, nodeCell, bandSectors>>
        /\ \A c \in Cell : Members(c)' = Members(c)
    BY DEF Name, Leave, Goto, index, Members, Inv, TypeOK
  <1>3. Place(t) = cell[t] /\ nodeCell[x] = cell[t] /\ cell[t] \in Cell
    BY <1>1, <1>2 DEF Place, Inv, Calls, CallOK
  <1>4. Holds(t, x)
    BY <1>1, <1>2, <1>3, NoneAssumption DEF Holds, Present
  <1>5. Entries' /\ Sectors'
    BY <1>1, <1>2, SameEntries, SameSectors DEF Inv
  <1>6. QED
    BY <1>1, <1>4, <1>5, HoldsInv

LEMMA ForgetApart ==
  ASSUME ApartInv, NEW t \in Thread, NEW x \in Id, x = id[t], Forget(t)
  PROVE  ApartInv'
  <1> USE DEF ApartInv
  <1>1. Keeps(t, x) /\ Inv' /\ Busy(t)
    BY ForgetStep DEF Keeps
  <1>2. /\ pc[t] = "forget" /\ pc'[t] = "remove"
        /\ UNCHANGED <<cells, bandSectors, old>>
        /\ \A c \in Cell : Members(c)' = Members(c)
    BY DEF Forget, Goto, index, update, Members, Inv, TypeOK
  <1>3. Place(t) = old[t] /\ Place(t)' = old[t] /\ old[t] \in Cell \cup {None}
    BY <1>1, <1>2 DEF Place, Inv, TypeOK
  <1>4. Holds(t, x)
    BY <1>1, <1>2, <1>3 DEF Holds, Present
  <1>5. Entries' /\ Sectors'
    BY <1>1, <1>2, SameEntries, SameSectors DEF Inv
  <1>6. QED
    BY <1>1, <1>4, <1>5, HoldsInv

LEMMA RemoveApart ==
  ASSUME ApartInv, NEW t \in Thread, NEW x \in Id, x = id[t], Remove(t)
  PROVE  ApartInv'
  <1> USE DEF ApartInv
  <1>1. Keeps(t, x) /\ Inv' /\ Busy(t)
    BY RemoveStep DEF Keeps
  <1>2. /\ pc[t] = "remove" /\ pc'[t] \in {"idle", "detach"}
        /\ UNCHANGED <<cells, bandSectors>> /\ nodeCell'[x] = None
        /\ pc'[t] = "detach" => old'[t] = old[t]
        /\ \A c \in Cell : Members(c)' = Members(c)
    BY DEF Remove, Goto, Leave, update, Members, Inv, TypeOK
  <1>3. /\ Place(t) = old[t] /\ old[t] \in Cell \cup {None}
        /\ pc'[t] = "detach" => Place(t)' = old[t]
    BY <1>1, <1>2 DEF Place, Inv, TypeOK
  <1>4. Holds(t, x)
    BY <1>1, <1>2, <1>3 DEF Holds, Present
  <1>5. Entries' /\ Sectors'
    BY <1>1, <1>2, SameEntries, SameSectors DEF Inv
  <1>6. QED
    BY <1>1, <1>4, <1>5, HoldsInv

LEMMA DetachApart ==
  ASSUME ApartInv, NEW t \in Thread, NEW x \in Id, x = id[t], Detach(t)
  PROVE  ApartInv'
  <1> USE DEF ApartInv
  <1>1. Keeps(t, x) /\ Inv' /\ Busy(t) /\ CallOK(t)
    BY DetachStep DEF Keeps, Inv, Calls
  <1>2. /\ pc[t] = "detach" /\ pc'[t] \in {"drop", "unload"} /\ old[t] \in Cell
        /\ UNCHANGED <<nodeCell, bandSectors, cell, old>>
    BY <1>1 DEF Detach, Goto, update, Inv, TypeOK, CallOK
  <1>3. cells[old[t]] # None
    BY <1>1, <1>2, NoneAssumption DEF Present, Place, Members
  <1>4. /\ cells'[old[t]] = Members(old[t]) \ {x}
        /\ Members(old[t]) \ {x} \in SUBSET Id
        /\ \A c \in Cell \ {old[t]} : cells'[c] = cells[c]
        /\ pc'[t] = "drop" <=> Members(old[t]) \ {x} = {}
    BY <1>2, <1>3 DEF Detach, Goto, Members, Inv, TypeOK
  <1>5. cells'[old[t]] # None
    BY <1>4, NoneAssumption
  <1>6. \A c \in Cell : Members(c)' = IF c = old[t] THEN Members(c) \ {x} ELSE Members(c)
    BY <1>2, <1>4, <1>5 DEF Members
  <1>7. Holds(t, x)
    BY <1>1, <1>2, <1>6 DEF Holds, Place
  <1>8. Entries'
    BY <1>1, <1>2, <1>4, <1>5, HoldsEntries
  <1>9. \A c \in Cell : cells[c] # None => cells'[c] # None
    BY <1>2, <1>4, <1>5
  <1>10. \A c \in Cell : x \notin Members(c)'
    BY <1>1, <1>2, <1>6 DEF CallOK, Place
  <1>11. Sectors'
    BY <1>1, <1>2, <1>9, <1>10, SameSectors DEF Inv
  <1>12. QED
    BY <1>1, <1>7, <1>8, <1>11, HoldsInv

(* The entry that goes is still empty.                                     *)
LEMMA DropApart ==
  ASSUME ApartInv, NEW t \in Thread, NEW x \in Id, x = id[t], Drop(t)
  PROVE  ApartInv'
  <1> USE DEF ApartInv
  <1>1. Keeps(t, x) /\ Inv' /\ Busy(t) /\ CallOK(t)
    BY DropStep DEF Keeps, Inv, Calls
  <1>2. /\ pc[t] = "drop" /\ pc'[t] = "unmark" /\ old[t] \in Cell
        /\ UNCHANGED <<nodeCell, bandSectors, cell, old>>
        /\ cells'[old[t]] = None
        /\ \A c \in Cell \ {old[t]} : cells'[c] = cells[c]
    BY <1>1 DEF Drop, Goto, update, Inv, TypeOK, CallOK
  <1>3. cells[old[t]] = {} /\ None # {}
    BY <1>2, NoneAssumption DEF Entries
  <1>4. \A c \in Cell : Members(c)' = Members(c)
    BY <1>2, <1>3 DEF Members
  <1>5. Holds(t, x)
    BY <1>1, <1>2, <1>4 DEF Holds, Place
  <1>6. Entries'
    BY <1>1, <1>2, <1>3, HoldsEntries
  <1>7. Sectors'
    BY <1>1, <1>2, <1>4, SameSectors DEF Inv
  <1>8. QED
    BY <1>1, <1>5, <1>6, <1>7, HoldsInv

(* The mark that goes is that of an entry that is gone.                    *)
LEMMA UnmarkApart ==
  ASSUME ApartInv, NEW t \in Thread, NEW x \in Id, x = id[t], Unmark(t)
  PROVE  ApartInv'
  <1> USE DEF ApartInv
  <1>1. Keeps(t, x) /\ Inv' /\ Busy(t) /\ CallOK(t)
    BY UnmarkStep DEF Keeps, Inv, Calls
  <1>2. /\ pc[t] = "unmark" /\ pc'[t] = "unload" /\ old[t] \in Cell
        /\ UNCHANGED <<cells, nodeCell, cell, old>>
        /\ \A c \in Cell : Members(c)' = Members(c)
        /\ \A b \in Bands : bandSectors'[b] = bandSectors[b] \
                              (IF b = Band[old[t]] THEN {old[t]} ELSE {})
    BY <1>1 DEF Unmark, Goto, update, Members, Inv, TypeOK, CallOK
  <1>3. Holds(t, x)
    BY <1>1, <1>2 DEF Holds, Place
  <1>4. Entries'
    BY <1>1, <1>2, SameEntries
  <1>5. Members(old[t]) = {}
    BY <1>2 DEF Entries, Members
  <1>6. ASSUME NEW c \in Cell, NEW y \in Members(c)'
        PROVE  \/ c \in bandSectors'[Band[c]]
               \/ \E u \in Thread : pc'[u] \in {"record", "load", "mark"} /\ id'[u] = y
    <2>1. y \in Members(c) /\ c # old[t]
      BY <1>2, <1>5, <1>6
    <2>2. CASE c \in bandSectors[Band[c]]
      BY <1>2, <2>1, <2>2, BandsType
    <2>3. ASSUME NEW u \in Thread, pc[u] \in {"record", "load", "mark"}, id[u] = y
          PROVE  pc'[u] = pc[u] /\ id'[u] = y
      BY <1>1, <1>2, <2>3 DEF Keeps
    <2>4. QED
      BY <2>1, <2>2, <2>3, Marked
  <1>7. ASSUME NEW b \in Bands, NEW c \in bandSectors'[b]
        PROVE  /\ Band[c] = b
               /\ cells'[c] # None \/ \E u \in Thread : pc'[u] = "unmark" /\ old'[u] = c
    <2>1. c \in bandSectors[b] /\ Band[c] = b /\ c # old[t]
      BY <1>2, <1>7 DEF Sectors
    <2>2. ASSUME NEW u \in Thread, pc[u] = "unmark", old[u] = c PROVE pc'[u] = "unmark"
      BY <1>1, <2>1, <2>2 DEF Keeps
    <2>3. QED
      BY <1>2, <2>1, <2>2 DEF Sectors
  <1>8. Sectors'
    BY <1>6, <1>7 DEF Sectors
  <1>9. QED
    BY <1>1, <1>3, <1>4, <1>8, HoldsInv

LEMMA UnloadApart ==
  ASSUME ApartInv, NEW t \in Thread, NEW x \in Id, x = id[t], Unload(t)
  PROVE  ApartInv'
  <1> USE DEF ApartInv
  <1>1. Keeps(t, x) /\ Inv' /\ Busy(t) /\ CallOK(t)
    BY UnloadStep DEF Keeps, Inv, Calls
  <1>2. /\ pc[t] = "unload" /\ pc'[t] \in {"idle", "push"}
        /\ UNCHANGED <<cells, nodeCell, bandSectors>>
        /\ \A c \in Cell : Members(c)' = Members(c)
        /\ pc'[t] = "idle" => nodeCell[x] = None
    BY <1>1 DEF Unload, Goto, Leave, Members, Inv, TypeOK, CallOK
  <1>3. /\ pc'[t] = "push" => Place(t)' = None
        /\ \A c \in Cell : x \notin Members(c)'
    BY <1>1, <1>2, NoneAssumption DEF Place, CallOK
  <1>4. Holds(t, x)
    BY <1>1, <1>2, <1>3 DEF Holds
  <1>5. Entries' /\ Sectors'
    BY <1>1, <1>2, <1>3, SameEntries, SameSectors DEF Inv
  <1>6. QED
    BY <1>1, <1>4, <1>5, HoldsInv

-----------------------------------------------------------------------------
(* Where no two calls share a cell: where calls begin, and queries         *)

LEMMA BeginsApart ==
  ASSUME ApartInv, NEW t \in Thread, NEW x \in Id, Begins(t, x), Inv', Apart',
         settled' = [u \in Thread |-> settled[u] \ {x}]
  PROVE  ApartInv'
  <1> USE DEF ApartInv, Begins
  <1>1. /\ \A u \in Thread \ {t} : (Busy(u)' <=> Busy(u)) /\ Place(u)' = Place(u)
        /\ ~Busy(t) /\ Busy(t)' /\ Place(t)' = nodeCell[x]
        /\ UNCHANGED <<cells, nodeCell, bandSectors, bandsLeft, cellsLeft, found, answer>>
        /\ \A c : Members(c)' = Members(c)
    BY DEF Busy, Updating, Place, shared, index, query, Members
  <1>2. Present'
    <2>1. \A y \in Id : Free(y)' => Free(y)
      BY <1>1 DEF Free
    <2>2. QED
      BY <1>1, <2>1 DEF Present
  <1>3. Entries' /\ Sectors'
    BY <1>1 DEF Entries, Sectors
  <1>4. ASSUME NEW u \in Thread PROVE Leads(u)'
    <2>1. settled'[u] = settled[u] \ {x} /\ Leads(u)
      BY DEF Underway
    <2>2. \A y \in settled[u] \ {x} : Registered(y)'
      BY <1>1, <2>1 DEF Leads, Registered, Busy
    <2>3. pc[u] \in Querying => pc'[u] = pc[u]
      BY DEF Querying
    <2>4. u = t => pc'[u] \notin Querying /\ settled[u] = {}
      BY <2>1 DEF Leads, Querying
    <2>5. QED
      BY <1>1, <2>1, <2>2, <2>3, <2>4 DEF Leads
  <1>5. QED
    BY <1>2, <1>3, <1>4 DEF Underway

LEMMA BeginInsertApart ==
  ASSUME ~ShareCells, ApartInv, NEW t \in Thread, NEW x \in Id, NEW c \in Cell,
         BeginInsert(t, x, c)
  PROVE  ApartInv'
  <1> USE DEF ApartInv
  <1>1. Begins(t, x) /\ Inv'
    BY BeginInsertStep
  <1>2. /\ \A u \in Thread \ {t} : Busy(u) =>
             {cell[u], old[u]} \cap ({c, nodeCell[x]} \ {None}) = {}
        /\ cell'[t] = c /\ old'[t] = nodeCell[x]
        /\ settled' = [u \in Thread |-> settled[u] \ {x}]
    BY DEF BeginInsert, MayUpdate, Touch, Busy, Inv, TypeOK
  <1>3. \A u \in Thread \ {t} : Busy(u)' <=> Busy(u)
    BY <1>1 DEF Begins, Busy
  <1>4. Apart'
    BY <1>1, <1>2, <1>3 DEF Apart, Begins
  <1>5. QED
    BY <1>1, <1>2, <1>4, BeginsApart

LEMMA BeginRemoveApart ==
  ASSUME ~ShareCells, ApartInv, NEW t \in Thread, NEW x \in Id, BeginRemove(t, x)
  PROVE  ApartInv'
  <1> USE DEF ApartInv
  <1>1. Begins(t, x) /\ Inv'
    BY BeginRemoveStep
  <1>2. /\ \A u \in Thread \ {t} : Busy(u) =>
             {cell[u], old[u]} \cap ({nodeCell[x]} \ {None}) = {}
        /\ cell'[t] = None /\ old'[t] = nodeCell[x]
        /\ settled' = [u \in Thread |-> settled[u] \ {x}]
    BY <1>1 DEF BeginRemove, MayUpdate, Touch, Busy, Begins, Goto, Inv, TypeOK
  <1>3. \A u \in Thread \ {t} : Busy(u)' <=> Busy(u)
    BY <1>1 DEF Begins, Busy
  <1>4. Apart'
    BY <1>1, <1>2, <1>3 DEF Apart, Begins
  <1>5. QED
    BY <1>1, <1>2, <1>4, BeginsApart

LEMMA LooksApart ==
  ASSUME ApartInv, NEW t \in Thread, Looks(t), Inv', Leads(t)'
  PROVE  ApartInv'
  <1> USE DEF ApartInv, Looks
  <1>1. /\ UNCHANGED <<cells, nodeCell, bandSectors, named, id, cell, old>>
        /\ \A u \in Thread : Busy(u)' <=> Busy(u)
        /\ \A u \in Thread : Busy(u) => u # t /\ pc'[u] = pc[u]
        /\ \A c : Members(c)' = Members(c)
    BY DEF shared, index, update, Busy, Members
  <1>2. \A u \in Thread : Busy(u) => Place(u)' = Place(u)
    BY <1>1 DEF Place
  <1>3. Apart'
    BY <1>1 DEF Apart
  <1>4. Present'
    BY <1>1, <1>2 DEF Present, Free
  <1>5. \A u \in Thread : \A step \in Updating : pc'[u] = step <=> pc[u] = step
    BY DEF Busy
  <1>6. {"drop", "unmark", "record", "load", "mark"} \subseteq Updating
    BY DEF Updating
  <1>7. Entries' /\ Sectors'
    BY <1>1, <1>5, <1>6 DEF Entries, Sectors
  <1>8. ASSUME NEW u \in Thread \ {t} PROVE Leads(u)'
    <2>1. Leads(u)
      BY DEF Underway
    <2>2. \A y : Registered(y)' <=> Registered(y)
      BY <1>1 DEF Registered, Busy
    <2>3. QED
      BY <1>1, <2>1, <2>2 DEF Leads
  <1>9. QED
    BY <1>3, <1>4, <1>7, <1>8 DEF Underway

(* An id stays registered while a query looks.                             *)
LEMMA LooksRegistered ==
  ASSUME ApartInv, NEW t \in Thread, Looks(t), NEW x
  PROVE  /\ nodeCell'[x] = nodeCell[x]
         /\ Registered(x) => Registered(x)'
  BY DEF Looks, shared, index, update, Registered, Busy

(* A registered id has a cell, is in its entry, and its cell is marked and *)
(* its band in use.                                                        *)
LEMMA RegisteredFound ==
  ASSUME ApartInv, NEW x \in Id, Registered(x)
  PROVE  /\ nodeCell[x] \in Cell /\ x \in Members(nodeCell[x])
         /\ nodeCell[x] \in bandSectors[Band[nodeCell[x]]]
         /\ bandLoad[Band[nodeCell[x]]] > 0
         /\ x \in named
  <1> USE DEF ApartInv, Inv
  <1>1. Free(x) /\ nodeCell[x] \in Cell
    BY DEF Registered, Free, Busy, TypeOK
  <1>2. x \in Members(nodeCell[x]) /\ x \in named
    BY <1>1, NoneAssumption DEF Present, FreeIds, AtRest
  <1>3. \A u \in Thread : pc[u] \in {"record", "load", "mark"} => id[u] # x
    BY <1>1 DEF Free, Busy, Updating
  <1>4. nodeCell[x] \in bandSectors[Band[nodeCell[x]]]
    BY <1>1, <1>2, <1>3, Marked
  <1>5. x \in CountedIn(Band[nodeCell[x]])
    BY <1>1 DEF CountedIn, CountedAt
  <1>6. bandLoad[Band[nodeCell[x]]] > 0
    <2> DEFINE b == Band[nodeCell[x]]
    <2>1. b \in Bands
      BY <1>1, BandsType
    <2>2. /\ IsFiniteSet(CountedIn(b)) /\ bandLoad[b] = Cardinality(CountedIn(b))
          /\ bandLoad[b] \in Nat /\ x \in CountedIn(b)
      BY <1>5, <2>1 DEF LoadExact, TypeOK
    <2> HIDE DEF b
    <2>3. bandLoad[b] # 0
      BY <2>2, FS_EmptySet
    <2>4. bandLoad[b] > 0
      BY <2>2, <2>3
    <2>5. QED
      BY <2>4 DEF b
  <1>7. QED
    BY <1>1, <1>2, <1>4, <1>6

LEMMA QueryApart ==
  ASSUME ApartInv, NEW t \in Thread, Query(t)
  PROVE  ApartInv'
  <1> USE DEF ApartInv
  <1>0. Leads(t) /\ \A x \in settled[t] : x \in Id /\ Registered(x)
    BY DEF Underway, Leads, Inv, TypeOK
  <1>1. CASE BeginQuery(t)
    <2>1. Looks(t) /\ Inv'
      BY <1>1, BeginQueryStep
    <2>2. pc'[t] = "bands" /\ settled'[t] = {x \in Id : Registered(x)}
      BY <1>1 DEF BeginQuery, Goto, Inv, TypeOK
    <2>3. Leads(t)'
      BY <2>1, <2>2, LooksRegistered DEF Leads, Querying
    <2>4. QED
      BY <2>1, <2>3, LooksApart
  <1>2. CASE ListBands(t)
    <2>1. Looks(t) /\ Inv'
      BY <1>2, ListBandsStep
    <2>2. /\ pc'[t] = "walk" /\ settled'[t] = settled[t]
          /\ bandsLeft'[t] = {b \in Bands : bandLoad[b] > 0}
      BY <1>2 DEF ListBands, Goto, Inv, TypeOK
    <2>3. \A x \in settled[t] : Band[nodeCell[x]] \in bandsLeft'[t]
      BY <1>0, <2>2, RegisteredFound, BandsType
    <2>4. Leads(t)'
      BY <1>0, <2>1, <2>2, <2>3, LooksRegistered DEF Leads, Querying
    <2>5. QED
      BY <2>1, <2>4, LooksApart
  <1>3. ASSUME NEW b \in Bands, ListCells(t, b) PROVE ApartInv'
    <2>1. Looks(t) /\ Inv'
      BY <1>3, ListCellsStep
    <2>2. /\ pc[t] = "walk" /\ pc'[t] = "walk" /\ UNCHANGED <<settled, found>>
          /\ bandsLeft'[t] = bandsLeft[t] \ {b} /\ cellsLeft[t] = {}
          /\ cellsLeft'[t] = bandSectors[b]
      BY <1>3 DEF ListCells, Inv, TypeOK
    <2>3. ASSUME NEW x \in settled[t]
          PROVE  \/ Band[nodeCell[x]] \in bandsLeft'[t] \/ nodeCell[x] \in cellsLeft'[t]
                 \/ x \in found[t]
      <3>1. CASE Band[nodeCell[x]] = b
        BY <1>0, <2>2, <3>1, RegisteredFound
      <3>2. CASE Band[nodeCell[x]] # b
        BY <1>0, <2>2, <3>2 DEF Leads
      <3>3. QED
        BY <3>1, <3>2
    <2>4. Leads(t)'
      BY <1>0, <2>1, <2>2, <2>3, LooksRegistered DEF Leads, Querying
    <2>5. QED
      BY <2>1, <2>4, LooksApart
  <1>4. ASSUME NEW c \in Cell, Visit(t, c) PROVE ApartInv'
    <2>1. Looks(t) /\ Inv'
      BY <1>4, VisitStep
    <2>2. /\ pc[t] = "walk" /\ pc'[t] = "walk" /\ UNCHANGED <<settled, bandsLeft>>
          /\ cellsLeft'[t] = cellsLeft[t] \ {c}
          /\ found'[t] = found[t] \cup Members(c)
      BY <1>4 DEF Visit, Inv, TypeOK
    <2>3. ASSUME NEW x \in settled[t]
          PROVE  \/ Band[nodeCell[x]] \in bandsLeft[t] \/ nodeCell[x] \in cellsLeft'[t]
                 \/ x \in found'[t]
      <3>1. CASE nodeCell[x] = c
        BY <1>0, <2>2, <3>1, RegisteredFound
      <3>2. CASE nodeCell[x] # c
        BY <1>0, <2>2, <3>2 DEF Leads
      <3>3. QED
        BY <3>1, <3>2
    <2>4. Leads(t)'
      BY <1>0, <2>1, <2>2, <2>3, LooksRegistered DEF Leads, Querying
    <2>5. QED
      BY <2>1, <2>4, LooksApart
  <1>5. CASE QueryDone(t)
    <2>1. Looks(t) /\ Inv'
      BY <1>5, QueryDoneStep
    <2>2. /\ pc[t] = "walk" /\ pc'[t] = "resolve" /\ UNCHANGED <<settled, found, answer>>
          /\ bandsLeft[t] = {} /\ cellsLeft[t] = {}
      BY <1>5 DEF QueryDone, Goto, query, Inv, TypeOK
    <2>3. Leads(t)'
      BY <1>0, <2>1, <2>2, LooksRegistered DEF Leads, Querying
    <2>4. QED
      BY <2>1, <2>3, LooksApart
  <1>6. CASE Resolve(t)
    <2>1. Looks(t) /\ Inv'
      BY <1>6, ResolveStep
    <2>2. \A x \in settled[t] : x \in named
      BY <1>0, RegisteredFound
    <2>3. /\ pc[t] = "resolve" /\ settled'[t] = settled[t]
          /\ \/ pc'[t] = "resolve" /\ \A x \in named : x \in found[t] \cup answer[t] =>
                                         x \in found'[t] \cup answer'[t]
             \/ pc'[t] = "answered" /\ found[t] = {} /\ answer'[t] = answer[t]
      <3>1. CASE \E x \in found[t] :
                   /\ found' = [found EXCEPT ![t] = @ \ {x}]
                   /\ answer' = [answer EXCEPT ![t] = @ \cup ({x} \cap named)]
                   /\ UNCHANGED <<pc, bandsLeft, cellsLeft>>
        BY <1>6, <3>1 DEF Resolve, Inv, TypeOK
      <3>2. CASE found[t] = {} /\ Goto(t, "answered") /\ UNCHANGED query
        BY <1>6, <3>2 DEF Resolve, Goto, query, Inv, TypeOK
      <3>3. QED
        BY <1>6, <3>1, <3>2 DEF Resolve
    <2>4. Leads(t)'
      BY <1>0, <2>1, <2>2, <2>3, LooksRegistered DEF Leads, Querying
    <2>5. QED
      BY <2>1, <2>4, LooksApart
  <1>7. CASE Return(t)
    <2>1. Looks(t) /\ Inv'
      BY <1>7, ReturnStep
    <2>2. settled'[t] = {}
      BY <1>7 DEF Return, Inv, TypeOK
    <2>3. Leads(t)'
      BY <2>2 DEF Leads
    <2>4. QED
      BY <2>1, <2>3, LooksApart
  <1>8. QED
    BY <1>1, <1>2, <1>3, <1>4, <1>5, <1>6, <1>7 DEF Query

-----------------------------------------------------------------------------
(* Where no two calls share a cell *)

LEMMA InitApart == Init => ApartInv
  <1> SUFFICES ASSUME Init PROVE ApartInv
    OBVIOUS
  <1>1. \A t \in Thread : ~Busy(t) /\ settled[t] = {}
    BY DEF Init, Busy, Updating
  <1>2. Present /\ Entries /\ Sectors
    <2>1. \A c \in Cell : Members(c) = {} /\ cells[c] # {}
      BY NoneAssumption DEF Init, Members
    <2>2. QED
      BY <1>1, <2>1 DEF Init, Present, Entries, Sectors
  <1>3. QED
    BY <1>1, <1>2, InitInv DEF ApartInv, Apart, Underway, Leads

LEMMA StutterApart == ApartInv /\ UNCHANGED vars => ApartInv'
  <1> SUFFICES ASSUME ApartInv, UNCHANGED vars PROVE ApartInv'
    OBVIOUS
  <1> USE DEF ApartInv, vars, shared, index, update, query
  <1>1. /\ \A t \in Thread : (Busy(t)' <=> Busy(t)) /\ Place(t)' = Place(t)
        /\ \A c : Members(c)' = Members(c)
        /\ \A x : (Free(x)' <=> Free(x)) /\ (Registered(x)' <=> Registered(x))
    BY DEF Busy, Place, Members, Free, Registered
  <1>2. Apart' /\ Present' /\ Entries' /\ Sectors' /\ Underway'
    BY <1>1 DEF Apart, Present, Entries, Sectors, Underway, Leads
  <1>3. QED
    BY <1>2, StutterInv

LEMMA NextApart ==
  ASSUME ~ShareCells
  PROVE  ApartInv /\ [Next]_vars => ApartInv'
  <1> SUFFICES ASSUME ApartInv, [Next]_vars PROVE ApartInv'
    OBVIOUS
  <1>1. ASSUME NEW t \in Thread, Update(t) PROVE ApartInv'
    <2>1. ASSUME NEW x \in Id, BeginRemove(t, x) PROVE ApartInv'
      BY <2>1, BeginRemoveApart
    <2>2. ASSUME NEW x \in Id, NEW c \in Cell, BeginInsert(t, x, c) PROVE ApartInv'
      BY <2>2, BeginInsertApart
    <2>3. ASSUME \/ Insert(t) \/ Push(t) \/ Record(t) \/ Load(t) \/ Mark(t) \/ Name(t)
                 \/ Forget(t) \/ Remove(t) \/ Detach(t) \/ Drop(t) \/ Unmark(t) \/ Unload(t)
          PROVE  ApartInv'
      <3>1. Busy(t)
        BY <2>3 DEF Insert, Push, Record, Load, Mark, Name, Forget, Remove, Detach, Drop,
                    Unmark, Unload, Busy, Updating
      <3>2. PICK x \in Id : x = id[t]
        BY <3>1 DEF ApartInv, Inv, Calls, CallOK
      <3>3. QED
        BY <2>3, <3>2, InsertApart, PushApart, RecordApart, LoadApart, MarkApart, NameApart,
           ForgetApart, RemoveApart, DetachApart, DropApart, UnmarkApart, UnloadApart
    <2>4. QED
      BY <1>1, <2>1, <2>2, <2>3 DEF Update
  <1>2. ASSUME NEW t \in Thread, Query(t) PROVE ApartInv'
    BY <1>2, QueryApart
  <1>3. QED
    BY <1>1, <1>2, StutterApart DEF Next

(* The invariant of the histories where no two calls are at one cell: the  *)
(* entries and the marks of the cells, and what leads a query to its ids.  *)
THEOREM ApartInvariant ==
  ASSUME ~ShareCells
  PROVE  Spec => []ApartInv
  <1>1. Init => ApartInv
    BY InitApart
  <1>2. ApartInv /\ [Next]_vars => ApartInv'
    BY NextApart
  <1>3. QED
    BY <1>1, <1>2, PTL DEF Spec

(* Whatever calls are under way on other ids, a query that prunes nothing  *)
(* gives every id that no call has touched since it began: neither the     *)
(* bands, nor the sectors, nor the entries, nor the paths that it reads    *)
(* one after the other lose it, not even for a moment.                     *)
THEOREM QueriesComplete ==
  ASSUME ~ShareCells
  PROVE  Spec => []QueryComplete
  <1>1. ApartInv => QueryComplete
    BY DEF ApartInv, Underway, Leads, QueryComplete
  <1>2. QED
    BY <1>1, ApartInvariant, PTL

(* When all calls have returned, the four maps of the index and the paths  *)
(* of the tree agree, after any interleaving of calls on different cells.  *)
THEOREM MapsComeToAgree ==
  ASSUME ~ShareCells
  PROVE  Spec => []MapsAgree
  <1>1. ASSUME ApartInv, \A t \in Thread : pc[t] \notin Updating
        PROVE  /\ \A c \in Cell : Members(c) = {x \in Id : nodeCell[x] = c} /\ cells[c] # {}
               /\ \A b \in Bands :
                    /\ bandLoad[b] =
                         Cardinality({x \in Id : nodeCell[x] # None /\ Band[nodeCell[x]] = b})
                    /\ bandSectors[b] = {c \in Cell : Band[c] = b /\ cells[c] # None}
               /\ named = {x \in Id : nodeCell[x] # None}
    <2> USE <1>1 DEF ApartInv, Inv
    <2>1. \A t \in Thread : ~Busy(t)
      BY DEF Busy
    <2>2. \A x \in Id : AtRest(x) /\ (nodeCell[x] # None => x \in Members(nodeCell[x]))
      BY <2>1 DEF FreeIds, Free, Present
    <2>3. ASSUME NEW c \in Cell PROVE Members(c) = {x \in Id : nodeCell[x] = c} /\ cells[c] # {}
      <3>1. Members(c) \subseteq Id
        BY DEF TypeOK, Members
      <3>2. cells[c] # {}
        BY DEF Entries, Updating
      <3>3. QED
        BY <2>2, <3>1, <3>2, NoneAssumption DEF AtRest
    <2>4. ASSUME NEW b \in Bands
          PROVE  /\ bandLoad[b] =
                      Cardinality({x \in Id : nodeCell[x] # None /\ Band[nodeCell[x]] = b})
                 /\ bandSectors[b] = {c \in Cell : Band[c] = b /\ cells[c] # None}
      <3>1. CountedIn(b) = {x \in Id : nodeCell[x] # None /\ Band[nodeCell[x]] = b}
        BY <2>1, NoneAssumption DEF CountedIn, CountedAt, Free, TypeOK
      <3>2. \A c \in bandSectors[b] : c \in Cell /\ Band[c] = b /\ cells[c] # None
        BY DEF Sectors, TypeOK, Updating
      <3>3. ASSUME NEW c \in Cell, Band[c] = b, cells[c] # None PROVE c \in bandSectors[b]
        <4>1. PICK x : x \in Members(c)
          BY <2>3, <3>3 DEF Members
        <4>2. QED
          BY <3>3, <4>1, Marked DEF Updating
      <3>4. QED
        BY <3>1, <3>2, <3>3 DEF LoadExact
    <2>5. named = {x \in Id : nodeCell[x] # None}
      BY <2>2 DEF AtRest, TypeOK
    <2>6. QED
      BY <2>3, <2>4, <2>5
  <1>2. ApartInv => MapsAgree
    BY <1>1 DEF MapsAgree
  <1>3. QED
    BY <1>2, ApartInvariant, PTL

==============================================================================
