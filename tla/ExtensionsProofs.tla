--------------------------- MODULE ExtensionsProofs ---------------------------
(***************************************************************************)
(* Proofs about Extensions and FileStorage, for every number of files,     *)
(* spellings, keys, values, faults and extensions.                         *)
(***************************************************************************)
EXTENDS Extensions, SequenceTheorems, FiniteSetTheorems, TLAPS

Steps == {"idle", "write", "save", "delete_metadata", "delete_data"}

(* A call has a value to write, and but for flush a single path.           *)
CallOK ==
  /\ call \in [step : Steps, paths : SUBSET Path, key : Key \cup {None}, value : Value \cup {None}]
  /\ call.step = "write" \/ (call.step = "save" /\ call.key # None) => call.value \in Value
  /\ call.step # "save" => \A p, q \in call.paths : p = q
  /\ call.step \in {"save", "delete_metadata", "delete_data"} => call.paths \subseteq Spelled
  /\ call.step = "idle" => call = Idle

(* Only the spellings that metadata are written by have a cache entry.     *)
CacheOwned == \A p \in Path : cache[p] # None => p \in Spelled

Sure(f, aspect) == <<f, aspect>> \notin unsure

Deleting(p) == p \in call.paths /\ call.step \in {"delete_metadata", "delete_data"}
Saving(p) == p \in call.paths /\ call.step = "save"

(* What the metadata file says, unless it is torn.                         *)
OnFile(f) == IF meta[f] = None THEN NoMetadata ELSE meta[f]

(* The data file is as the caller knows it.                                *)
DataAgrees == \A f \in File : Sure(f, "data") => data[f] = known[f].data

(* So is the metadata file, but for one a delete has removed, if each file *)
(* has one spelling.                                                       *)
FileAgrees ==
  OneSpelling =>
    \A f \in File : meta[f] # Torn /\ ~(call.step = "delete_data" /\ f \in Busy) =>
      \A k \in Key : Sure(f, k) => OnFile(f)[k] = known[f].meta[k]

(* So is the cache, but for the entry that is being saved.                 *)
CacheAgrees ==
  OneSpelling =>
    \A p \in Path : cache[p] # None =>
      \A k \in Key : IF Saving(p) /\ k = call.key THEN cache[p][k] = call.value
                     ELSE Sure(path_to_fs_path(p), k) =>
                            cache[p][k] = known[path_to_fs_path(p)].meta[k]

(* A torn metadata file, and a cache that is ahead of the file, are owed   *)
(* to a save that failed, or that is yet to come.                          *)
FileBehind ==
  OneSpelling =>
    /\ \A f \in File : meta[f] = Torn => ~Sure(f, "file")
    /\ \A p \in Path : cache[p] \notin {None, meta[path_to_fs_path(p)]} =>
         ~Sure(path_to_fs_path(p), "file") \/ Saving(p)

(* What a delete has taken away by its second and its third step.          *)
Deleted ==
  \A p \in Path : Deleting(p) =>
    /\ cache[p] = None
    /\ call.step = "delete_data" => meta[path_to_fs_path(p)] = None

(* A save writes an entry of the cache.                                    *)
Saves == \A p \in Path : Saving(p) => cache[p] # None

(* The inductive invariant of the provider.                                *)
ProviderInv ==
  /\ ProviderTypeOK /\ CallOK /\ CacheOwned
  /\ DataAgrees /\ FileAgrees /\ CacheAgrees /\ FileBehind /\ Deleted /\ Saves

(* A name is in the order once.                                            *)
OrderOK ==
  /\ order \in Seq(Name)
  /\ \A i, j \in 1 .. Len(order) : order[i] = order[j] => i = j

(* The inductive invariant of the manager.                                 *)
ManagerInv ==
  /\ OrderOK
  /\ running \cup replaced \subseteq Registered
  /\ poisoned \in BOOLEAN
  /\ RunningPrefix

Inv == ProviderInv /\ ManagerInv

-----------------------------------------------------------------------------
(* Types *)

LEMMA FileOf == \A p \in Path : path_to_fs_path(p) \in File
  BY DEF Path, path_to_fs_path

LEMMA NoMetadataType == NoMetadata \in Metadata
  BY DEF NoMetadata, Metadata

(* What get_metadata reads, by where it finds it.                          *)
LEMMA ReadMetadata ==
  ASSUME ProviderTypeOK, NEW p \in Path
  PROVE  /\ get_metadata(p) = IF cache[p] # None THEN cache[p] ELSE OnFile(path_to_fs_path(p))
         /\ cache[p] # None => cache[p] \in Metadata
         /\ OnFile(path_to_fs_path(p)) \in Metadata \cup {Torn}
  BY NoMetadataType, FileOf DEF ProviderTypeOK, get_metadata, read_metadata_from_disk, OnFile

(* The sentinels are no content.                                           *)
LEMMA Sentinels ==
  /\ None # Torn /\ None \notin Metadata /\ Torn \notin Metadata
  /\ None \notin Value /\ Torn \notin Value
  BY ContentAssumption

(* Where each file has one spelling, it has one entry in the cache.        *)
LEMMA Alone ==
  ASSUME OneSpelling, CacheOwned, NEW p \in Path, NEW q \in Path,
         cache[q] # None, p \in Spelled, path_to_fs_path(q) = path_to_fs_path(p)
  PROVE  q = p
  BY DEF OneSpelling, CacheOwned

LEMMA InitProviderInv == ProviderInit => ProviderInv
  <1> SUFFICES ASSUME ProviderInit PROVE ProviderInv
    OBVIOUS
  <1> USE NoMetadataType, Sentinels, FaultsAssumption, FileOf
          DEF ProviderInit, NoEntry, NoFile, Idle, Call
  <1>1. ProviderTypeOK
    BY DEF ProviderTypeOK
  <1>2. CallOK /\ CacheOwned
    BY DEF CallOK, Steps, CacheOwned
  <1>3. DataAgrees /\ FileAgrees /\ CacheAgrees
    BY DEF DataAgrees, FileAgrees, CacheAgrees, OnFile
  <1>4. FileBehind /\ Deleted /\ Saves
    BY DEF FileBehind, Deleted, Saves, Deleting, Saving
  <1>5. QED
    BY <1>1, <1>2, <1>3, <1>4 DEF ProviderInv

-----------------------------------------------------------------------------
(* Calls *)

(* A call of store has changed nothing yet.                                *)
LEMMA StoreStep ==
  ASSUME ProviderInv, NEW p \in Path, NEW v \in Value, store(p, v)
  PROVE  ProviderInv'
  <1> USE DEF ProviderInv, store, Idle, Call, files, history
  <1>1. ProviderTypeOK'
    BY DEF ProviderTypeOK
  <1>2. CallOK' /\ CacheOwned'
    BY DEF CallOK, Steps, CacheOwned
  <1>3. DataAgrees'
    BY DEF DataAgrees, Sure
  <1>4. FileAgrees'
    BY DEF FileAgrees, Sure, OnFile
  <1>5. CacheAgrees'
    BY DEF CacheAgrees, Sure, Saving
  <1>6. FileBehind'
    BY DEF FileBehind, Sure, Saving
  <1>7. Deleted'
    BY DEF Deleted, Deleting
  <1>8. Saves'
    BY DEF Saves, Saving
  <1>9. QED
    BY <1>1, <1>2, <1>3, <1>4, <1>5, <1>6, <1>7, <1>8

(* set_metadata puts its entry into the cache alone, and owes the save.    *)
LEMMA SetMetadataStep ==
  ASSUME ProviderInv, NEW p \in Spelled, NEW k \in Key, NEW v \in Value, set_metadata(p, k, v)
  PROVE  ProviderInv'
  <1> USE DEF ProviderInv, set_metadata, Idle, Call, files, history
  <1> p \in Path
    BY SpellingAssumption
  <1>0. /\ get_metadata(p) \in Metadata
        /\ [get_metadata(p) EXCEPT ![k] = v] \in Metadata
    BY ReadMetadata DEF Metadata
  <1> USE <1>0
  <1>a. \A q \in Path : cache'[q] = IF q = p THEN [get_metadata(p) EXCEPT ![k] = v] ELSE cache[q]
    BY DEF ProviderTypeOK
  <1>1. ProviderTypeOK'
    BY DEF ProviderTypeOK
  <1>2. CallOK' /\ CacheOwned'
    BY <1>a DEF CallOK, Steps, CacheOwned
  <1>3. DataAgrees'
    BY DEF DataAgrees, Sure
  <1>4. FileAgrees'
    BY DEF FileAgrees, Sure, OnFile
  <1>5. CacheAgrees'
    <2> SUFFICES ASSUME OneSpelling PROVE CacheAgrees'
      BY DEF CacheAgrees
    <2> DEFINE f == path_to_fs_path(p)
    <2>1. \A j \in Key : Sure(f, j) => get_metadata(p)[j] = known[f].meta[j]
      <3>1. CASE cache[p] # None
        BY <3>1, ReadMetadata DEF CacheAgrees, Saving
      <3>2. CASE cache[p] = None
        <4>1. get_metadata(p) = OnFile(f)
          BY <3>2, ReadMetadata
        <4>2. meta[f] # Torn
          BY <4>1, Sentinels DEF OnFile
        <4>3. QED
          BY <4>1, <4>2, FileOf DEF FileAgrees
      <3>3. QED
        BY <3>1, <3>2
    <2>2. \A j \in Key : [get_metadata(p) EXCEPT ![k] = v][j] = IF j = k THEN v ELSE get_metadata(p)[j]
      BY DEF Metadata
    <2>3. /\ \A q \in Path : ~Saving(q) /\ (Saving(q)' => q = p)
          /\ call'.key = k /\ call'.value = v /\ UNCHANGED known
          /\ \A g \in File, a \in Key : Sure(g, a)' <=> Sure(g, a)
      BY DEF Saving, Sure
    <2>4. ASSUME NEW q \in Path, cache'[q] # None, NEW j \in Key
          PROVE  IF Saving(q)' /\ j = k THEN cache'[q][j] = v
                 ELSE Sure(path_to_fs_path(q), j) => cache'[q][j] = known[path_to_fs_path(q)].meta[j]
      <3>1. CASE q = p
        <4>1. Saving(q)'
          BY <3>1 DEF Saving
        <4>2. QED
          BY <1>a, <2>1, <2>2, <3>1, <4>1
      <3>2. CASE q # p
        BY <1>a, <2>3, <2>4, <3>2 DEF CacheAgrees
      <3>3. QED
        BY <3>1, <3>2
    <2>5. QED
      BY <2>3, <2>4, FileOf DEF CacheAgrees
  <1>6. FileBehind'
    BY <1>a DEF FileBehind, Sure, Saving
  <1>7. Deleted'
    BY DEF Deleted, Deleting
  <1>8. Saves'
    BY <1>a, Sentinels DEF Saves, Saving
  <1>9. QED
    BY <1>1, <1>2, <1>3, <1>4, <1>5, <1>6, <1>7, <1>8

(* flush saves every entry there is.                                       *)
LEMMA FlushStep ==
  ASSUME ProviderInv, flush
  PROVE  ProviderInv'
  <1> USE DEF ProviderInv, flush, Idle, Call, files, history
  <1>1. ProviderTypeOK'
    BY DEF ProviderTypeOK
  <1>2. CallOK' /\ CacheOwned'
    BY DEF CallOK, Steps, CacheOwned
  <1>3. DataAgrees'
    BY DEF DataAgrees, Sure
  <1>4. FileAgrees'
    BY DEF FileAgrees, Sure, OnFile
  <1>5. CacheAgrees'
    BY KeyAssumption DEF CacheAgrees, Sure, Saving
  <1>6. FileBehind'
    BY DEF FileBehind, Sure, Saving
  <1>7. Deleted'
    BY DEF Deleted, Deleting
  <1>8. Saves'
    BY DEF Saves, Saving
  <1>9. QED
    BY <1>1, <1>2, <1>3, <1>4, <1>5, <1>6, <1>7, <1>8

(* delete forgets the cached metadata first.                               *)
LEMMA DeleteStep ==
  ASSUME ProviderInv, NEW p \in Spelled, delete(p)
  PROVE  ProviderInv'
  <1> USE DEF ProviderInv, delete, Idle, Call, files, history
  <1> p \in Path
    BY SpellingAssumption
  <1>1. ProviderTypeOK'
    BY DEF ProviderTypeOK
  <1>2. CallOK' /\ CacheOwned'
    BY DEF CallOK, Steps, CacheOwned, ProviderTypeOK
  <1>3. DataAgrees'
    BY DEF DataAgrees, Sure
  <1>4. FileAgrees'
    BY DEF FileAgrees, Sure, OnFile
  <1>5. CacheAgrees'
    BY DEF CacheAgrees, Sure, Saving, ProviderTypeOK
  <1>6. FileBehind'
    BY DEF FileBehind, Sure, Saving, ProviderTypeOK
  <1>7. Deleted'
    BY DEF Deleted, Deleting, ProviderTypeOK
  <1>8. Saves'
    BY DEF Saves, Saving
  <1>9. QED
    BY <1>1, <1>2, <1>3, <1>4, <1>5, <1>6, <1>7, <1>8

-----------------------------------------------------------------------------
(* File operations *)

(* The caller knows what it has written.                                   *)
LEMMA WriteStep ==
  ASSUME ProviderInv, NEW p \in Path, Write(p)
  PROVE  ProviderInv'
  <1> DEFINE f == path_to_fs_path(p)
  <1> USE FileOf DEF ProviderInv, Write, At, Idle, Call, files, history
  <1>a. /\ call.value \in Value /\ call.paths = {p} /\ call.step = "write"
        /\ \A g \in File : data'[g] = IF g = f THEN call.value ELSE data[g]
        /\ known' \in [File -> [data : Value \cup {None}, meta : Metadata]]
        /\ \A g \in File : /\ known'[g].meta = known[g].meta
                           /\ known'[g].data = IF g = f THEN call.value ELSE known[g].data
        /\ \A g \in File, a \in Aspects \ {"data"} : Sure(g, a)' <=> Sure(g, a)
    BY DEF ProviderTypeOK, CallOK, Sure
  <1>b. Key \subseteq Aspects \ {"data"} /\ "file" \in Aspects \ {"data"}
    BY KeyAssumption DEF Aspects
  <1>1. ProviderTypeOK'
    BY <1>a DEF ProviderTypeOK
  <1>2. CallOK' /\ CacheOwned'
    BY DEF CallOK, Steps, CacheOwned
  <1>3. DataAgrees'
    BY <1>a DEF DataAgrees, Sure
  <1>4. FileAgrees'
    BY <1>a, <1>b DEF FileAgrees, OnFile
  <1>5. CacheAgrees'
    BY <1>a, <1>b DEF CacheAgrees, Saving
  <1>6. FileBehind'
    BY <1>a, <1>b DEF FileBehind, Saving
  <1>7. Deleted'
    BY DEF Deleted, Deleting
  <1>8. Saves'
    BY DEF Saves, Saving
  <1>9. QED
    BY <1>1, <1>2, <1>3, <1>4, <1>5, <1>6, <1>7, <1>8

(* Saving makes the file what the cache is.                                *)
LEMMA SaveStep ==
  ASSUME ProviderInv, NEW p \in Path, Save(p)
  PROVE  ProviderInv'
  <1> DEFINE f == path_to_fs_path(p)
  <1> USE FileOf DEF ProviderInv, Save, At, Idle, Call, files, history
  <1>a. /\ call.step = "save" /\ call.key \in Key \cup {None}
        /\ call.key # None => call.value \in Value
        /\ cache[p] # None /\ cache[p] \in Metadata
        /\ Saving(p) /\ p \in Spelled
    BY DEF CallOK, Saves, Saving, ProviderTypeOK
  <1>b. \A g \in File : meta'[g] = IF g = f THEN cache[p] ELSE meta[g]
    BY DEF ProviderTypeOK
  <1>c. /\ known' \in [File -> [data : Value \cup {None}, meta : Metadata]]
        /\ \A g \in File :
             /\ known'[g].data = known[g].data
             /\ \A k \in Key : known'[g].meta[k] = IF g = f /\ k = call.key THEN call.value
                                                    ELSE known[g].meta[k]
    <2>1. CASE call.key = None
      BY <2>1, KeyAssumption DEF ProviderTypeOK
    <2>2. CASE call.key # None
      <3> HIDE DEF f
      <3>0. f \in File /\ known' = [known EXCEPT ![f].meta[call.key] = call.value]
        BY <2>2 DEF f
      <3>1. known[f].meta \in [Key -> Value \cup {None}]
        BY <3>0 DEF ProviderTypeOK, Metadata
      <3>2. known' = [known EXCEPT ![f] = [known[f] EXCEPT !.meta = [known[f].meta EXCEPT ![call.key] = call.value]]]
        BY <3>0 DEF ProviderTypeOK
      <3>3. [known[f].meta EXCEPT ![call.key] = call.value] \in Metadata
        BY <3>1, <2>2, <1>a DEF Metadata
      <3>4. known'[f] = [known[f] EXCEPT !.meta = [known[f].meta EXCEPT ![call.key] = call.value]]
        BY <3>0, <3>2 DEF ProviderTypeOK
      <3>5. \A g \in File : g # f => known'[g] = known[g]
        BY <3>0, <3>2 DEF ProviderTypeOK
      <3>6. /\ known'[f] \in [data : Value \cup {None}, meta : Metadata]
            /\ known'[f].data = known[f].data
            /\ known'[f].meta = [known[f].meta EXCEPT ![call.key] = call.value]
        <4> DEFINE r == known[f]
                   m == [known[f].meta EXCEPT ![call.key] = call.value]
        <4>1. r \in [data : Value \cup {None}, meta : Metadata]
          BY <3>0 DEF ProviderTypeOK
        <4>2. m \in Metadata /\ known'[f] = [r EXCEPT !.meta = m]
          BY <3>3, <3>4
        <4> HIDE DEF r, m
        <4>3. [r EXCEPT !.meta = m] \in [data : Value \cup {None}, meta : Metadata]
          BY <4>1, <4>2
        <4>4. [r EXCEPT !.meta = m].data = r.data /\ [r EXCEPT !.meta = m].meta = m
          BY <4>1
        <4>5. QED
          BY <4>2, <4>3, <4>4 DEF r, m
      <3>7. \A k \in Key : known'[f].meta[k] = IF k = call.key THEN call.value ELSE known[f].meta[k]
        BY <3>1, <3>6
      <3>8. known' \in [File -> [data : Value \cup {None}, meta : Metadata]]
        BY <3>0, <3>2, <3>5, <3>6 DEF ProviderTypeOK
      <3>9. QED
        BY <3>5, <3>6, <3>7, <3>8
    <2>3. QED
      BY <2>1, <2>2
  <1>d. \A g \in File, a \in Aspects :
          Sure(g, a)' <=> Sure(g, a) \/ (g = f /\ a \in {"file", call.key})
    BY DEF Sure
  <1>e. /\ Key \subseteq Aspects \ {"data", "file"} /\ {"data", "file"} \subseteq Aspects
        /\ call.key \notin {"data", "file"}
    BY KeyAssumption, <1>a DEF Aspects
  <1>f. ASSUME OneSpelling, NEW q \in Path, cache[q] # None, path_to_fs_path(q) = f PROVE q = p
    BY <1>f, <1>a, Alone
  <1> HIDE DEF f
  <1>g. f = path_to_fs_path(p) /\ f \in File
    BY DEF f
  <1>1. ProviderTypeOK'
    BY <1>a, <1>b, <1>c, <1>g DEF ProviderTypeOK, f
  <1>2. CallOK' /\ CacheOwned'
    BY DEF CallOK, Steps, CacheOwned
  <1>3. DataAgrees'
    BY <1>c, <1>d, <1>e DEF DataAgrees
  <1>4. FileAgrees'
    <2> SUFFICES ASSUME OneSpelling PROVE FileAgrees'
      BY DEF FileAgrees
    <2>1. ASSUME NEW g \in File, NEW k \in Key, Sure(g, k)', g # f, meta[g] # Torn
          PROVE  OnFile(g)'[k] = known'[g].meta[k]
      <3>1. OnFile(g)' = OnFile(g) /\ Sure(g, k)
        BY <2>1, <1>b, <1>d, <1>e DEF OnFile
      <3>2. QED
        BY <2>1, <1>a, <1>c, <3>1 DEF FileAgrees
    <2>2. ASSUME NEW k \in Key, Sure(f, k)' PROVE OnFile(f)'[k] = known'[f].meta[k]
      <3>1. OnFile(f)' = cache[p]
        BY <1>a, <1>b, <1>g DEF OnFile
      <3>2. QED
        BY <2>2, <1>a, <1>c, <1>d, <1>e, <1>g, <3>1 DEF CacheAgrees
    <2>3. QED
      BY <2>1, <2>2, <1>b DEF FileAgrees
  <1>5. CacheAgrees'
    <2> SUFFICES ASSUME OneSpelling PROVE CacheAgrees'
      BY DEF CacheAgrees
    <2>1. ASSUME NEW q \in Path, cache[q] # None, NEW k \in Key, Sure(path_to_fs_path(q), k)'
          PROVE  q = p \/ ~(Saving(q) /\ k = call.key) =>
                   cache[q][k] = known'[path_to_fs_path(q)].meta[k]
      <3>1. CASE q = p
        BY <2>1, <3>1, <1>a, <1>c, <1>d, <1>e, <1>g DEF CacheAgrees
      <3>2. CASE q # p
        <4>1. path_to_fs_path(q) # f
          BY <2>1, <3>2, <1>f
        <4>2. Sure(path_to_fs_path(q), k)
          BY <2>1, <4>1, <1>d, <1>e
        <4>3. QED
          BY <2>1, <3>2, <4>1, <4>2, <1>c DEF CacheAgrees
      <3>3. QED
        BY <3>1, <3>2
    <2>2. ASSUME NEW q \in Path, Saving(q)'
          PROVE  q # p /\ Saving(q) /\ call'.key = call.key /\ call'.value = call.value
      BY <2>2 DEF Saving, CallOK
    <2>3. ASSUME NEW q \in Path, cache[q] # None, NEW k \in Key, Saving(q)', k = call'.key
          PROVE  cache[q][k] = call'.value
      BY <2>2, <2>3 DEF CacheAgrees
    <2>4. ASSUME NEW q \in Path, cache[q] # None, NEW k \in Key, Sure(path_to_fs_path(q), k)',
                 ~(Saving(q)' /\ k = call'.key)
          PROVE  cache[q][k] = known'[path_to_fs_path(q)].meta[k]
      <3>1. q # p /\ Saving(q) => Saving(q)' /\ call'.key = call.key
        BY DEF Saving, CallOK
      <3>2. QED
        BY <2>1, <2>4, <3>1
    <2>5. QED
      BY <2>3, <2>4 DEF CacheAgrees
  <1>6. FileBehind'
    <2> SUFFICES ASSUME OneSpelling PROVE FileBehind'
      BY DEF FileBehind
    <2>1. ASSUME NEW q \in Path, q # p, Saving(q) PROVE Saving(q)'
      BY <2>1 DEF Saving, CallOK
    <2>2. ASSUME NEW g \in File, meta'[g] = Torn PROVE ~Sure(g, "file")'
      BY <2>2, <1>a, <1>b, <1>d, <1>e, Sentinels DEF FileBehind
    <2>3. ASSUME NEW q \in Path, cache[q] \notin {None, meta'[path_to_fs_path(q)]}
          PROVE  ~Sure(path_to_fs_path(q), "file")' \/ Saving(q)'
      <3>1. q # p
        BY <2>3, <1>b, <1>g
      <3>2. path_to_fs_path(q) # f
        BY <2>3, <3>1, <1>f
      <3>3. QED
        BY <2>1, <2>3, <3>1, <3>2, <1>b, <1>d, <1>e DEF FileBehind
    <2>4. QED
      BY <2>2, <2>3 DEF FileBehind
  <1>7. Deleted'
    BY <1>a DEF Deleted, Deleting
  <1>8. Saves'
    BY DEF Saves, Saving
  <1>9. QED
    BY <1>1, <1>2, <1>3, <1>4, <1>5, <1>6, <1>7, <1>8

(* The metadata file goes before the data file.                            *)
LEMMA DeleteMetadataStep ==
  ASSUME ProviderInv, NEW p \in Path, DeleteMetadata(p)
  PROVE  ProviderInv'
  <1> DEFINE f == path_to_fs_path(p)
  <1> USE FileOf DEF ProviderInv, DeleteMetadata, At, Idle, Call, files, history
  <1>a. call.paths = {p} /\ cache[p] = None /\ p \in Spelled
    BY DEF CallOK, Deleted, Deleting
  <1>b. \A g \in File : meta'[g] = IF g = f THEN None ELSE meta[g]
    BY DEF ProviderTypeOK
  <1>c. f \in Busy' /\ call'.step = "delete_data" /\ call.step = "delete_metadata"
    BY DEF Busy, CallOK
  <1>1. ProviderTypeOK'
    BY DEF ProviderTypeOK
  <1>2. CallOK' /\ CacheOwned'
    BY DEF CallOK, Steps, CacheOwned
  <1>3. DataAgrees'
    BY DEF DataAgrees, Sure
  <1>4. FileAgrees'
    BY <1>b, <1>c DEF FileAgrees, Sure, OnFile
  <1>5. CacheAgrees'
    BY <1>c DEF CacheAgrees, Sure, Saving
  <1>6. FileBehind'
    <2>1. ASSUME OneSpelling, NEW q \in Path, cache[q] # None PROVE path_to_fs_path(q) # f
      BY <2>1, <1>a, Alone
    <2>2. QED
      BY <1>a, <1>b, <1>c, <2>1, Sentinels DEF FileBehind, Sure, Saving
  <1>7. Deleted'
    BY <1>a, <1>b DEF Deleted, Deleting, CallOK
  <1>8. Saves'
    BY <1>c DEF Saves, Saving
  <1>9. QED
    BY <1>1, <1>2, <1>3, <1>4, <1>5, <1>6, <1>7, <1>8

(* Nothing is left of a file that is deleted.                              *)
LEMMA DeleteDataStep ==
  ASSUME ProviderInv, NEW p \in Path, DeleteData(p)
  PROVE  ProviderInv'
  <1> DEFINE f == path_to_fs_path(p)
  <1> USE FileOf DEF ProviderInv, DeleteData, At, Idle, Call, files, history
  <1>a. call.paths = {p} /\ cache[p] = None /\ meta[f] = None /\ p \in Spelled /\ Busy = {f}
    BY DEF CallOK, Deleted, Deleting, Busy
  <1>b. /\ \A g \in File : data'[g] = IF g = f THEN None ELSE data[g]
        /\ known' \in [File -> [data : Value \cup {None}, meta : Metadata]]
        /\ \A g \in File : known'[g] = IF g = f THEN [data |-> None, meta |-> NoMetadata]
                                       ELSE known[g]
    BY NoMetadataType DEF ProviderTypeOK
  <1>c. /\ \A g \in File, a \in Aspects : Sure(g, a)' <=> Sure(g, a) \/ g = f
        /\ Key \cup {"data", "file"} \subseteq Aspects
    BY DEF Sure, Aspects
  <1>d. ASSUME OneSpelling, NEW q \in Path, cache[q] # None PROVE path_to_fs_path(q) # f
    BY <1>d, <1>a, Alone
  <1>1. ProviderTypeOK'
    BY <1>b DEF ProviderTypeOK
  <1>2. CallOK' /\ CacheOwned'
    BY DEF CallOK, Steps, CacheOwned
  <1>3. DataAgrees'
    BY <1>b, <1>c DEF DataAgrees
  <1>4. FileAgrees'
    BY <1>a, <1>b, <1>c DEF FileAgrees, OnFile
  <1>5. CacheAgrees'
    BY <1>a, <1>b, <1>c, <1>d DEF CacheAgrees, Saving
  <1>6. FileBehind'
    BY <1>a, <1>b, <1>c, <1>d, Sentinels DEF FileBehind, Saving
  <1>7. Deleted'
    BY DEF Deleted, Deleting
  <1>8. Saves'
    BY DEF Saves, Saving
  <1>9. QED
    BY <1>1, <1>2, <1>3, <1>4, <1>5, <1>6, <1>7, <1>8

-----------------------------------------------------------------------------
(* Faults *)

(* What a call that ends in an error leaves in doubt.                      *)
LEMMA Doubts ==
  ASSUME ProviderInv, NEW f \in File, f \in Busy
  PROVE  /\ call.step = "write" => <<f, "data">> \in InDoubt
         /\ call.step = "save" =>
              /\ <<f, "file">> \in InDoubt
              /\ call.key # None => <<f, call.key>> \in InDoubt
         /\ call.step \in {"delete_metadata", "delete_data"} =>
              \A a \in Aspects : <<f, a>> \in InDoubt
  BY DEF InDoubt

LEMMA InDoubtType == ProviderInv => InDoubt \subseteq File \X Aspects
  <1> SUFFICES ASSUME ProviderInv PROVE InDoubt \subseteq File \X Aspects
    OBVIOUS
  <1>1. call.step \in Steps /\ Busy \subseteq File /\ call.key \in Key \cup {None}
    BY FileOf DEF ProviderInv, CallOK, Busy
  <1>2. {"data"} \subseteq Aspects /\ {"file"} \cup ({call.key} \ {None}) \subseteq Aspects
    BY <1>1 DEF Aspects
  <1>3. QED
    BY <1>1, <1>2 DEF InDoubt, Steps

(* It tears the data file at the worst.                                    *)
LEMMA FaultFiles ==
  ASSUME ProviderInv, Fault, NEW f \in File, data[f] # None
  PROVE  data'[f] # None
  BY Sentinels DEF ProviderInv, ProviderTypeOK, Fault, Interrupted, files

(* A call that is cut short, whether or not the cache survives, leaves     *)
(* nothing wrong of which the caller is not in doubt.                      *)
LEMMA FaultStep ==
  ASSUME ProviderInv, Fault, cache' = cache \/ cache' = NoEntry
  PROVE  ProviderInv'
  <1> USE DEF ProviderInv
  <1>a. /\ call' = Idle /\ known' = known /\ faults' \in 0 .. MaxFaults
        /\ unsure' \subseteq File \X Aspects
        /\ \A f \in File, a \in Aspects :
             Sure(f, a)' => Sure(f, a) /\ <<f, a>> \notin InDoubt
    BY InDoubtType, FaultsAssumption DEF Fault, ProviderTypeOK, Sure
  <1>b. Key \cup {"data", "file"} \subseteq Aspects
    BY DEF Aspects
  <1>c. /\ data' \in [File -> Value \cup {None, Torn}]
        /\ meta' \in [File -> Metadata \cup {None, Torn}]
        /\ \A f \in File :
             /\ data'[f] = data[f] \/ (f \in Busy /\ call.step = "write")
             /\ \/ meta'[f] = meta[f]
                \/ f \in Busy /\ call.step = "save" /\ meta'[f] = Torn
    <2>1. CASE UNCHANGED files
      BY <2>1 DEF files, ProviderTypeOK
    <2>2. ASSUME NEW f \in Busy, call.step = "write",
                 data' = [data EXCEPT ![f] = Torn], UNCHANGED meta
          PROVE  <1>c!1 /\ <1>c!2 /\ <1>c!3
      BY <2>2 DEF ProviderTypeOK
    <2>3. ASSUME NEW f \in Busy, call.step = "save",
                 meta' = [meta EXCEPT ![f] = Torn], UNCHANGED data
          PROVE  <1>c!1 /\ <1>c!2 /\ <1>c!3
      BY <2>3 DEF ProviderTypeOK
    <2>4. QED
      BY <2>1, <2>2, <2>3 DEF Fault, Interrupted
  <1>d. /\ cache' \in [Path -> Metadata \cup {None}]
        /\ \A p \in Path : cache'[p] # None => cache'[p] = cache[p]
    BY DEF ProviderTypeOK, NoEntry
  <1>e. \A p \in Path : ~Saving(p)' /\ ~Deleting(p)'
    BY <1>a DEF Saving, Deleting, Idle, Call
  <1>f. \A p \in Path : /\ path_to_fs_path(p) \in File
                        /\ p \in call.paths => path_to_fs_path(p) \in Busy
    BY FileOf DEF Busy
  <1>1. ProviderTypeOK'
    BY <1>a, <1>c, <1>d DEF ProviderTypeOK, Idle, Call
  <1>2. CallOK' /\ CacheOwned'
    BY <1>a, <1>d DEF CallOK, Steps, Idle, Call, CacheOwned
  <1>3. DataAgrees'
    BY <1>a, <1>b, <1>c, Doubts DEF DataAgrees
  <1>4. FileAgrees'
    <2>1. ASSUME OneSpelling, NEW f \in File, meta'[f] # Torn, NEW k \in Key, Sure(f, k)'
          PROVE  OnFile(f)'[k] = known'[f].meta[k]
      <3>1. ~(call.step = "delete_data" /\ f \in Busy)
        BY <2>1, <1>a, <1>b, Doubts
      <3>2. OnFile(f)' = OnFile(f) /\ meta[f] # Torn
        BY <2>1, <1>c DEF OnFile
      <3>3. QED
        BY <2>1, <1>a, <1>b, <3>1, <3>2 DEF FileAgrees
    <2>2. QED
      BY <2>1 DEF FileAgrees
  <1>5. CacheAgrees'
    <2>1. ASSUME OneSpelling, NEW p \in Path, cache'[p] # None, NEW k \in Key,
                 Sure(path_to_fs_path(p), k)'
          PROVE  cache'[p][k] = known'[path_to_fs_path(p)].meta[k]
      <3>1. ~(Saving(p) /\ k = call.key)
        BY <2>1, <1>a, <1>b, <1>f, Doubts, KeyAssumption DEF Saving
      <3>2. QED
        BY <2>1, <1>a, <1>b, <1>d, <1>f, <3>1 DEF CacheAgrees
    <2>2. QED
      BY <2>1, <1>e DEF CacheAgrees
  <1>6. FileBehind'
    <2>1. ASSUME OneSpelling, NEW f \in File, meta'[f] = Torn PROVE ~Sure(f, "file")'
      BY <2>1, <1>a, <1>b, <1>c, Doubts DEF FileBehind
    <2>2. ASSUME OneSpelling, NEW p \in Path, cache'[p] \notin {None, meta'[path_to_fs_path(p)]}
          PROVE  ~Sure(path_to_fs_path(p), "file")'
      BY <2>2, <1>a, <1>b, <1>c, <1>d, <1>f, Doubts DEF FileBehind, Saving
    <2>3. QED
      BY <2>1, <2>2 DEF FileBehind
  <1>7. Deleted' /\ Saves'
    BY <1>e DEF Deleted, Saves
  <1>8. QED
    BY <1>1, <1>2, <1>3, <1>4, <1>5, <1>6, <1>7

(* Between calls the provider may lose its cache.                          *)
LEMMA DropCacheStep ==
  ASSUME ProviderInv, call = Idle, cache' = cache \/ cache' = NoEntry,
         UNCHANGED <<files, call, faults, history>>
  PROVE  ProviderInv'
  <1> USE DEF ProviderInv, files, history
  <1>1. /\ cache' \in [Path -> Metadata \cup {None}]
        /\ \A p \in Path : cache'[p] # None => cache'[p] = cache[p]
    BY DEF ProviderTypeOK, NoEntry
  <1>2. ProviderTypeOK' /\ CallOK' /\ CacheOwned'
    BY <1>1 DEF ProviderTypeOK, CallOK, CacheOwned
  <1>3. DataAgrees' /\ FileAgrees'
    BY DEF DataAgrees, FileAgrees, OnFile, Sure, Busy
  <1>4. CacheAgrees' /\ FileBehind'
    BY <1>1 DEF CacheAgrees, FileBehind, Sure, Saving
  <1>5. Deleted' /\ Saves'
    BY DEF Deleted, Saves, Deleting, Saving, Idle, Call
  <1>6. QED
    BY <1>2, <1>3, <1>4, <1>5

LEMMA ProviderStutter == ProviderInv /\ UNCHANGED providerVars => ProviderInv'
  BY DEF providerVars, files, history, ProviderInv, ProviderTypeOK, CallOK, CacheOwned, DataAgrees,
         FileAgrees, CacheAgrees, FileBehind, Deleted, Saves, OnFile, Sure, Deleting, Saving, Busy

-----------------------------------------------------------------------------
(* The manager *)

LEMMA RegisteredDef == \A n : n \in Registered <=> \E i \in DOMAIN order : order[i] = n
  BY DEF Registered, ToSet

(* A new name comes last, and has never run.                               *)
LEMMA RegisterStep ==
  ASSUME ManagerInv, NEW n \in Name, register_extension(n)
  PROVE  ManagerInv'
  <1> USE DEF ManagerInv, register_extension
  <1>1. CASE n \in Registered
    <2>1. OrderOK' /\ Registered' = Registered
      BY <1>1 DEF OrderOK, Registered
    <2>2. RunningPrefix'
      BY <1>1, RegisteredDef DEF RunningPrefix
    <2>3. QED
      BY <1>1, <2>1, <2>2
  <1>2. CASE n \notin Registered
    <2>1. /\ order' \in Seq(Name) /\ Len(order') = Len(order) + 1
          /\ DOMAIN order = 1 .. Len(order) /\ DOMAIN order' = 1 .. Len(order) + 1
          /\ \A i \in 1 .. Len(order) : order'[i] = order[i]
          /\ order'[Len(order) + 1] = n /\ Len(order) \in Nat
      BY <1>2, AppendProperties, LenProperties DEF OrderOK
    <2>2. \A i \in 1 .. Len(order) : order[i] # n
      BY <1>2, <2>1, RegisteredDef
    <2>3. OrderOK'
      BY <2>1, <2>2 DEF OrderOK
    <2>4. Registered' = Registered \cup {n}
      BY <2>1 DEF Registered, ToSet
    <2>5. running' = running /\ replaced' = replaced /\ n \notin running
      BY <1>2
    <2>6. RunningPrefix'
      BY <2>1, <2>5 DEF RunningPrefix
    <2>7. QED
      BY <2>3, <2>4, <2>5, <2>6
  <1>3. QED
    BY <1>1, <1>2

(* What is done from the front leaves a prefix running, whether all of it  *)
(* is done or not.                                                         *)
LEMMA InitializeStep ==
  ASSUME ManagerInv, initialize_all
  PROVE  ManagerInv'
  <1> USE DEF ManagerInv, initialize_all
  <1>1. PICK count \in 0 .. Len(order), done \in SUBSET Name :
          /\ done = ToSet(SubSeq(order, 1, count))
          /\ running' = running \cup done /\ replaced' = replaced \ done
          /\ poisoned' \in BOOLEAN
    BY DEF Through
  <1>2. Len(order) \in Nat /\ DOMAIN order = 1 .. Len(order)
    BY LenProperties DEF OrderOK
  <1>3. /\ DOMAIN SubSeq(order, 1, count) = 1 .. count
        /\ \A i \in 1 .. count : SubSeq(order, 1, count)[i] = order[i]
    <2>1. \A i \in 1 .. count : order[i] \in Name
      BY <1>2, ElementOfSeq DEF OrderOK
    <2>2. QED
      BY <1>2, <2>1, SubSeqProperties, LenProperties
  <1>4. \A i \in DOMAIN order : order[i] \in done <=> i <= count
    BY <1>1, <1>2, <1>3 DEF ToSet, OrderOK
  <1>5. done \subseteq Registered
    BY <1>1, <1>2, <1>3 DEF ToSet, Registered
  <1>6. RunningPrefix'
    BY <1>1, <1>2, <1>4 DEF RunningPrefix
  <1>7. OrderOK' /\ Registered' = Registered
    BY DEF OrderOK, Registered
  <1>8. QED
    BY <1>1, <1>5, <1>6, <1>7

(* So does what is undone from the back.                                   *)
LEMMA ShutdownStep ==
  ASSUME ManagerInv, shutdown_all
  PROVE  ManagerInv'
  <1> USE DEF ManagerInv, shutdown_all
  <1>1. PICK count \in 0 .. Len(Reverse(order)), done \in SUBSET Name :
          /\ done = ToSet(SubSeq(Reverse(order), 1, count))
          /\ running' = running \ done /\ poisoned' \in BOOLEAN
    BY DEF Through
  <1>2. Len(order) \in Nat /\ DOMAIN order = 1 .. Len(order)
    BY LenProperties DEF OrderOK
  <1>3. /\ Reverse(order) \in Seq(Name) /\ Len(Reverse(order)) = Len(order)
        /\ \A i \in 1 .. Len(order) : Reverse(order)[i] = order[Len(order) - i + 1]
    BY <1>2 DEF Reverse, OrderOK
  <1>4. /\ DOMAIN SubSeq(Reverse(order), 1, count) = 1 .. count
        /\ \A i \in 1 .. count :
             SubSeq(Reverse(order), 1, count)[i] = order[Len(order) - i + 1]
    <2>1. \A i \in 1 .. count : Reverse(order)[i] \in Name
      BY <1>2, <1>3, ElementOfSeq
    <2>2. QED
      BY <1>2, <1>3, <2>1, SubSeqProperties, LenProperties
  <1>5. \A i \in DOMAIN order : order[i] \in done <=> i > Len(order) - count
    <2>1. ASSUME NEW i \in DOMAIN order, order[i] \in done PROVE i > Len(order) - count
      <3>1. PICK j \in 1 .. count : order[i] = order[Len(order) - j + 1]
        BY <2>1, <1>1, <1>4 DEF ToSet
      <3>2. QED
        BY <3>1, <1>2, <1>3 DEF OrderOK
    <2>2. ASSUME NEW i \in DOMAIN order, i > Len(order) - count PROVE order[i] \in done
      <3>1. /\ Len(order) - i + 1 \in 1 .. count
            /\ order[Len(order) - (Len(order) - i + 1) + 1] = order[i]
        BY <2>2, <1>2, <1>3
      <3>2. QED
        BY <3>1, <1>1, <1>4 DEF ToSet
    <2>3. QED
      BY <2>1, <2>2
  <1>6. RunningPrefix'
    BY <1>1, <1>2, <1>3, <1>5 DEF RunningPrefix
  <1>7. OrderOK' /\ Registered' = Registered
    BY DEF OrderOK, Registered
  <1>8. QED
    BY <1>1, <1>6, <1>7

(* What RemoveAt leaves.                                                   *)
LEMMA RemoveAtProperties ==
  ASSUME NEW S, NEW s \in Seq(S), NEW i \in 1 .. Len(s)
  PROVE  /\ RemoveAt(s, i) \in Seq(S) /\ Len(RemoveAt(s, i)) = Len(s) - 1
         /\ \A j \in 1 .. Len(s) - 1 : RemoveAt(s, i)[j] = s[IF j < i THEN j ELSE j + 1]
  <1> DEFINE front == SubSeq(s, 1, i - 1)
             back  == SubSeq(s, i + 1, Len(s))
  <1>1. Len(s) \in Nat /\ \A j \in 1 .. Len(s) : s[j] \in S
    BY LenProperties, ElementOfSeq
  <1>2. /\ front \in Seq(S) /\ Len(front) = i - 1
        /\ \A j \in 1 .. i - 1 : front[j] = s[j]
    BY <1>1, SubSeqProperties
  <1>3. /\ back \in Seq(S)
        /\ Len(back) = IF i + 1 <= Len(s) THEN Len(s) - (i + 1) + 1 ELSE 0
        /\ \A j \in 1 .. Len(s) - (i + 1) + 1 : back[j] = s[i + 1 + j - 1]
    BY <1>1, SubSeqProperties
  <1>4. RemoveAt(s, i) = front \o back
    BY DEF RemoveAt
  <1> HIDE DEF front, back
  <1>5. Len(back) = Len(s) - i
    BY <1>1, <1>3
  <1>6. /\ front \o back \in Seq(S) /\ Len(front \o back) = Len(front) + Len(back)
        /\ \A j \in 1 .. Len(front) + Len(back) :
             (front \o back)[j] = IF j <= Len(front) THEN front[j] ELSE back[j - Len(front)]
    BY <1>2, <1>3, ConcatProperties
  <1>7. ASSUME NEW j \in 1 .. Len(s) - 1, j >= i PROVE back[j - (i - 1)] = s[j + 1]
    <2>1. j - (i - 1) \in 1 .. Len(s) - (i + 1) + 1 /\ i + 1 + (j - (i - 1)) - 1 = j + 1
      BY <1>1, <1>7
    <2>2. QED
      BY <1>3, <2>1
  <1>8. QED
    BY <1>1, <1>2, <1>3, <1>4, <1>5, <1>6, <1>7

(* The names behind the one that is removed move up.                       *)
LEMMA RemoveStep ==
  ASSUME ManagerInv, NEW n \in Name, remove_extension(n)
  PROVE  ManagerInv'
  <1> USE DEF ManagerInv, remove_extension
  <1>1. Len(order) \in Nat /\ DOMAIN order = 1 .. Len(order)
    BY LenProperties DEF OrderOK
  <1>2. PICK i \in 1 .. Len(order) : order[i] = n /\ order' = RemoveAt(order, i)
    BY <1>1
  <1>3. /\ order' \in Seq(Name) /\ Len(order') = Len(order) - 1
        /\ \A j \in 1 .. Len(order) - 1 : order'[j] = order[IF j < i THEN j ELSE j + 1]
    BY <1>1, <1>2, RemoveAtProperties DEF OrderOK
  <1>4. DOMAIN order' = 1 .. Len(order) - 1
    BY <1>3, LenProperties
  <1>5. OrderOK'
    BY <1>1, <1>3 DEF OrderOK
  <1>6. \A m : m \in Registered' <=> m \in Registered /\ m # n
    <2>1. ASSUME NEW j \in DOMAIN order' PROVE order'[j] \in Registered /\ order'[j] # n
      BY <1>1, <1>2, <1>3, <1>4, RegisteredDef DEF OrderOK
    <2>2. ASSUME NEW j \in DOMAIN order, order[j] # n PROVE \E m \in DOMAIN order' : order'[m] = order[j]
      <3>1. CASE j < i
        BY <1>1, <1>3, <1>4, <3>1
      <3>2. CASE j > i
        <4>1. j - 1 \in DOMAIN order' /\ order'[j - 1] = order[j]
          BY <1>1, <1>3, <1>4, <3>2
        <4>2. QED
          BY <4>1
      <3>3. QED
        BY <1>1, <1>2, <2>2, <3>1, <3>2
    <2>3. QED
      BY <2>1, <2>2, RegisteredDef DEF Registered, ToSet
  <1>7. RunningPrefix'
    <2>1. ASSUME NEW j \in DOMAIN order', NEW m \in DOMAIN order', j < m, order'[m] \in running'
          PROVE  order'[j] \in running' \cup replaced'
      <3> DEFINE at(k) == IF k < i THEN k ELSE k + 1
      <3>1. at(j) \in DOMAIN order /\ at(m) \in DOMAIN order /\ at(j) < at(m)
        BY <1>1, <1>4, <2>1
      <3>2. order'[j] = order[at(j)] /\ order'[m] = order[at(m)]
        BY <1>3, <1>4
      <3> HIDE DEF at
      <3>3. order[at(j)] \in running \cup replaced
        BY <2>1, <3>1, <3>2 DEF RunningPrefix
      <3>4. order'[j] # n
        BY <1>6, <2>1 DEF Registered, ToSet
      <3>5. QED
        BY <3>2, <3>3, <3>4
    <2>2. QED
      BY <2>1 DEF RunningPrefix
  <1>8. QED
    BY <1>5, <1>6, <1>7

LEMMA ManagerStutter ==
  ASSUME ManagerInv, UNCHANGED <<order, running, replaced>>, poisoned' \in BOOLEAN
  PROVE  ManagerInv'
  BY DEF ManagerInv, OrderOK, Registered, RunningPrefix

(* Nothing is registered when the process has started.                     *)
LEMMA StartManager ==
  /\ order = <<>> /\ running = {} /\ replaced = {} /\ poisoned = FALSE => ManagerInv
  /\ order' = <<>> /\ running' = {} /\ replaced' = {} /\ poisoned' = FALSE => ManagerInv'
  <1>1. <<>> \in Seq(Name) /\ Len(<<>>) = 0 /\ DOMAIN <<>> = {}
    BY EmptySeq
  <1>2. order = <<>> => OrderOK /\ RunningPrefix
    BY <1>1 DEF OrderOK, RunningPrefix
  <1>3. order' = <<>> => OrderOK' /\ RunningPrefix'
    BY <1>1 DEF OrderOK, RunningPrefix
  <1>4. QED
    BY <1>2, <1>3 DEF ManagerInv

LEMMA InitInv == Init => Inv
  BY InitProviderInv, StartManager DEF Init, Inv

-----------------------------------------------------------------------------
(* Every step *)

LEMMA ProviderCallStep == ProviderInv /\ ProviderCall => ProviderInv'
  BY StoreStep, SetMetadataStep, DeleteStep, FlushStep DEF ProviderCall

LEMMA ProviderStepStep == ProviderInv /\ ProviderStep => ProviderInv'
  BY WriteStep, SaveStep, DeleteMetadataStep, DeleteDataStep, FaultStep DEF ProviderStep, Fail

LEMMA NextInv == Inv /\ [Next]_vars => Inv'
  <1> SUFFICES ASSUME Inv, [Next]_vars PROVE Inv'
    OBVIOUS
  <1> USE DEF Inv
  <1>1. ASSUME NEW n \in Name, register_extension(n) PROVE Inv'
    BY <1>1, RegisterStep, DropCacheStep DEF register_extension, Exclusive, DropInstance
  <1>2. ASSUME NEW n \in Name, remove_extension(n) PROVE Inv'
    BY <1>2, RemoveStep, DropCacheStep DEF remove_extension, Exclusive, DropInstance
  <1>3. ASSUME NEW n \in Name, RemoveFails(n) PROVE Inv'
    BY <1>3, ManagerStutter, ProviderStutter DEF RemoveFails
  <1>4. CASE initialize_all
    BY <1>4, InitializeStep, ProviderStutter DEF initialize_all
  <1>5. CASE shutdown_all
    BY <1>5, ShutdownStep, ProviderStutter DEF shutdown_all
  <1>6. CASE CallProvider
    BY <1>6, ProviderCallStep, ManagerStutter DEF CallProvider, managerVars, ManagerInv
  <1>7. CASE StepProvider
    BY <1>7, ProviderStepStep, ManagerStutter DEF StepProvider, managerVars, ManagerInv
  <1>8. CASE Restart
    BY <1>8, FaultStep, StartManager DEF Restart, Crash
  <1>9. CASE UNCHANGED vars
    BY <1>9, ProviderStutter, ManagerStutter DEF vars, managerVars, ManagerInv
  <1>10. QED
    BY <1>1, <1>2, <1>3, <1>4, <1>5, <1>6, <1>7, <1>8, <1>9 DEF Next

(* The invariant that the others follow from: what files, cache, calls and *)
(* the order of the extensions have to do with each other at every step.   *)
(* What it says of metadata on file and in the cache it says for clients   *)
(* that keep to one spelling of each file; the rest holds for all clients. *)
THEOREM ExtensionsInvariant == Spec => []Inv
  BY InitInv, NextInv, PTL DEF Spec

(* As many names as there are places, for no name has two.                 *)
LEMMA OrderLength == OrderOK => Len(order) = Cardinality(Registered)
  <1> SUFFICES ASSUME OrderOK PROVE Len(order) = Cardinality(Registered)
    OBVIOUS
  <1>1. Len(order) \in Nat /\ DOMAIN order = 1 .. Len(order)
    BY LenProperties DEF OrderOK
  <1>2. order \in Bijection(1 .. Len(order), Registered)
    <2>1. order \in [1 .. Len(order) -> Registered]
      BY <1>1, LenProperties DEF OrderOK, Registered, ToSet
    <2>2. QED
      BY <1>1, <2>1, RegisteredDef DEF OrderOK, Bijection, Injection, Surjection, IsInjective
  <1>3. IsFiniteSet(1 .. Len(order)) /\ Cardinality(1 .. Len(order)) = Len(order)
    <2>1. /\ IsFiniteSet(1 .. Len(order))
          /\ Cardinality(1 .. Len(order)) = IF 1 > Len(order) THEN 0 ELSE Len(order) - 1 + 1
      BY <1>1, FS_Interval
    <2>2. QED
      BY <1>1, <2>1
  <1>4. QED
    BY <1>2, <1>3, FS_Bijection DEF ExistsBijection

(* The types of all variables.                                             *)
THEOREM TypeCorrect == Spec => []TypeOK
  <1>1. Inv => TypeOK
    BY OrderLength, RegisteredDef, ElementOfSeq, LenProperties
    DEF Inv, ProviderInv, ManagerInv, TypeOK, OrderOK
  <1>2. QED
    BY <1>1, ExtensionsInvariant, PTL

(* Whatever fails in initialize_all or in shutdown_all, and whatever is    *)
(* registered and removed between them: no extension runs before its       *)
(* predecessors do.                                                        *)
THEOREM RunningIsPrefix == Spec => []RunningPrefix
  <1>1. Inv => RunningPrefix
    BY DEF Inv, ManagerInv
  <1>2. QED
    BY <1>1, ExtensionsInvariant, PTL

(* Whatever store, set_metadata, flush and delete have acknowledged is     *)
(* what retrieve, list and get_metadata give, by any spelling, through any *)
(* number of failed operations, crashes and replaced instances of the      *)
(* provider; if metadata are set and files deleted by one spelling each,   *)
(* as the code does not ask for, and as long as the metadata file is not   *)
(* torn: then all its keys are unreadable, the acknowledged ones too.      *)
THEOREM AcknowledgedStays ==
  ASSUME OneSpelling
  PROVE  Spec => []AckedStays
  <1>1. ASSUME Inv, NEW p \in Path, NEW f \in File, f = path_to_fs_path(p), f \notin Busy
        PROVE  /\ <<f, "data">> \notin unsure => /\ retrieve(p) = known[f].data
                                                 /\ logical_path(f) \in list <=> known[f].data # None
               /\ get_metadata(p) # Torn =>
                    \A k \in Key : <<f, k>> \notin unsure => get_metadata(p)[k] = known[f].meta[k]
               /\ get_metadata(p) = Torn \/ cache[p] \notin {None, meta[f]} => <<f, "file">> \in unsure
    <2> USE <1>1, OneSpelling DEF Inv, ProviderInv
    <2>1. ~Saving(p)
      BY DEF Saving, Busy
    <2>2. <<f, "data">> \notin unsure => /\ retrieve(p) = known[f].data
                                         /\ logical_path(f) \in list <=> known[f].data # None
      <3>1. logical_path(f) \in list <=> data[f] # None
        BY DEF logical_path, list
      <3>2. QED
        BY <3>1 DEF DataAgrees, Sure, retrieve
    <2>3. CASE cache[p] # None
      <3>1. get_metadata(p) = cache[p] /\ get_metadata(p) # Torn
        BY <2>3, ReadMetadata, Sentinels
      <3>2. QED
        BY <2>1, <2>2, <2>3, <3>1 DEF CacheAgrees, FileBehind, Sure
    <2>4. CASE cache[p] = None
      <3>1. get_metadata(p) = OnFile(f) /\ (OnFile(f) = Torn <=> meta[f] = Torn)
        BY <2>4, ReadMetadata, Sentinels, NoMetadataType DEF OnFile
      <3>2. QED
        BY <2>1, <2>2, <2>4, <3>1 DEF FileAgrees, FileBehind, Sure
    <2>5. QED
      BY <2>3, <2>4
  <1>2. Inv => AckedStays
    BY <1>1, FileOf DEF AckedStays
  <1>3. QED
    BY <1>2, ExtensionsInvariant, PTL

(* delete removes the metadata file before the data file, also when it is  *)
(* cut short anywhere and called again, and by whatever spelling.          *)
THEOREM MetadataGoesFirst == Spec => NoOrphanMetadata
  <1>1. ASSUME Inv, [Next]_vars, NEW f \in File, data[f] # None, data'[f] = None
        PROVE  meta[f] = None
    <2> USE <1>1 DEF Inv, ProviderInv
    <2>1. ASSUME UNCHANGED files PROVE FALSE
      BY <2>1 DEF files
    <2>2. ASSUME ProviderStep PROVE meta[f] = None
      <3>1. ASSUME NEW q \in Path, Write(q) PROVE FALSE
        BY <3>1, Sentinels, FileOf DEF Write, At, CallOK, ProviderTypeOK
      <3>2. ASSUME NEW q \in Path, Save(q) \/ DeleteMetadata(q) PROVE FALSE
        BY <3>2 DEF Save, DeleteMetadata
      <3>3. ASSUME NEW q \in Path, DeleteData(q) PROVE meta[f] = None
        BY <3>3, FileOf DEF DeleteData, At, ProviderTypeOK, Deleted, Deleting
      <3>4. CASE Fail
        BY <3>4, FaultFiles DEF Fail
      <3>5. QED
        BY <2>2, <3>1, <3>2, <3>3, <3>4 DEF ProviderStep
    <2>3. ASSUME ProviderCall PROVE FALSE
      BY <2>1, <2>3 DEF ProviderCall, store, set_metadata, delete, flush
    <2>4. CASE Restart
      BY <2>4, FaultFiles DEF Restart, Crash
    <2>5. ASSUME NEW n \in Name, register_extension(n) \/ remove_extension(n) \/ RemoveFails(n)
          PROVE  FALSE
      BY <2>1, <2>5 DEF register_extension, remove_extension, RemoveFails, DropInstance, providerVars
    <2>6. ASSUME initialize_all \/ shutdown_all \/ UNCHANGED vars PROVE FALSE
      BY <2>1, <2>6 DEF initialize_all, shutdown_all, vars, providerVars
    <2>7. QED
      BY <2>2, <2>3, <2>4, <2>5, <2>6 DEF Next, CallProvider, StepProvider
  <1>2. ASSUME Inv, [Next]_vars
        PROVE  [\A f \in File : data[f] # None /\ data'[f] = None => meta[f] = None]_providerVars
    BY <1>1, <1>2
  <1>3. QED
    BY <1>2, ExtensionsInvariant, PTL DEF Spec, NoOrphanMetadata

==============================================================================
