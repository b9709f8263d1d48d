----------------------------- MODULE FileStorage ------------------------------
(***************************************************************************)
(* The file system storage provider (extension.rs).  A path leads to a     *)
(* data file with a metadata file beside it, and its metadata are cached   *)
(* in memory.  The slashes that a path begins with are dropped on the way  *)
(* to the file but not on the way to the cache, so a file has several      *)
(* spellings, each with an entry of its own in the cache.                  *)
(*                                                                         *)
(* A call is a sequence of file operations, each of which may fail; a      *)
(* write that fails or is cut short may leave a torn file.  Calls take the *)
(* provider mutably, so there is one at a time.  Directories are left out, *)
(* and so are paths that end in ".metadata".                               *)
(***************************************************************************)
EXTENDS Naturals, FiniteSets

CONSTANTS File,       \* the data files, by name
          Slashes,    \* how many slashes a path may begin with
          Spelled,    \* the paths that set_metadata and delete are called with
          Value,      \* what is stored, as data or under a key of metadata
          Key,        \* the keys of metadata
          None,       \* no file, no entry
          Torn,       \* what an interrupted write leaves
          MaxFaults   \* bound: failed operations and crashes

(* A path: the slashes it begins with, and the name of its file.           *)
Path == Slashes \X File

path_to_fs_path(p) == p[2]

(* What list gives a file back as.                                         *)
logical_path(f) == <<1, f>>

(* What clients are assumed to do: to write metadata to a file, and to     *)
(* delete it, by one spelling only.  The code does not ask it of them.     *)
OneSpelling ==
  \A p, q \in Spelled : path_to_fs_path(p) = path_to_fs_path(q) => p = q

Metadata == [Key -> Value \cup {None}]

ASSUME SpellingAssumption == 1 \in Slashes /\ Spelled \subseteq Path
ASSUME ContentAssumption ==
  None # Torn /\ {None, Torn} \cap (Value \cup Metadata) = {}
ASSUME FaultsAssumption == MaxFaults \in Nat
ASSUME KeyAssumption ==
  {None, "data", "file"} \cap Key = {} /\ None \notin {"data", "file"}

NoMetadata == [k \in Key |-> None]
NoFile == [f \in File |-> None]
NoEntry == [p \in Path |-> None]

VARIABLES
  data,    \* the data files
  meta,    \* the metadata file beside each
  cache,   \* metadata_cache, by path
  call,    \* the call under way: its step, the paths it has left, its key and value
  faults,  \* how many operations have failed
  known,   \* history: what successful calls have left, as the caller knows it
  unsure   \* history: the data, keys and metadata files that calls ending in an
           \* error may have changed

files == <<data, meta>>
history == <<known, unsure>>
providerVars == <<files, cache, call, faults, history>>

Call(step, paths, k, v) == [step |-> step, paths |-> paths, key |-> k, value |-> v]

Idle == Call("idle", {}, None, None)

ProviderInit ==
  /\ data = NoFile /\ meta = NoFile /\ cache = NoEntry
  /\ call = Idle
  /\ faults = 0
  /\ known = [f \in File |-> [data |-> None, meta |-> NoMetadata]]
  /\ unsure = {}

(* What may be unsure of a file.                                           *)
Aspects == Key \cup {"data", "file"}

At(step, p) == call.step = step /\ p \in call.paths

(* The files that the call under way is about.                             *)
Busy == {path_to_fs_path(p) : p \in call.paths}

-----------------------------------------------------------------------------
(* Reads.  Torn is what reading a torn file gives; get_metadata fails on   *)
(* one, and so does retrieve where there is none.                          *)

retrieve(p) == data[path_to_fs_path(p)]

exists(p) == data[path_to_fs_path(p)] # None

(* What the walk of the root directory finds; it passes metadata over.     *)
list == {logical_path(f) : f \in {f \in File : data[f] # None}}

read_metadata_from_disk(p) ==
  LET f == path_to_fs_path(p)
  IN  IF meta[f] = None THEN NoMetadata ELSE meta[f]

(* The cached metadata, else those on file.  The cache is not filled.      *)
get_metadata(p) == IF cache[p] # None THEN cache[p] ELSE read_metadata_from_disk(p)

-----------------------------------------------------------------------------
(* store *)

store(p, v) ==
  /\ call = Idle
  /\ call' = Call("write", {p}, None, v)
  /\ UNCHANGED <<files, cache, faults, history>>

Write(p) ==
  /\ At("write", p)
  /\ data' = [data EXCEPT ![path_to_fs_path(p)] = call.value]
  /\ call' = Idle
  /\ known' = [known EXCEPT ![path_to_fs_path(p)].data = call.value]
  /\ unsure' = unsure \ {<<path_to_fs_path(p), "data">>}
  /\ UNCHANGED <<meta, cache, faults>>

-----------------------------------------------------------------------------
(* set_metadata, flush *)

(* Wrong: metadata that cannot be parsed are started anew.                 *)
set_metadata_anew(p, k, v) ==
  /\ call = Idle
  /\ cache' = [cache EXCEPT ![p] =
                 [IF get_metadata(p) = Torn THEN NoMetadata ELSE get_metadata(p)
                    EXCEPT ![k] = v]]
  /\ call' = Call("save", {p}, k, v)
  /\ UNCHANGED <<files, faults, history>>

(* The cache has the new entry before the file has.                        *)
set_metadata(p, k, v) ==
  /\ call = Idle
  /\ get_metadata(p) # Torn
  /\ cache' = [cache EXCEPT ![p] = [get_metadata(p) EXCEPT ![k] = v]]
  /\ call' = Call("save", {p}, k, v)
  /\ UNCHANGED <<files, faults, history>>

flush ==
  /\ call = Idle
  /\ cache # NoEntry
  /\ call' = Call("save", {p \in Path : cache[p] # None}, None, None)
  /\ UNCHANGED <<files, cache, faults, history>>

(* save_metadata, for each path the call has left.                         *)
Save(p) ==
  /\ At("save", p)
  /\ meta' = [meta EXCEPT ![path_to_fs_path(p)] = cache[p]]
  /\ call' = IF call.paths = {p} THEN Idle ELSE [call EXCEPT !.paths = @ \ {p}]
  /\ known' = IF call.key = None THEN known
              ELSE [known EXCEPT ![path_to_fs_path(p)].meta[call.key] = call.value]
  /\ unsure' = unsure \ ({path_to_fs_path(p)} \X {"file", call.key})
  /\ UNCHANGED <<data, cache, faults>>

-----------------------------------------------------------------------------
(* delete: the cache's entry for this spelling, the metadata file, the     *)
(* data file                                                               *)

delete(p) ==
  /\ call = Idle
  /\ cache' = [cache EXCEPT ![p] = None]
  /\ call' = Call("delete_metadata", {p}, None, None)
  /\ UNCHANGED <<files, faults, history>>

(* Wrong: the metadata file is left where it is.                           *)
DeleteNoMetadata(p) ==
  /\ At("delete_metadata", p)
  /\ call' = [call EXCEPT !.step = "delete_data"]
  /\ UNCHANGED <<files, cache, faults, history>>

DeleteMetadata(p) ==
  /\ At("delete_metadata", p)
  /\ meta' = [meta EXCEPT ![path_to_fs_path(p)] = None]
  /\ call' = [call EXCEPT !.step = "delete_data"]
  /\ UNCHANGED <<data, cache, faults, history>>

DeleteData(p) ==
  /\ At("delete_data", p)
  /\ data' = [data EXCEPT ![path_to_fs_path(p)] = None]
  /\ call' = Idle
  /\ known' = [known EXCEPT ![path_to_fs_path(p)] = [data |-> None, meta |-> NoMetadata]]
  /\ unsure' = unsure \ ({path_to_fs_path(p)} \X Aspects)
  /\ UNCHANGED <<meta, cache, faults>>

-----------------------------------------------------------------------------
(* Faults *)

(* What the step that is cut short may leave of its file.                  *)
Interrupted ==
  \/ UNCHANGED files
  \/ \E f \in Busy :
       \/ call.step = "write" /\ data' = [data EXCEPT ![f] = Torn] /\ UNCHANGED meta
       \/ call.step = "save" /\ meta' = [meta EXCEPT ![f] = Torn] /\ UNCHANGED data

(* What the caller cannot know after a call that ends in an error.         *)
InDoubt ==
  Busy \X CASE call.step = "idle" -> {}
            [] call.step = "write" -> {"data"}
            [] call.step = "save" -> {"file"} \cup ({call.key} \ {None})
            [] call.step \in {"delete_metadata", "delete_data"} -> Aspects

Fault ==
  /\ faults < MaxFaults
  /\ faults' = faults + 1
  /\ Interrupted
  /\ unsure' = unsure \cup InDoubt
  /\ call' = Idle
  /\ UNCHANGED known

(* An operation fails, and the call returns the error.                     *)
Fail == call # Idle /\ Fault /\ UNCHANGED cache

(* The process dies and is started again.                                  *)
Crash == Fault /\ cache' = NoEntry

ProviderCall ==
  \/ \E p \in Path, v \in Value : store(p, v)
  \/ \E p \in Spelled, k \in Key, v \in Value : set_metadata(p, k, v)
  \/ \E p \in Spelled : delete(p)
  \/ flush

ProviderStep ==
  \/ \E p \in Path : Write(p) \/ Save(p) \/ DeleteMetadata(p) \/ DeleteData(p)
  \/ Fail

-----------------------------------------------------------------------------
(* Properties *)

ProviderTypeOK ==
  /\ data \in [File -> Value \cup {None, Torn}]
  /\ meta \in [File -> Metadata \cup {None, Torn}]
  /\ cache \in [Path -> Metadata \cup {None}]
  /\ call.step \in {"idle", "write", "save", "delete_metadata", "delete_data"}
  /\ call.paths \subseteq Path
  /\ faults \in 0 .. MaxFaults
  /\ known \in [File -> [data : Value \cup {None}, meta : Metadata]]
  /\ unsure \subseteq File \X Aspects

(* What a call was told has been stored is there, and what it was told has *)
(* been deleted is gone, by whatever spelling one asks ("Get metadata for  *)
(* the given path", "Delete data at the given path"), also after crashes   *)
(* and calls on other keys and files: save_metadata writes the whole map,  *)
(* but takes it from the cache or the file.  Metadata are unreadable, or   *)
(* in the cache and not on file, only where a save has failed; and then    *)
(* all keys of the file are unreadable, the acknowledged ones too.  It     *)
(* holds for clients that keep to OneSpelling.                             *)
AckedStays ==
  \A p \in Path :
    LET f == path_to_fs_path(p)
    IN  f \notin Busy =>
          /\ <<f, "data">> \notin unsure => /\ retrieve(p) = known[f].data
                                           /\ logical_path(f) \in list <=> known[f].data # None
          /\ get_metadata(p) # Torn =>
               \A k \in Key : <<f, k>> \notin unsure => get_metadata(p)[k] = known[f].meta[k]
          /\ get_metadata(p) = Torn \/ cache[p] \notin {None, meta[f]} => <<f, "file">> \in unsure

(* No data file is removed while its metadata file is there: a delete that *)
(* is cut short leaves data without metadata, and never the metadata of a  *)
(* file that is gone.  (An entry that another spelling has left in the     *)
(* cache is a later flush's to write; see OneSpelling.)                    *)
NoOrphanMetadata ==
  [][\A f \in File : data[f] # None /\ data'[f] = None => meta[f] = None]_providerVars

==============================================================================
