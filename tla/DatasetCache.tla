---------------------------- MODULE DatasetCache ----------------------------
(***************************************************************************)
(* dataset::load_cached (datasets.hpp): generates a data set or samples it *)
(* from a file, once for each identifier and size, and then returns the    *)
(* same list of keys for ever.                                             *)
(*                                                                         *)
(* A sorted list without duplicates is represented by the set of its keys. *)
(***************************************************************************)
EXTENDS Integers, SequencesExt

CONSTANTS
  Id,             \* data sets
  Sizes,          \* dataset_size
  File,           \* id -> values in its file; the other data sets are generated
  InRange(_, _),  \* a value of the file of id passes the filter of id ...
  Offset(_),      \* ... and becomes a key when the offset of id is subtracted
  Value,          \* values a generated data set may hold
  MaxKey          \* numeric_limits<Data>::max(), the Sentinel of the tables

FileId == DOMAIN File

ASSUME DatasetAssumption ==
  /\ FileId \subseteq Id
  /\ Sizes \subseteq Nat \ {0}
  /\ \A id \in FileId : File[id] \subseteq Nat /\ File[id] # {}
  /\ Value \subseteq 0 .. MaxKey /\ MaxKey \in Nat \ {0}

VARIABLES
  disk,      \* identifiers whose file exists
  raw,       \* ds_fb, ds_osm, ds_wiki: the shuffled file, empty until loaded
  datasets   \* the cache: <<id, size>> -> keys

cache == <<disk, raw, datasets>>

InitCache ==
  /\ disk \in SUBSET FileId
  /\ raw = [id \in FileId |-> << >>]
  /\ datasets = << >>

\* load() and std::shuffle: the values of the file in any order, or nothing.
Loaded(id) == IF id \in disk THEN SetToSeqs(File[id]) ELSE {<< >>}

\* The first values that pass the filter, padded with zeros: the vector has
\* dataset_size elements whatever the file holds.
Sample(id, size, file) ==
  LET Passes(v) == InRange(id, v)
      kept == SelectSeq(file, Passes)
  IN  [n \in 1 .. size |-> IF n <= Len(kept) THEN kept[n] - Offset(id) ELSE 0]

\* The largest value is replaced, then the list is sorted and deduplicated.
KeysOf(ds) == {IF ds[n] = MaxKey THEN MaxKey - 1 ELSE ds[n] : n \in DOMAIN ds}

\* (Mutant of Cached: a generated data set is generated anew.)
Mutant_FilesOnly(id, size) == id \in FileId /\ <<id, size>> \in DOMAIN datasets

Cached(id, size) == <<id, size>> \in DOMAIN datasets

\* The data set is put into the cache.
Store(id, size, ds) ==
  datasets' = [d \in DOMAIN datasets \union {<<id, size>>} |->
                 IF d = <<id, size>> THEN KeysOf(ds) ELSE datasets[d]]

Hit(id, size) == Cached(id, size) /\ UNCHANGED cache

Generate(id, size) ==
  /\ ~Cached(id, size)
  /\ id \notin FileId
  /\ \E ds \in [1 .. size -> Value] : Store(id, size, ds)
  /\ UNCHANGED <<disk, raw>>

SampleFile(id, size) ==
  /\ ~Cached(id, size)
  /\ id \in FileId
  /\ \E file \in (IF raw[id] = << >> THEN Loaded(id) ELSE {raw[id]}) :
       /\ file # << >>
       /\ raw' = [raw EXCEPT ![id] = file]
       /\ Store(id, size, Sample(id, size, file))
  /\ UNCHANGED disk

\* "ds file does not exist": nothing is returned and nothing is cached.
NoFile(id, size) ==
  /\ ~Cached(id, size)
  /\ id \in FileId
  /\ raw[id] = << >>
  /\ id \notin disk
  /\ UNCHANGED cache

LoadCached(id, size) ==
  Hit(id, size) \/ Generate(id, size) \/ SampleFile(id, size) \/ NoFile(id, size)

\* What load_cached(id, size) returns, the cache being d afterwards.
Result(id, size, d) == IF <<id, size>> \in DOMAIN d THEN d[<<id, size>>] ELSE {}
=============================================================================
