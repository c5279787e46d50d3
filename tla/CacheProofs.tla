----------------------------- MODULE CacheProofs -----------------------------
(***************************************************************************)
(* Proofs about the caches, for any keys, values, shards and capacities.   *)
(* Persistence: saving the cache implements DurableStore, and a skipped    *)
(* save loses no key.  ShardedCache: the hand-made lists hold what the     *)
(* maps hold, and a cache implements BoundedMap.  ExpiryIndex: heap.Pop    *)
(* takes the top out and nothing else, every entry keeps its index, and    *)
(* the count of expired entries is never more than the entries.            *)
(***************************************************************************)
EXTENDS Caches, FiniteSetTheorems, TLAPS

AnyContent == UNION {Contents(s) : s \in Shard}
Format == {"absent", "old", "torn", "new"}

\* What a file can be: for every shard a content of that shard.
IsFile(c) ==
    /\ c \in [format : Format, entries : [Shard -> AnyContent], short : BOOLEAN]
    /\ \A s \in Shard : c.entries[s] \in Contents(s)

DiskType ==
    /\ mem \in [Key -> Value \cup {None}]
    /\ temp \in [Saver -> [format : Format, entries : [Shard -> AnyContent], short : BOOLEAN]]
    /\ IsFile(file) /\ \A f \in Saver : IsFile(temp[f])
    /\ toClear \subseteq Shard /\ todo \in [Saver -> SUBSET Shard]
    /\ history \in [Shard -> SUBSET AnyContent]
    /\ \A s \in Shard : history[s] \subseteq Contents(s)

\* A content of the history of a shard or nothing; a part of such a content.
Held(e, s) == e \in history[s] \cup {EmptyShard(s)}
PartHeld(e, s) == \E c \in history[s] : e \in Durable!Parts(s, c)

\* Every shard was written whole or not at all, but for one at most.
Cut(e) == \E cut \in Shard : \A s \in Shard : Held(e[s], s) \/ (s = cut /\ PartHeld(e[s], s))

\* The history of a shard includes its content, and a temporary file holds for
\* every shard something of its history, or nothing yet; if an entry could not be
\* encoded, a part of it, and nothing more is written.
Streamed ==
    /\ \A s \in Shard : ContentOf(mem, s) \in history[s]
    /\ \A f \in Saver : /\ Cut(temp[f].entries)
                        /\ ~temp[f].short => \A s \in Shard : Held(temp[f].entries[s], s)
                        /\ temp[f].short => todo[f] = {}
    /\ process = "down" =>
        temp = [f \in Saver |-> Absent] /\ toClear = {} /\ \A f \in Saver : pc[f] = "idle"

IInv == DiskAssumption /\ DiskType /\ Streamed

-----------------------------------------------------------------------------
(* Contents and files.                                                     *)

\* What a map of the right type holds of a shard is a content of the shard.
LEMMA ContentTyped ==
  ASSUME NEW m \in [Key -> Value \cup {None}], NEW s \in Shard
  PROVE  ContentOf(m, s) \in Contents(s) /\ ContentOf(m, s) \in AnyContent
  <1>1. ContentOf(m, s) \in Contents(s)
    BY DEF ContentOf, Contents, KeysOf
  <1>2. QED
    BY <1>1 DEF AnyContent

\* A shard may be empty.
LEMMA EmptyTyped ==
  ASSUME NEW s \in Shard
  PROVE  EmptyShard(s) \in Contents(s) /\ EmptyShard(s) \in AnyContent
  <1>1. EmptyShard(s) \in Contents(s)
    BY DEF EmptyShard, Contents
  <1>2. QED
    BY <1>1 DEF AnyContent

\* A file that is not there is a file without entries.
LEMMA AbsentTyped ==
  IsFile(Absent) /\ \A s \in Shard : Absent.entries[s] = EmptyShard(s)
  <1>1. \A s \in Shard : Absent.entries[s] = EmptyShard(s)
    BY DEF Absent, NoEntries
  <1>2. Absent.entries \in [Shard -> AnyContent]
    BY EmptyTyped DEF Absent, NoEntries
  <1>3. Absent \in [format : Format, entries : [Shard -> AnyContent], short : BOOLEAN]
    BY <1>2 DEF Absent, Format
  <1>4. QED
    BY <1>1, <1>3, EmptyTyped DEF IsFile

\* The files of earlier versions are files.
LEMMA OldTyped ==
  ASSUME DiskAssumption, NEW c \in OldFiles
  PROVE  IsFile(c)
  <1>1. PICK m \in [Key -> {None, CHOOSE v \in Value : TRUE}] :
          c = [format |-> "old", entries |-> [s \in Shard |-> ContentOf(m, s)], short |-> FALSE]
    BY DEF OldFiles
  <1>2. m \in [Key -> Value \cup {None}]
    BY DEF DiskAssumption
  <1>3. c.entries = [s \in Shard |-> ContentOf(m, s)] /\ c.format = "old" /\ c.short = FALSE
    BY <1>1
  <1>4. c.entries \in [Shard -> AnyContent] /\ \A s \in Shard : c.entries[s] \in Contents(s)
    BY <1>2, <1>3, ContentTyped
  <1>5. QED
    BY <1>1, <1>4 DEF IsFile, Format

-----------------------------------------------------------------------------
\* The invariant at the start.
LEMMA InitInv == DiskAssumption /\ Init => IInv
  <1> SUFFICES ASSUME DiskAssumption, Init PROVE IInv
    OBVIOUS
  <1>1. IsFile(file) /\ IsFile(Absent)
    BY AbsentTyped, OldTyped DEF Init
  <1>2. mem = [k \in Key |-> None] /\ history = [s \in Shard |-> {EmptyShard(s)}]
          /\ temp = [f \in Saver |-> Absent] /\ pc = [f \in Saver |-> "idle"] /\ toClear = {}
          /\ todo = [f \in Saver |-> {}]
    BY DEF Init
  <1>3. DiskType
    BY <1>1, <1>2, EmptyTyped DEF DiskType, IsFile
  <1>4. \A s \in Shard : ContentOf(mem, s) = EmptyShard(s)
    BY <1>2 DEF ContentOf, EmptyShard, KeysOf
  <1>5. \A s \in Shard : Held(Absent.entries[s], s)
    BY AbsentTyped DEF Held
  <1>6. Cut(Absent.entries) /\ Absent.short = FALSE
    BY <1>5 DEF Cut, DiskAssumption, Absent
  <1>7. Streamed
    BY <1>2, <1>4, <1>5, <1>6 DEF Streamed
  <1>8. QED
    BY <1>3, <1>7 DEF IInv

\* A step of the running cache.
CacheMoves ==
    (\E k \in Key : Delete(k) \/ \E v \in Value : Set(k, v)) \/ \E s \in Shard : ClearShard(s)

\* It changes keys of one shard only, and takes down what the shard holds then.
LEMMA CacheStep ==
  ASSUME IInv, CacheMoves
  PROVE  \E z \in Shard :
            /\ mem' \in [Key -> Value \cup {None}]
            /\ \A j \in Key : ShardOf(j) # z => mem'[j] = mem[j]
            /\ history' = [history EXCEPT ![z] = @ \cup {ContentOf(mem', z)}]
            /\ toClear' \subseteq toClear
            /\ UNCHANGED <<file, temp, todo, pc, process>>
  <1>t. mem \in [Key -> Value \cup {None}] /\ \A k \in Key : ShardOf(k) \in Shard
    BY DEF IInv, DiskType, DiskAssumption
  <1>1. ASSUME NEW k \in Key, Delete(k)
        PROVE  /\ mem' \in [Key -> Value \cup {None}]
               /\ \A j \in Key : ShardOf(j) # ShardOf(k) => mem'[j] = mem[j]
    <2>1. mem' = [mem EXCEPT ![k] = None]
      BY <1>1 DEF Delete, Cache!Delete
    <2>2. QED
      BY <1>1, <1>t, <2>1
  <1>2. ASSUME NEW k \in Key, NEW v \in Value, Set(k, v)
        PROVE  /\ mem' \in [Key -> Value \cup {None}]
               /\ \A j \in Key : ShardOf(j) # ShardOf(k) => mem'[j] = mem[j]
    <2>1. Cache!Set(k, v)
      BY <1>2 DEF Set
    <2>2. \/ mem' = [mem EXCEPT ![k] = v]
          \/ \E old \in Key : /\ ShardOf(old) = ShardOf(k)
                              /\ mem' = [mem EXCEPT ![k] = v, ![old] = None]
      BY <2>1 DEF Cache!Set, Cache!Cached
    <2>3. QED
      BY <1>t, <2>2
  <1>3. ASSUME NEW s \in Shard, ClearShard(s)
        PROVE  /\ mem' \in [Key -> Value \cup {None}]
               /\ \A j \in Key : ShardOf(j) # s => mem'[j] = mem[j]
    BY <1>3, <1>t DEF ClearShard
  <1>4. QED
    BY <1>1, <1>2, <1>3, <1>t DEF CacheMoves, Set, Delete, ClearShard, Noted, saveVars, clearVars

\* A new history with at least what the old one had keeps the temporary files.
LEMMA CacheInv ==
  ASSUME IInv, CacheMoves
  PROVE  IInv'
  <1>1. PICK s0 \in Shard :
            /\ mem' \in [Key -> Value \cup {None}]
            /\ \A j \in Key : ShardOf(j) # s0 => mem'[j] = mem[j]
            /\ history' = [history EXCEPT ![s0] = @ \cup {ContentOf(mem', s0)}]
            /\ toClear' \subseteq toClear
            /\ UNCHANGED <<file, temp, todo, pc, process>>
    BY CacheStep
  <1>2. history \in [Shard -> SUBSET AnyContent]
          /\ \A s \in Shard : history[s] \subseteq Contents(s)
    BY DEF IInv, DiskType
  <1>3. ContentOf(mem', s0) \in Contents(s0) /\ ContentOf(mem', s0) \in AnyContent
    BY <1>1, ContentTyped
  <1>4. history' \in [Shard -> SUBSET AnyContent]
          /\ \A s \in Shard : history'[s] \subseteq Contents(s) /\ history[s] \subseteq history'[s]
    BY <1>1, <1>2, <1>3
  <1>5. DiskType'
    BY <1>1, <1>4 DEF IInv, DiskType
  <1>6. ASSUME NEW s \in Shard PROVE ContentOf(mem', s) \in history'[s]
    <2>1. CASE s = s0
      BY <1>1, <1>2, <2>1
    <2>2. CASE s # s0
      <3>1. ContentOf(mem', s) = ContentOf(mem, s)
        BY <1>1, <2>2 DEF ContentOf, KeysOf
      <3>2. QED
        BY <1>4, <3>1 DEF IInv, Streamed
    <2>3. QED
      BY <2>1, <2>2
  <1>7. \A e : \A s \in Shard : (Held(e, s) => Held(e, s)') /\ (PartHeld(e, s) => PartHeld(e, s)')
    BY <1>4 DEF Held, PartHeld
  <1>8. \A e : Cut(e) => Cut(e)'
    BY <1>7 DEF Cut
  <1>9. Streamed'
    BY <1>1, <1>6, <1>7, <1>8 DEF IInv, Streamed
  <1>10. QED
    BY <1>5, <1>9 DEF IInv

\* A file without a cut.
LEMMA HeldCut ==
  ASSUME DiskAssumption, NEW e, \A s \in Shard : Held(e[s], s)
  PROVE  Cut(e)
  BY DEF Cut, DiskAssumption

\* What is held stays held while nothing changes in the cache.
LEMMA StillHeld ==
  ASSUME UNCHANGED history
  PROVE  \A e : (\A s \in Shard : Held(e, s) => Held(e, s)') /\ (Cut(e) => Cut(e)')
  <1>1. \A e : \A s \in Shard : (Held(e, s) => Held(e, s)') /\ (PartHeld(e, s) => PartHeld(e, s)')
    BY DEF Held, PartHeld
  <1>2. QED
    BY <1>1 DEF Cut

\* A step that touches neither the entries nor the temporary files.
LEMMA SaveRests ==
  ASSUME IInv, UNCHANGED <<mem, file, temp, todo, history>>, toClear' \subseteq Shard,
         process' = "down" => process = "down" /\ toClear' = {} /\ UNCHANGED pc
  PROVE  IInv'
  <1>1. DiskType'
    BY DEF IInv, DiskType
  <1>2. \A f \in Saver : /\ Cut(temp'[f].entries)
                         /\ ~temp'[f].short => \A s \in Shard : Held(temp'[f].entries[s], s)
                         /\ temp'[f].short => todo'[f] = {}
    BY DEF IInv, Streamed
  <1>3. /\ \A s \in Shard : ContentOf(mem', s) \in history'[s]
        /\ process' = "down" =>
             temp' = [f \in Saver |-> Absent] /\ toClear' = {} /\ \A f \in Saver : pc'[f] = "idle"
    BY DEF IInv, Streamed
  <1>s. \A e : (\A s \in Shard : Held(e, s) => Held(e, s)') /\ (Cut(e) => Cut(e)')
    BY StillHeld
  <1>5. Streamed'
    BY <1>2, <1>3, <1>s DEF Streamed
  <1>6. QED
    BY <1>1, <1>5 DEF IInv

\* A step of a save that writes to its temporary file.
LEMMA TempInv ==
  ASSUME IInv, NEW f \in Saver, NEW c, temp' = [temp EXCEPT ![f] = c], IsFile(c),
         Cut(c.entries), ~c.short => \A s \in Shard : Held(c.entries[s], s),
         todo' \in [Saver -> SUBSET Shard], \A g \in Saver \ {f} : todo'[g] = todo[g],
         c.short => todo'[f] = {},
         process # "down", UNCHANGED <<mem, process, history, toClear>>,
         file' = file \/ file' = temp[f]
  PROVE  IInv'
  <1>1. /\ temp \in [Saver -> [format : Format, entries : [Shard -> AnyContent], short : BOOLEAN]]
        /\ IsFile(file) /\ \A g \in Saver : IsFile(temp[g])
    BY DEF IInv, DiskType
  <1>2. temp' \in [Saver -> [format : Format, entries : [Shard -> AnyContent], short : BOOLEAN]]
    BY <1>1 DEF IsFile
  <1>3. IsFile(file') /\ \A g \in Saver : IsFile(temp'[g])
    BY <1>1
  <1>4. DiskType'
    BY <1>2, <1>3 DEF IInv, DiskType
  <1>5. \A g \in Saver : temp'[g] = IF g = f THEN c ELSE temp[g]
    BY <1>1
  <1>6. \A e : (\A s \in Shard : Held(e, s) => Held(e, s)') /\ (Cut(e) => Cut(e)')
    BY StillHeld
  <1>7. ASSUME NEW g \in Saver
        PROVE  /\ Cut(temp'[g].entries)
               /\ ~temp'[g].short => \A s \in Shard : Held(temp'[g].entries[s], s)
               /\ temp'[g].short => todo'[g] = {}
    BY <1>5 DEF IInv, Streamed
  <1>8. \A s \in Shard : ContentOf(mem', s) \in history'[s]
    BY DEF IInv, Streamed
  <1>9. Streamed'
    BY <1>6, <1>7, <1>8 DEF Streamed
  <1>10. QED
    BY <1>4, <1>9 DEF IInv

\* Every step keeps the invariant.
LEMMA NextInv == IInv /\ [Next]_vars => IInv'
  <1> SUFFICES ASSUME IInv, [Next]_vars PROVE IInv'
    OBVIOUS
  <1>t. /\ IsFile(file) /\ \A f \in Saver : IsFile(temp[f])
        /\ \A f \in Saver : /\ Cut(temp[f].entries)
                            /\ ~temp[f].short => \A s \in Shard : Held(temp[f].entries[s], s)
                            /\ temp[f].short => todo[f] = {}
        /\ DiskAssumption
        /\ temp \in [Saver -> [format : Format, entries : [Shard -> AnyContent], short : BOOLEAN]]
    BY DEF IInv, DiskType, Streamed
  <1>n. todo \in [Saver -> SUBSET Shard]
    BY DEF IInv, DiskType
  <1>a. Cut(Absent.entries) /\ \A s \in Shard : Held(Absent.entries[s], s)
    BY <1>t, AbsentTyped, HeldCut DEF Held
  <1>1. CASE CacheMoves
    BY <1>1, CacheInv
  <1>c. CASE ClearBegin \/ ClearEnd
    <2>1. UNCHANGED <<mem, file, temp, todo, pc, process, history>> /\ toClear' \subseteq Shard
            /\ (process = "down" => UNCHANGED toClear)
      BY <1>c DEF ClearBegin, ClearEnd, saveVars, IInv, DiskType
    <2>2. QED
      BY <2>1, SaveRests DEF IInv, Streamed
  <1>2. ASSUME NEW f \in Saver, SaveBegin(f) PROVE IInv'
    <2> DEFINE c == [Absent EXCEPT !.format = "torn"]
    <2>1. c.entries = Absent.entries /\ c.short = FALSE
      BY DEF Absent
    <2>2. IsFile(c)
      BY <2>1, AbsentTyped DEF IsFile, Format
    <2>3. /\ temp' = [temp EXCEPT ![f] = c] /\ UNCHANGED <<mem, process, history, file, toClear>>
          /\ process # "down" /\ \A g \in Saver \ {f} : todo'[g] = todo[g]
          /\ todo' \in [Saver -> SUBSET Shard]
      BY <1>2, <1>n DEF SaveBegin, MaySave, clearVars
    <2> HIDE DEF c
    <2>4. QED
      BY <1>a, <2>1, <2>2, <2>3, TempInv
  <1>d. ASSUME NEW f \in Saver, pc[f] # "idle" PROVE process # "down"
    BY <1>d DEF IInv, Streamed
  <1>w. ASSUME NEW f \in Saver, NEW s \in todo[f], NEW e \in Contents(s), NEW short \in BOOLEAN,
               temp' = [temp EXCEPT ![f].entries[s] = e, ![f].short = short],
               IF short THEN PartHeld(e, s) /\ todo'[f] = {} ELSE Held(e, s),
               todo' \in [Saver -> SUBSET Shard], \A g \in Saver \ {f} : todo'[g] = todo[g],
               process # "down", UNCHANGED <<mem, process, history, file, toClear>>
        PROVE  IInv'
    <2> DEFINE c == [temp[f] EXCEPT !.entries[s] = e, !.short = short]
    <2>1. temp[f] \in [format : Format, entries : [Shard -> AnyContent], short : BOOLEAN]
      BY <1>t
    <2>2. temp' = [temp EXCEPT ![f] = c]
      BY <1>w, <1>t
    <2>r. c.entries = [temp[f].entries EXCEPT ![s] = e] /\ c.short = short
      BY <2>1
    <2>3. s \in Shard /\ ~temp[f].short
      BY <1>t, <1>n, <1>w
    <2>4. e \in AnyContent
      BY <2>3 DEF AnyContent
    <2>5. \A z \in Shard : c.entries[z] = IF z = s THEN e ELSE temp[f].entries[z]
      BY <2>1, <2>r
    <2>6. c \in [format : Format, entries : [Shard -> AnyContent], short : BOOLEAN] /\ c.short = short
      BY <2>1, <2>4, <2>r
    <2> HIDE DEF c
    <2>7. IsFile(c)
      BY <1>t, <2>5, <2>6 DEF IsFile
    <2>8. \A z \in Shard \ {s} : Held(c.entries[z], z)
      BY <1>t, <2>3, <2>5
    <2>9. Cut(c.entries)
      BY <1>w, <2>3, <2>5, <2>8 DEF Cut
    <2>10. ~c.short => \A z \in Shard : Held(c.entries[z], z)
      BY <1>w, <2>3, <2>5, <2>6, <2>8
    <2>11. QED
      BY <1>w, <2>2, <2>6, <2>7, <2>9, <2>10, TempInv
  <1>3. ASSUME NEW f \in Saver, NEW s \in Shard, SaveShard(f, s) PROVE IInv'
    <2> DEFINE e == ContentOf(mem, s)
    <2>1. e \in Contents(s) /\ Held(e, s)
      BY ContentTyped DEF IInv, DiskType, Streamed, Held
    <2>2. /\ temp' = [temp EXCEPT ![f].entries[s] = e] /\ s \in todo[f]
          /\ UNCHANGED <<mem, process, history, file, toClear>> /\ process # "down"
          /\ todo' \in [Saver -> SUBSET Shard] /\ \A g \in Saver \ {f} : todo'[g] = todo[g]
      BY <1>3, <1>d, <1>n DEF SaveShard, clearVars
    <2> HIDE DEF e
    <2>3. temp' = [temp EXCEPT ![f].entries[s] = e, ![f].short = FALSE]
      <3>1. temp[f] \in [format : Format, entries : [Shard -> AnyContent], short : BOOLEAN]
              /\ temp[f].short = FALSE
        BY <1>t, <2>2
      <3>2. QED
        BY <1>t, <2>2, <3>1
    <2>4. QED
      BY <1>w, <2>1, <2>2, <2>3
  <1>4. ASSUME NEW f \in Saver, EncodeFails(f) PROVE IInv'
    <2>1. PICK s \in todo[f] : \E keys \in SUBSET Cache!Cached(s) :
            temp' = [temp EXCEPT ![f].short = TRUE,
                                 ![f].entries[s] = [k \in KeysOf(s) |->
                                     IF k \in keys THEN mem[k] ELSE None]]
      BY <1>4 DEF EncodeFails
    <2>k. PICK keys \in SUBSET Cache!Cached(s) :
            temp' = [temp EXCEPT ![f].short = TRUE,
                                 ![f].entries[s] = [k \in KeysOf(s) |->
                                     IF k \in keys THEN mem[k] ELSE None]]
      BY <2>1
    <2> DEFINE e == [k \in KeysOf(s) |-> IF k \in keys THEN mem[k] ELSE None]
    <2>2. s \in Shard
      BY <1>n
    <2>3. e \in Contents(s) /\ ContentOf(mem, s) \in history[s]
      BY <2>2 DEF Contents, KeysOf, IInv, DiskType, Streamed
    <2>4. e \in Durable!Parts(s, ContentOf(mem, s))
      BY <2>3 DEF Durable!Parts, ContentOf, EmptyShard
    <2>5. PartHeld(e, s)
      BY <2>3, <2>4 DEF PartHeld
    <2>6. /\ UNCHANGED <<mem, process, history, file, toClear>> /\ process # "down"
          /\ todo'[f] = {} /\ \A g \in Saver \ {f} : todo'[g] = todo[g]
          /\ todo' \in [Saver -> SUBSET Shard]
      BY <1>4, <1>d, <1>n DEF EncodeFails, clearVars
    <2>7. temp' = [temp EXCEPT ![f].entries[s] = e, ![f].short = TRUE]
      BY <1>t, <2>k, <2>2
    <2> HIDE DEF e
    <2>8. QED
      BY <1>w, <2>3, <2>5, <2>6, <2>7
  <1>f. ASSUME NEW f \in Saver, SaveFooter(f) PROVE IInv'
    <2> DEFINE c == [temp[f] EXCEPT !.format = "new"]
    <2>1. temp' = [temp EXCEPT ![f] = c]
      BY <1>f DEF SaveFooter
    <2>2. UNCHANGED <<mem, process, history, file, todo, toClear>> /\ process # "down"
      BY <1>f, <1>d DEF SaveFooter, clearVars
    <2>3. c.entries = temp[f].entries /\ c.short = temp[f].short
            /\ c \in [format : Format, entries : [Shard -> AnyContent], short : BOOLEAN]
      BY <1>t DEF Format
    <2> HIDE DEF c
    <2>4. IsFile(c)
      BY <1>t, <2>3 DEF IsFile
    <2>5. QED
      BY <1>t, <1>n, <2>1, <2>2, <2>3, <2>4, TempInv
  <1>5. ASSUME NEW f \in Saver, Rename(f) \/ SaveFails(f) PROVE IInv'
    <2>1. /\ temp' = [temp EXCEPT ![f] = Absent] /\ UNCHANGED <<mem, process, history, toClear>>
          /\ file' = file \/ file' = temp[f]
          /\ process # "down" /\ \A g \in Saver \ {f} : todo'[g] = todo[g]
          /\ todo' \in [Saver -> SUBSET Shard]
      BY <1>5, <1>d, <1>n DEF Rename, SaveFails, clearVars
    <2>2. Absent.short = FALSE
      BY DEF Absent
    <2>3. QED
      BY <1>a, <2>1, <2>2, AbsentTyped, TempInv
  <1>6. ASSUME NEW f \in Saver, MarkSaved(f) PROVE IInv'
    <2>1. UNCHANGED <<mem, file, temp, todo, toClear, process, history>> /\ process # "down"
      BY <1>6, <1>d DEF MarkSaved, clearVars
    <2>2. QED
      BY <2>1, SaveRests DEF IInv, DiskType
  <1>e. /\ Cut(Absent.entries)' /\ Absent.short = FALSE
        /\ \A s \in Shard : Held(Absent.entries[s], s)'
    <2>1. \A s \in Shard : Held(Absent.entries[s], s)'
      BY AbsentTyped DEF Held
    <2>2. QED
      BY <1>t, <2>1 DEF Cut, DiskAssumption, Absent
  <1>7. CASE LoadFromDisk
    <2> DEFINE loaded == [k \in Key |-> IF DecodesToTheEnd(file)
                                        THEN file.entries[ShardOf(k)][k] ELSE None]
    <2>1. /\ mem' = loaded /\ history' = [s \in Shard |-> {ContentOf(loaded, s)}]
          /\ process' = "up" /\ temp' = [f \in Saver |-> Absent]
          /\ UNCHANGED <<file, temp, todo, toClear>>
      BY <1>7 DEF LoadFromDisk, saveVars, clearVars, IInv, Streamed
    <2>2. ASSUME NEW k \in Key PROVE file.entries[ShardOf(k)][k] \in Value \cup {None}
      <3>1. ShardOf(k) \in Shard
        BY DEF IInv, DiskAssumption
      <3>2. file.entries[ShardOf(k)] \in Contents(ShardOf(k))
        BY <1>t, <3>1 DEF IsFile
      <3>3. QED
        BY <3>2 DEF Contents, KeysOf
    <2>3. loaded \in [Key -> Value \cup {None}]
      BY <2>2
    <2> HIDE DEF loaded
    <2>4. \A s \in Shard : ContentOf(loaded, s) \in Contents(s) /\ ContentOf(loaded, s) \in AnyContent
      BY <2>3, ContentTyped
    <2>5. DiskType'
      BY <2>1, <2>3, <2>4 DEF IInv, DiskType
    <2>6. Streamed'
      BY <1>e, <2>1 DEF Streamed
    <2>7. QED
      BY <2>5, <2>6 DEF IInv
  <1>8. CASE Exit
    <2>1. /\ mem' = [k \in Key |-> None] /\ history' = [s \in Shard |-> {EmptyShard(s)}]
          /\ temp' = [f \in Saver |-> Absent] /\ pc' = [f \in Saver |-> "idle"]
          /\ todo' = [f \in Saver |-> {}] /\ toClear' = {} /\ UNCHANGED file
      BY <1>8 DEF Exit
    <2>2. \A s \in Shard : ContentOf(mem', s) = EmptyShard(s)
      BY <2>1 DEF ContentOf, EmptyShard, KeysOf
    <2>3. DiskType'
      BY <2>1, AbsentTyped, EmptyTyped DEF IInv, DiskType, IsFile
    <2>4. Streamed'
      BY <1>e, <2>1, <2>2 DEF Streamed
    <2>5. QED
      BY <2>3, <2>4 DEF IInv
  <1>9. CASE Shutdown \/ UNCHANGED vars
    <2>1. UNCHANGED <<mem, file, temp, todo, toClear, pc, history>>
            /\ (process' = "down" => process = "down")
      BY <1>9 DEF Shutdown, saveVars, clearVars, vars
    <2>2. QED
      BY <2>1, SaveRests DEF IInv, DiskType, Streamed
  <1>10. QED
    BY <1>1, <1>c, <1>2, <1>3, <1>4, <1>f, <1>5, <1>6, <1>7, <1>8, <1>9 DEF Next, CacheMoves

-----------------------------------------------------------------------------
(***************************************************************************)
(* The refinement.  A renaming is a save of the durable store, a change of *)
(* the cache is a change, a load or a crash is a restart, and everything   *)
(* else is invisible: also a save to dns_cache.json, and one that fails.   *)
(***************************************************************************)
dvars == <<file.entries, history>>

\* The durable store begins with a readable file and an empty cache.
LEMMA RefinesInit == DiskAssumption /\ Init => Durable!Init
  <1> SUFFICES ASSUME DiskAssumption, Init PROVE Durable!Init
    OBVIOUS
  <1>1. IInv
    BY InitInv
  <1>2. file.entries \in [Shard -> AnyContent]
          /\ \A s \in Shard : file.entries[s] \in Contents(s)
    BY <1>1 DEF IInv, DiskType, IsFile
  <1>3. history = [s \in Shard |-> {EmptyShard(s)}]
    BY DEF Init
  <1>4. QED
    BY <1>2, <1>3 DEF Durable!Init

\* Every step is a step of the durable store or leaves it alone.
LEMMA RefinesStep == IInv /\ [Next]_vars => [Durable!Next]_dvars
  <1> SUFFICES ASSUME IInv, [Next]_vars PROVE [Durable!Next]_dvars
    OBVIOUS
  <1>t. /\ file.entries \in [Shard -> AnyContent]
        /\ \A s \in Shard : file.entries[s] \in Contents(s)
    BY DEF IInv, DiskType, IsFile
  <1>1. CASE CacheMoves
    <2>1. PICK z \in Shard :
            /\ history' = [history EXCEPT ![z] = @ \cup {ContentOf(mem', z)}]
            /\ UNCHANGED file /\ mem' \in [Key -> Value \cup {None}]
      BY <1>1, CacheStep
    <2>2. ContentOf(mem', z) \in Contents(z)
      BY <2>1, ContentTyped
    <2>3. Durable!Change(z, ContentOf(mem', z))
      BY <2>1 DEF Durable!Change
    <2>4. QED
      BY <2>2, <2>3 DEF Durable!Next
  <1>2. ASSUME NEW f \in Saver, Rename(f) PROVE [Durable!Next]_dvars
    <2>1. file' = (IF f = "bin" THEN temp[f] ELSE file) /\ UNCHANGED history
      BY <1>2 DEF Rename
    <2>2. CASE f = "bin"
      <3>1. file'.entries = temp[f].entries
        BY <2>1, <2>2
      <3>2. DOMAIN temp[f].entries = Shard /\ Cut(temp[f].entries)
        BY DEF IInv, DiskType, Streamed, IsFile
      <3>3. Durable!Save
        BY <2>1, <3>1, <3>2 DEF Durable!Save, Cut, Held, PartHeld
      <3>4. QED
        BY <3>3 DEF Durable!Next
    <2>3. CASE f # "bin"
      BY <2>1, <2>3 DEF dvars
    <2>4. QED
      BY <2>2, <2>3
  <1>3. CASE LoadFromDisk
    <2> DEFINE loaded == [k \in Key |-> IF DecodesToTheEnd(file)
                                        THEN file.entries[ShardOf(k)][k] ELSE None]
    <2>1. history' = [s \in Shard |-> {ContentOf(loaded, s)}] /\ UNCHANGED file
      BY <1>3 DEF LoadFromDisk
    <2>2. CASE DecodesToTheEnd(file)
      <3>1. ASSUME NEW s \in Shard PROVE ContentOf(loaded, s) = file.entries[s]
        <4>1. file.entries[s] \in [KeysOf(s) -> Value \cup {None}]
          BY <1>t DEF Contents
        <4>2. \A k \in KeysOf(s) : loaded[k] = file.entries[s][k]
          BY <2>2 DEF KeysOf
        <4>3. QED
          BY <4>1, <4>2 DEF ContentOf
      <3>2. history' = [s \in Shard |-> {file.entries[s]}]
        BY <2>1, <3>1
      <3>3. QED
        BY <2>1, <3>2 DEF Durable!Restart, Durable!Next
    <2>3. CASE ~DecodesToTheEnd(file)
      <3>1. ASSUME NEW s \in Shard PROVE ContentOf(loaded, s) = EmptyShard(s)
        BY <2>3 DEF ContentOf, EmptyShard, KeysOf
      <3>2. history' = [s \in Shard |-> {EmptyShard(s)}]
        BY <2>1, <3>1
      <3>3. QED
        BY <2>1, <3>2 DEF Durable!Restart, Durable!Next
    <2>4. QED
      BY <2>2, <2>3
  <1>4. CASE Exit
    BY <1>4 DEF Exit, Durable!Restart, Durable!Next
  <1>5. CASE \/ \E f \in Saver : \/ SaveBegin(f) \/ EncodeFails(f) \/ SaveFooter(f)
                                 \/ SaveFails(f) \/ MarkSaved(f)
                                 \/ \E s \in Shard : SaveShard(f, s)
             \/ ClearBegin \/ ClearEnd \/ Shutdown \/ UNCHANGED vars
    BY <1>5 DEF SaveBegin, EncodeFails, SaveFooter, SaveFails, MarkSaved, SaveShard, ClearBegin,
                ClearEnd, Shutdown, vars, dvars
  <1>6. QED
    BY <1>1, <1>2, <1>3, <1>4, <1>5 DEF Next, CacheMoves

\* For any keys, values and shards, and whenever the process dies, dns_cache.bin
\* goes in one step from one completed save to the next, and a save holds, shard
\* by shard, contents that the running cache had, or a part of one and nothing of
\* others if an entry could not be encoded.
THEOREM SavesAreAtomic == DiskAssumption /\ Spec => AtomicSaves
  <1>1. DiskAssumption /\ Init => IInv /\ Durable!Init
    BY InitInv, RefinesInit
  <1>2. QED
    BY <1>1, NextInv, RefinesStep, PTL DEF Spec, AtomicSaves, Durable!Spec, dvars

-----------------------------------------------------------------------------
(***************************************************************************)
(* A skipped save loses no key.  The counter counts every key that comes   *)
(* or goes; a save reads it first.  So as long as it has not moved on, the *)
(* shards already written have the keys that the cache has; and it has     *)
(* moved on from the last save whenever a save is under way.  While a      *)
(* Clear is under way the shards may have lost keys that are not counted   *)
(* yet; its end moves the counter past every save that began before it.    *)
(***************************************************************************)
SaveStep == {"idle", "stream", "rename", "mark"}

Counters ==
    /\ dirty \in Nat /\ lastSavedDirty \in Nat /\ seenDirty \in [Saver -> Nat]
    /\ pc \in [Saver -> SaveStep] /\ todo \in [Saver -> SUBSET Shard]
    /\ toClear # {} => clearing

\* The keys that m holds of shard s are those of the content e.
SameKeys(m, e, s) == \A k \in KeysOf(s) : m[k] = None <=> e[k] = None

\* What is already written has the keys of the cache.
Written(c, shards) == \A s \in shards : SameKeys(mem, c.entries[s], s)

Ordered ==
    /\ pc["json"] = "idle"
    /\ lastSavedDirty <= dirty
    /\ pc["bin"] # "idle" => lastSavedDirty < seenDirty["bin"] /\ seenDirty["bin"] <= dirty
    /\ pc["bin"] = "rename" => todo["bin"] = {}

Matching == ~clearing =>
    /\ pc["bin"] \in {"stream", "rename"} /\ dirty = seenDirty["bin"] /\ ~temp["bin"].short
          => Written(temp["bin"], Shard \ todo["bin"])
    /\ pc["bin"] = "mark" /\ dirty = seenDirty["bin"] /\ ~file.short
          => Written(file, Shard)
    /\ pc["bin"] = "idle" /\ dirty = lastSavedDirty /\ dirty > 0
       /\ file.format = "new" /\ ~file.short
          => Written(file, Shard)

SInv == Counters /\ (process = "up" => Ordered /\ Matching)

\* The counter never goes back, and while it stands still Set and Delete neither
\* add nor remove a key.
LEMMA DirtyStep ==
  ASSUME IInv, SInv, NEW k \in Key, Delete(k) \/ \E v \in Value : Set(k, v)
  PROVE  /\ dirty' \in Nat /\ (dirty' = dirty \/ dirty' = dirty + 1)
         /\ dirty' = dirty => \A j \in Key : mem'[j] = None <=> mem[j] = None
         /\ UNCHANGED <<lastSavedDirty, file, pc, seenDirty, temp, todo, clearVars, process>>
  <1>t. mem \in [Key -> Value \cup {None}] /\ dirty \in Nat /\ None \notin Value
    BY DEF IInv, DiskType, DiskAssumption, SInv, Counters
  <1>1. CASE Delete(k)
    BY <1>1, <1>t DEF Delete, saveVars, clearVars
  <1>2. ASSUME NEW v \in Value, Set(k, v)
        PROVE  /\ dirty' \in Nat /\ (dirty' = dirty \/ dirty' = dirty + 1)
               /\ dirty' = dirty => \A j \in Key : mem'[j] = None <=> mem[j] = None
               /\ UNCHANGED <<lastSavedDirty, file, pc, seenDirty, temp, todo, clearVars, process>>
    <2>1. CASE mem[k] = None
      BY <1>2, <1>t, <2>1 DEF Set, saveVars, clearVars
    <2>2. CASE mem[k] # None
      <3>1. mem' = [mem EXCEPT ![k] = v] /\ dirty' = dirty
        BY <1>2, <2>2 DEF Set, Cache!Set
      <3>2. QED
        BY <1>2, <1>t, <2>2, <3>1 DEF Set, saveVars, clearVars
    <2>3. QED
      BY <2>1, <2>2
  <1>3. QED
    BY <1>1, <1>2

\* The invariant at the start.
LEMMA InitSkip == Init => SInv
  BY DEF Init, SInv, Counters, SaveStep

\* Every step keeps it.
LEMMA NextSkip == IInv /\ SInv /\ [Next]_vars => SInv'
  <1> SUFFICES ASSUME IInv, SInv, [Next]_vars PROVE SInv'
    OBVIOUS
  <1>b. "bin" \in Saver /\ "json" \in Saver /\ "bin" # "json"
          /\ \A f \in Saver : f = "bin" \/ f = "json"
    BY DEF Saver
  <1>c. Counters
    BY DEF SInv
  <1>t. /\ temp \in [Saver -> [format : Format, entries : [Shard -> AnyContent], short : BOOLEAN]]
        /\ file \in [format : Format, entries : [Shard -> AnyContent], short : BOOLEAN]
    BY DEF IInv, DiskType, IsFile
  <1>1. ASSUME NEW k \in Key, Delete(k) \/ \E v \in Value : Set(k, v) PROVE SInv'
    <2>1. /\ dirty' \in Nat /\ (dirty' = dirty \/ dirty' = dirty + 1)
          /\ dirty' = dirty => \A j \in Key : mem'[j] = None <=> mem[j] = None
          /\ UNCHANGED <<lastSavedDirty, file, pc, seenDirty, temp, todo, clearVars, process>>
      BY <1>1, DirtyStep
    <2>2. Counters'
      BY <1>c, <2>1 DEF Counters, clearVars
    <2>3. ASSUME process' = "up" PROVE Ordered' /\ Matching'
      <3>1. Ordered /\ Matching
        BY <2>1, <2>3 DEF SInv
      <3>2. dirty \in Nat /\ lastSavedDirty \in Nat /\ seenDirty["bin"] \in Nat
        BY <1>b, <1>c DEF Counters
      <3>3. Ordered'
        BY <2>1, <3>1, <3>2 DEF Ordered
      <3>4. CASE dirty' = dirty
        <4>1. \A j \in Key : mem'[j] = None <=> mem[j] = None
          BY <2>1, <3>4
        <4>2. \A e, s : SameKeys(mem, e, s) => SameKeys(mem', e, s)
          BY <4>1 DEF SameKeys, KeysOf
        <4>3. \A c, shards : Written(c, shards) => Written(c, shards)'
          BY <4>2 DEF Written
        <4>4. Matching'
          BY <2>1, <3>1, <3>4, <4>3 DEF Matching, clearVars
        <4>5. QED
          BY <3>3, <4>4
      <3>5. CASE dirty' = dirty + 1
        BY <2>1, <3>1, <3>2, <3>3, <3>5 DEF Ordered, Matching
      <3>6. QED
        BY <2>1, <3>4, <3>5
    <2>4. QED
      BY <2>2, <2>3 DEF SInv
  <1>u. ASSUME process' = "up", UNCHANGED process
        PROVE  /\ Ordered /\ Matching
               /\ dirty \in Nat /\ lastSavedDirty \in Nat /\ seenDirty["bin"] \in Nat
    BY <1>b, <1>c, <1>u DEF SInv, Counters
  <1>c1. CASE ClearBegin \/ \E s \in Shard : ClearShard(s)
    <2>1. /\ clearing'
          /\ UNCHANGED <<dirty, lastSavedDirty, file, pc, seenDirty, temp, todo, process>>
      BY <1>c, <1>c1 DEF Counters, ClearBegin, ClearShard, saveVars
    <2>2. Counters'
      BY <1>c, <2>1 DEF Counters
    <2>3. ASSUME process' = "up" PROVE Ordered' /\ Matching'
      BY <1>u, <2>1, <2>3 DEF Ordered, Matching
    <2>4. QED
      BY <2>2, <2>3 DEF SInv
  <1>c2. CASE ClearEnd
    <2>1. /\ dirty' = dirty + 1 /\ toClear' = {}
          /\ UNCHANGED <<mem, lastSavedDirty, file, pc, seenDirty, temp, todo, process>>
      BY <1>c2 DEF ClearEnd, saveVars
    <2>2. Counters'
      BY <1>c, <2>1 DEF Counters
    <2>3. ASSUME process' = "up" PROVE Ordered' /\ Matching'
      BY <1>u, <2>1, <2>3 DEF Ordered, Matching
    <2>4. QED
      BY <2>2, <2>3 DEF SInv
  <1>2. ASSUME NEW f \in Saver, SaveBegin(f) PROVE SInv'
    <2>1. /\ process = (IF f = "bin" THEN "up" ELSE "stopping") /\ dirty # lastSavedDirty
          /\ seenDirty' = [seenDirty EXCEPT ![f] = dirty]
          /\ todo' = [todo EXCEPT ![f] = Shard] /\ pc' = [pc EXCEPT ![f] = "stream"]
          /\ UNCHANGED <<dirty, lastSavedDirty, clearVars, process>>
      BY <1>2 DEF SaveBegin, MaySave
    <2>2. Counters'
      BY <1>c, <2>1 DEF clearVars, Counters, SaveStep
    <2>3. ASSUME process' = "up" PROVE Ordered' /\ Matching'
      <3>1. f = "bin" /\ process = "up"
        BY <2>1, <2>3
      <3>2. pc'["bin"] = "stream" /\ pc'["json"] = pc["json"] /\ todo'["bin"] = Shard
              /\ seenDirty'["bin"] = dirty
        BY <1>b, <1>c, <2>1, <3>1 DEF clearVars, Counters
      <3>3. Ordered'
        BY <1>u, <2>1, <2>3, <3>2 DEF clearVars, Ordered
      <3>4. Matching'
        BY <3>2 DEF clearVars, Matching, Written
      <3>5. QED
        BY <3>3, <3>4
    <2>4. QED
      BY <2>2, <2>3 DEF SInv
  <1>j. ASSUME NEW f \in Saver, pc[f] # "idle", process' = "up", UNCHANGED process
        PROVE  f = "bin"
    BY <1>b, <1>j, <1>u DEF clearVars, Ordered
  <1>3. ASSUME NEW f \in Saver, NEW s \in Shard, SaveShard(f, s) PROVE SInv'
    <2>1. /\ pc[f] = "stream"
          /\ temp' = [temp EXCEPT ![f].entries[s] = ContentOf(mem, s)]
          /\ todo' = [todo EXCEPT ![f] = @ \ {s}]
          /\ UNCHANGED <<mem, dirty, lastSavedDirty, file, pc, seenDirty, clearVars, process>>
      BY <1>3 DEF SaveShard
    <2>2. Counters'
      BY <1>c, <2>1 DEF clearVars, Counters
    <2>3. ASSUME process' = "up" PROVE Ordered' /\ Matching'
      <3>1. f = "bin"
        BY <1>j, <2>1, <2>3
      <3>2. todo'["bin"] = todo["bin"] \ {s} /\ temp'["bin"].short = temp["bin"].short
        BY <1>b, <1>c, <1>t, <2>1, <3>1 DEF clearVars, Counters
      <3>3. \A z \in Shard : temp'["bin"].entries[z] =
                IF z = s THEN ContentOf(mem, s) ELSE temp["bin"].entries[z]
        <4>1. temp["bin"].entries \in [Shard -> AnyContent]
          BY <1>b, <1>t
        <4>2. temp'["bin"].entries = [temp["bin"].entries EXCEPT ![s] = ContentOf(mem, s)]
          BY <1>b, <1>t, <2>1, <3>1
        <4>3. QED
          BY <4>1, <4>2
      <3>4. SameKeys(mem, ContentOf(mem, s), s)
        BY DEF SameKeys, ContentOf
      <3>5. Written(temp["bin"], Shard \ todo["bin"]) => Written(temp["bin"], Shard \ todo["bin"])'
        BY <2>1, <3>2, <3>3, <3>4 DEF Written
      <3>6. Ordered'
        BY <1>u, <2>1, <2>3, <3>1 DEF clearVars, Ordered
      <3>7. Matching'
        BY <1>u, <2>1, <2>3, <3>1, <3>2, <3>5 DEF clearVars, Matching
      <3>8. QED
        BY <3>6, <3>7
    <2>4. QED
      BY <2>2, <2>3 DEF SInv
  <1>4. ASSUME NEW f \in Saver, EncodeFails(f) PROVE SInv'
    <2>1. /\ pc[f] = "stream"
          /\ \E e : \E s \in Shard : temp' = [temp EXCEPT ![f].short = TRUE, ![f].entries[s] = e]
          /\ todo' = [todo EXCEPT ![f] = {}]
          /\ UNCHANGED <<mem, dirty, lastSavedDirty, file, pc, seenDirty, clearVars, process>>
      BY <1>4, <1>c DEF EncodeFails, Counters
    <2>2. Counters'
      BY <1>c, <2>1 DEF clearVars, Counters
    <2>3. ASSUME process' = "up" PROVE Ordered' /\ Matching'
      <3>1. f = "bin"
        BY <1>j, <2>1, <2>3
      <3>2. temp'["bin"].short = TRUE /\ pc'["bin"] = "stream"
        BY <1>b, <1>t, <2>1, <3>1
      <3>3. Ordered'
        BY <1>u, <2>1, <2>3, <3>1, <3>2 DEF clearVars, Ordered
      <3>4. Matching'
        BY <3>2 DEF clearVars, Matching
      <3>5. QED
        BY <3>3, <3>4
    <2>4. QED
      BY <2>2, <2>3 DEF SInv
  <1>5. ASSUME NEW f \in Saver, SaveFooter(f) PROVE SInv'
    <2>1. /\ pc[f] = "stream" /\ todo[f] = {}
          /\ temp' = [temp EXCEPT ![f].format = "new"] /\ pc' = [pc EXCEPT ![f] = "rename"]
          /\ UNCHANGED <<mem, dirty, lastSavedDirty, file, seenDirty, todo, clearVars, process>>
      BY <1>5 DEF SaveFooter
    <2>2. Counters'
      BY <1>c, <2>1 DEF clearVars, Counters, SaveStep
    <2>3. ASSUME process' = "up" PROVE Ordered' /\ Matching'
      <3>1. f = "bin"
        BY <1>j, <2>1, <2>3
      <3>2. /\ temp'["bin"].short = temp["bin"].short
            /\ temp'["bin"].entries = temp["bin"].entries
            /\ pc'["bin"] = "rename" /\ pc'["json"] = pc["json"]
        BY <1>b, <1>c, <1>t, <2>1, <3>1 DEF clearVars, Counters
      <3>3. Ordered'
        BY <1>u, <2>1, <2>3, <3>1, <3>2 DEF clearVars, Ordered
      <3>4. Matching'
        BY <1>u, <2>1, <2>3, <3>1, <3>2 DEF clearVars, Matching, Written
      <3>5. QED
        BY <3>3, <3>4
    <2>4. QED
      BY <2>2, <2>3 DEF SInv
  <1>6. ASSUME NEW f \in Saver, Rename(f) PROVE SInv'
    <2>1. /\ pc[f] = "rename" /\ file' = IF f = "bin" THEN temp[f] ELSE file
          /\ pc' = [pc EXCEPT ![f] = "mark"]
          /\ UNCHANGED <<mem, dirty, lastSavedDirty, seenDirty, todo, clearVars, process>>
      BY <1>6 DEF Rename
    <2>2. Counters'
      BY <1>c, <2>1 DEF clearVars, Counters, SaveStep
    <2>3. ASSUME process' = "up" PROVE Ordered' /\ Matching'
      <3>1. f = "bin"
        BY <1>j, <2>1, <2>3
      <3>2. file' = temp["bin"] /\ pc'["bin"] = "mark" /\ pc'["json"] = pc["json"]
        BY <1>b, <1>c, <1>t, <2>1, <3>1 DEF clearVars, Counters
      <3>3. todo["bin"] = {} /\ Shard \ todo["bin"] = Shard
        BY <1>u, <2>1, <2>3, <3>1 DEF clearVars, Ordered
      <3>4. Ordered'
        BY <1>u, <2>1, <2>3, <3>1, <3>2 DEF clearVars, Ordered
      <3>5. Matching'
        BY <1>u, <2>1, <2>3, <3>1, <3>2, <3>3 DEF clearVars, Matching, Written
      <3>6. QED
        BY <3>4, <3>5
    <2>4. QED
      BY <2>2, <2>3 DEF SInv
  <1>7. ASSUME NEW f \in Saver, SaveFails(f) PROVE SInv'
    <2>1. /\ pc[f] \in {"stream", "rename"} /\ pc' = [pc EXCEPT ![f] = "idle"]
          /\ todo' = [todo EXCEPT ![f] = {}] /\ seenDirty' = [seenDirty EXCEPT ![f] = 0]
          /\ UNCHANGED <<dirty, lastSavedDirty, clearVars, process>>
      BY <1>7 DEF SaveFails
    <2>2. Counters'
      BY <1>c, <2>1 DEF clearVars, Counters, SaveStep
    <2>3. ASSUME process' = "up" PROVE Ordered' /\ Matching'
      <3>1. f = "bin"
        BY <1>j, <2>1, <2>3
      <3>2. pc'["bin"] = "idle" /\ pc'["json"] = pc["json"]
        BY <1>b, <1>c, <2>1, <3>1 DEF clearVars, Counters
      <3>3. lastSavedDirty < dirty
        BY <1>u, <2>1, <2>3, <3>1 DEF clearVars, Ordered
      <3>4. QED
        BY <1>u, <2>1, <2>3, <3>2, <3>3 DEF clearVars, Ordered, Matching
    <2>4. QED
      BY <2>2, <2>3 DEF SInv
  <1>8. ASSUME NEW f \in Saver, MarkSaved(f) PROVE SInv'
    <2>1. /\ pc[f] = "mark" /\ lastSavedDirty' = seenDirty[f] /\ pc' = [pc EXCEPT ![f] = "idle"]
          /\ seenDirty' = [seenDirty EXCEPT ![f] = 0]
          /\ UNCHANGED <<mem, dirty, file, temp, todo, clearVars, process>>
      BY <1>8 DEF MarkSaved
    <2>2. Counters'
      BY <1>c, <2>1 DEF clearVars, Counters, SaveStep
    <2>3. ASSUME process' = "up" PROVE Ordered' /\ Matching'
      <3>1. f = "bin"
        BY <1>j, <2>1, <2>3
      <3>2. pc'["bin"] = "idle" /\ pc'["json"] = pc["json"]
        BY <1>b, <1>c, <2>1, <3>1 DEF clearVars, Counters
      <3>3. Ordered'
        BY <1>u, <2>1, <2>3, <3>1, <3>2 DEF clearVars, Ordered
      <3>4. Matching'
        BY <1>u, <2>1, <2>3, <3>1, <3>2 DEF clearVars, Matching, Written
      <3>5. QED
        BY <3>3, <3>4
    <2>4. QED
      BY <2>2, <2>3 DEF SInv
  <1>9. CASE LoadFromDisk
    <2> DEFINE loaded == [k \in Key |-> IF DecodesToTheEnd(file)
                                        THEN file.entries[ShardOf(k)][k] ELSE None]
    <2> DEFINE keys == {k \in Key : loaded[k] # None}
    <2>1. /\ process = "down" /\ dirty' = Cardinality(keys) /\ lastSavedDirty' = Cardinality(keys)
          /\ UNCHANGED <<file, pc, seenDirty, temp, todo, clearVars>>
      BY <1>9 DEF LoadFromDisk, saveVars
    <2>2. Cardinality(keys) \in Nat
      <3>1. IsFiniteSet(Key) /\ keys \in SUBSET Key
        BY DEF IInv, DiskAssumption
      <3>2. QED
        BY <3>1, FS_Subset, FS_CardinalityType
    <2>3. Counters'
      BY <1>c, <2>1, <2>2 DEF clearVars, Counters
    <2>4. pc["bin"] = "idle" /\ pc["json"] = "idle"
      BY <1>b, <2>1 DEF IInv, Streamed
    <2>5. file.format = "new" => dirty' = 0
      <3>1. file.format = "new" => keys = {}
        BY DEF DecodesToTheEnd
      <3>2. QED
        BY <2>1, <3>1, FS_EmptySet
    <2>6. Ordered' /\ Matching'
      BY <2>1, <2>2, <2>4, <2>5 DEF clearVars, Ordered, Matching
    <2>7. QED
      BY <2>3, <2>6 DEF SInv
  <1>10. CASE Exit
    BY <1>10 DEF Exit, SInv, clearVars, Counters, SaveStep
  <1>11. CASE Shutdown
    BY <1>c, <1>11 DEF Shutdown, saveVars, SInv, clearVars, Counters
  <1>12. CASE UNCHANGED vars
    BY <1>12 DEF vars, SInv, clearVars, Counters, clearVars, Ordered, Matching, Written
  <1>13. QED
    BY <1>1, <1>c1, <1>c2, <1>2, <1>3, <1>4, <1>5, <1>6, <1>7, <1>8, <1>9, <1>10, <1>11, <1>12
       DEF Next

\* If the periodic save is skipped because the counter has not moved, and no
\* Clear is under way, the file has the keys of the cache, however the cache
\* changed and was cleared while the file was written, for any keys, values and
\* shards.
THEOREM SkippedSaveIsHarmless == DiskAssumption /\ Spec => []SkipLosesNoKey
  <1>1. IInv /\ SInv => SkipLosesNoKey
    <2> SUFFICES ASSUME IInv, SInv, Skipped, ~clearing, NEW k \in Key
                 PROVE  (mem[k] = None) = (file.entries[ShardOf(k)][k] = None)
      BY DEF SkipLosesNoKey, SameKeysOnDisk
    <2>1. Written(file, Shard)
      BY DEF Skipped, SInv, Matching, Saver
    <2>2. ShardOf(k) \in Shard /\ k \in KeysOf(ShardOf(k))
      BY DEF IInv, DiskAssumption, KeysOf
    <2>3. QED
      BY <2>1, <2>2 DEF Written, SameKeys
  <1>2. QED
    BY <1>1, InitInv, NextInv, InitSkip, NextSkip, PTL DEF Spec

-----------------------------------------------------------------------------
(* The lists of the LRU caches.                                            *)

IsList(l) ==
    /\ l.prev \in [LRUKey -> LRUKey \cup {None}] /\ l.next \in [LRUKey -> LRUKey \cup {None}]
    /\ l.head \in [LRUShard -> LRUKey \cup {None}] /\ l.tail \in [LRUShard -> LRUKey \cup {None}]
    /\ l.len \in [LRUShard -> Int]

\* The two instances of FiniteSets count alike.
LEMMA SameCount == \A S : LRU!Cardinality(S) = Cardinality(S)
  BY DEF Cardinality, LRU!Cardinality

\* A push leaves pointers in every place.
LEMMA PushTyped ==
  ASSUME NEW l, IsList(l), NEW s \in LRUShard, NEW k \in LRUKey
  PROVE  IsList(LRU!pushFront(l, s, k))
  BY DEF IsList, LRU!pushFront

\* So does a removal.
LEMMA RemoveTyped ==
  ASSUME NEW l, IsList(l), NEW s \in LRUShard, NEW k \in LRUKey
  PROVE  IsList(LRU!remove(l, s, k))
  BY DEF IsList, LRU!remove

\* A new node in front: the list has one node more, and is linked as before.
LEMMA PushLinks ==
  ASSUME NEW l, IsList(l), NEW s \in LRUShard, NEW k \in LRUKey, None \notin LRUKey,
         NEW ks \in SUBSET LRUKey, k \notin ks, IsFiniteSet(ks), LRU!Linked(l, s, ks)
  PROVE  LRU!Linked(LRU!pushFront(l, s, k), s, ks \cup {k})
  <1> DEFINE m == LRU!pushFront(l, s, k)
  <1> DEFINE h == l.head[s]
  <1>0. l.head[s] \in LRUKey \cup {None} /\ l.tail[s] \in LRUKey \cup {None} /\ l.len[s] \in Int
    BY DEF IsList
  <1>1. /\ m.prev = [n \in LRUKey |-> IF n = k THEN None ELSE IF n = h THEN k ELSE l.prev[n]]
        /\ m.next = [l.next EXCEPT ![k] = h] /\ m.head[s] = k
        /\ m.tail[s] = (IF l.tail[s] = None THEN k ELSE l.tail[s])
        /\ m.len[s] = l.len[s] + 1
    BY DEF LRU!pushFront, IsList
  <1>2. \A n \in ks : m.next[n] = l.next[n] /\ m.prev[n] = IF n = h THEN k ELSE l.prev[n]
    BY <1>1 DEF IsList
  <1>3. m.prev[k] = None /\ m.next[k] = h
    BY <1>1 DEF IsList
  <1> HIDE DEF m
  <1>4. LRU!Chained(l, s, ks) /\ LRU!Reached(l, s, ks) /\ l.len[s] = Cardinality(ks)
    BY SameCount DEF LRU!Linked
  <1>5. m.len[s] = Cardinality(ks \cup {k})
    <2>1. Cardinality(ks \cup {k}) = Cardinality(ks) + 1
      BY FS_AddElement
    <2>2. QED
      BY <2>1, <1>1, <1>4
  <1>6. LRU!Chained(m, s, ks \cup {k})
    <2>1. CASE ks = {}
      BY <2>1, <1>0, <1>1, <1>3, <1>4 DEF LRU!Chained
    <2>2. CASE ks # {}
      <3>1. h \in ks /\ l.tail[s] \in ks /\ m.tail[s] = l.tail[s] /\ m.head[s] = k /\ h # k
        BY <2>2, <1>1, <1>4 DEF LRU!Chained
      <3>2. m.prev[h] = k
        BY <3>1, <1>2
      <3>3. ASSUME NEW n \in ks
            PROVE  /\ m.prev[n] \in ks \cup {k} /\ m.next[m.prev[n]] = n
                   /\ IF m.tail[s] = n THEN m.next[n] = None
                      ELSE m.next[n] \in ks \cup {k} /\ m.prev[m.next[n]] = n
        <4>1. CASE n = h
          <5>1. m.prev[n] \in ks \cup {k} /\ m.next[m.prev[n]] = n
            BY <4>1, <3>2, <1>3
          <5>2. l.tail[s] # n => l.next[n] \in ks /\ l.next[n] # h /\ l.prev[l.next[n]] = n
            BY <4>1, <1>4, <3>1 DEF LRU!Chained
          <5>3. QED
            BY <5>1, <5>2, <1>2, <1>4, <3>1 DEF LRU!Chained
        <4>2. CASE n # h
          <5>1. l.prev[n] \in ks /\ l.next[l.prev[n]] = n
            BY <4>2, <1>4 DEF LRU!Chained
          <5>2. l.tail[s] # n => l.next[n] \in ks /\ l.prev[l.next[n]] = n /\ l.next[n] # h
            BY <1>4, <3>1 DEF LRU!Chained
          <5>3. QED
            BY <4>2, <5>1, <5>2, <1>2, <1>4, <3>1 DEF LRU!Chained
        <4>3. QED
          BY <4>1, <4>2
      <3>4. QED
        BY <3>1, <3>2, <3>3, <1>3 DEF LRU!Chained
    <2>3. QED
      BY <2>1, <2>2
  <1>7. LRU!Reached(m, s, ks \cup {k})
    <2> SUFFICES ASSUME NEW met \in SUBSET (ks \cup {k}), m.head[s] \in met \cup {None},
                        \A n \in met : m.next[n] \in met \cup {None}
                 PROVE  met = ks \cup {k}
      BY DEF LRU!Reached
    <2>1. k \in met
      BY <1>1
    <2>2. h \in (met \ {k}) \cup {None}
      BY <2>1, <1>3, <1>4 DEF LRU!Chained
    <2>3. \A n \in met \ {k} : l.next[n] \in (met \ {k}) \cup {None}
      BY <1>2, <1>4 DEF LRU!Chained
    <2>4. met \ {k} = ks
      BY <2>2, <2>3, <1>4 DEF LRU!Reached
    <2>5. QED
      BY <2>1, <2>4
  <1>8. QED
    BY <1>5, <1>6, <1>7, SameCount DEF LRU!Linked, m

\* Taking a node out.
LEMMA RemoveLinks ==
  ASSUME NEW l, IsList(l), NEW s \in LRUShard, NEW ks \in SUBSET LRUKey, NEW k \in ks,
         None \notin LRUKey, IsFiniteSet(ks), LRU!Linked(l, s, ks)
  PROVE  LRU!Linked(LRU!remove(l, s, k), s, ks \ {k})
  <1> DEFINE m == LRU!remove(l, s, k)
  <1> DEFINE p == l.prev[k]
  <1> DEFINE q == l.next[k]
  <1>0. p \in LRUKey \cup {None} /\ q \in LRUKey \cup {None} /\ l.len[s] \in Int
    BY DEF IsList
  <1>1. /\ m.head[s] = (IF p = None THEN q ELSE l.head[s])
        /\ m.tail[s] = (IF q = None THEN p ELSE l.tail[s])
        /\ m.len[s] = l.len[s] - 1
    BY DEF LRU!remove, IsList
  <1>2. \A n \in ks : /\ m.next[n] = (IF n = p THEN q ELSE l.next[n])
                      /\ m.prev[n] = (IF n = q THEN p ELSE l.prev[n])
    BY DEF LRU!remove
  <1> HIDE DEF m
  <1>4. LRU!Chained(l, s, ks) /\ LRU!Reached(l, s, ks) /\ l.len[s] = Cardinality(ks)
    BY SameCount DEF LRU!Linked
  <1>5. m.len[s] = Cardinality(ks \ {k})
    <2>1. Cardinality(ks \ {k}) = Cardinality(ks) - 1
      BY FS_RemoveElement
    <2>2. QED
      BY <2>1, <1>1, <1>4
  <1>6. /\ (p = None) <=> (l.head[s] = k)
        /\ (q = None) <=> (l.tail[s] = k)
        /\ p # None => p \in ks \ {k} /\ l.next[p] = k
        /\ q # None => q \in ks \ {k} /\ l.prev[q] = k
    <2>1. /\ (p = None) <=> (l.head[s] = k)
          /\ p # None => p \in ks /\ l.next[p] = k
      BY <1>4 DEF LRU!Chained
    <2>2. /\ (q = None) <=> (l.tail[s] = k)
          /\ q # None => q \in ks /\ l.prev[q] = k
      BY <1>4 DEF LRU!Chained
    <2>3. p # k
      \* A node before itself would never be reached from head.
      <3> SUFFICES ASSUME p = k PROVE FALSE
        OBVIOUS
      <3>1. l.head[s] \in (ks \ {k}) \cup {None}
        BY <2>1, <1>4 DEF LRU!Chained
      <3>2. \A n \in ks \ {k} : l.next[n] \in (ks \ {k}) \cup {None}
        BY <1>4 DEF LRU!Chained
      <3>3. ks \ {k} = ks
        BY <3>1, <3>2, <1>4 DEF LRU!Reached
      <3>4. QED
        BY <3>3
    <2>4. q # k
      BY <2>1, <2>2, <2>3
    <2>5. QED
      BY <2>1, <2>2, <2>3, <2>4
  <1>7. LRU!Chained(m, s, ks \ {k})
    <2>1. IF ks \ {k} = {} THEN m.head[s] = None /\ m.tail[s] = None
                           ELSE m.head[s] \in ks \ {k} /\ m.tail[s] \in ks \ {k}
      <3>1. l.head[s] \in ks /\ l.tail[s] \in ks
        BY <1>4 DEF LRU!Chained
      <3>2. CASE ks \ {k} = {}
        BY <3>1, <3>2, <1>1, <1>6
      <3>3. CASE ks \ {k} # {}
        \* A node whose two pointers are None would be all that is reached.
        <4>1. ~(p = None /\ q = None)
          <5> SUFFICES ASSUME p = None, q = None PROVE FALSE
            OBVIOUS
          <5>1. {k} \in SUBSET ks /\ l.head[s] \in {k} \cup {None}
            BY <1>6
          <5>2. \A n \in {k} : l.next[n] \in {k} \cup {None}
            OBVIOUS
          <5>3. {k} = ks
            BY <5>1, <5>2, <1>4 DEF LRU!Reached
          <5>4. QED
            BY <3>3, <5>3
        <4>2. QED
          BY <3>1, <3>3, <4>1, <1>1, <1>6
      <3>4. QED
        BY <3>2, <3>3
    <2>2. ASSUME NEW n \in ks \ {k}
          PROVE  IF m.head[s] = n THEN m.prev[n] = None
                 ELSE m.prev[n] \in ks \ {k} /\ m.next[m.prev[n]] = n
      <3>1. CASE n = q
        <4>1. m.prev[n] = p
          BY <3>1, <1>2
        <4>2. CASE p = None
          BY <4>1, <4>2, <3>1, <1>1
        <4>3. CASE p # None
          BY <4>1, <4>3, <3>1, <1>1, <1>2, <1>4, <1>6 DEF LRU!Chained
        <4>4. QED
          BY <4>2, <4>3
      <3>2. CASE n # q
        <4>1. m.prev[n] = l.prev[n]
          BY <3>2, <1>2
        <4>2. CASE l.head[s] = n
          BY <4>1, <4>2, <1>1, <1>4, <1>6 DEF LRU!Chained
        <4>3. CASE l.head[s] # n
          <5>1. l.prev[n] \in ks /\ l.next[l.prev[n]] = n
            BY <4>3, <1>4 DEF LRU!Chained
          <5>2. l.prev[n] # k /\ l.prev[n] # p
            BY <5>1, <3>2, <1>6
          <5>3. QED
            BY <4>1, <4>3, <5>1, <5>2, <1>1, <1>2, <3>2
        <4>4. QED
          BY <4>2, <4>3
      <3>3. QED
        BY <3>1, <3>2
    <2>3. ASSUME NEW n \in ks \ {k}
          PROVE  IF m.tail[s] = n THEN m.next[n] = None
                 ELSE m.next[n] \in ks \ {k} /\ m.prev[m.next[n]] = n
      <3>1. CASE n = p
        <4>1. m.next[n] = q
          BY <3>1, <1>2
        <4>2. CASE q = None
          BY <4>1, <4>2, <3>1, <1>1
        <4>3. CASE q # None
          BY <4>1, <4>3, <3>1, <1>1, <1>2, <1>4, <1>6 DEF LRU!Chained
        <4>4. QED
          BY <4>2, <4>3
      <3>2. CASE n # p
        <4>1. m.next[n] = l.next[n]
          BY <3>2, <1>2
        <4>2. CASE l.tail[s] = n
          BY <4>1, <4>2, <1>1, <1>4, <1>6 DEF LRU!Chained
        <4>3. CASE l.tail[s] # n
          <5>1. l.next[n] \in ks /\ l.prev[l.next[n]] = n
            BY <4>3, <1>4 DEF LRU!Chained
          <5>2. l.next[n] # k /\ l.next[n] # q
            BY <5>1, <3>2, <1>6
          <5>3. QED
            BY <4>1, <4>3, <5>1, <5>2, <1>1, <1>2, <3>2
        <4>4. QED
          BY <4>2, <4>3
      <3>3. QED
        BY <3>1, <3>2
    <2>4. QED
      BY <2>1, <2>2, <2>3 DEF LRU!Chained
  <1>8. LRU!Reached(m, s, ks \ {k})
    <2> SUFFICES ASSUME NEW met \in SUBSET (ks \ {k}), m.head[s] \in met \cup {None},
                        \A n \in met : m.next[n] \in met \cup {None}
                 PROVE  met = ks \ {k}
      BY DEF LRU!Reached
    <2>1. CASE p = None \/ p \in met
      \* The predecessor was met, so the node would have been.
      <3>1. l.head[s] \in (met \cup {k}) \cup {None}
        BY <2>1, <1>1, <1>6
      <3>2. q \in met \cup {None}
        BY <2>1, <1>1, <1>2
      <3>3. \A n \in met \cup {k} : l.next[n] \in (met \cup {k}) \cup {None}
        BY <3>2, <1>2, <1>6
      <3>4. met \cup {k} = ks
        <4>1. met \cup {k} \in SUBSET ks
          OBVIOUS
        <4>2. QED
          BY <4>1, <3>1, <3>3, <1>4 DEF LRU!Reached
      <3>5. QED
        BY <3>4
    <2>2. CASE p # None /\ p \notin met
      <3>1. l.head[s] \in met \cup {None}
        BY <2>2, <1>1
      <3>2. \A n \in met : l.next[n] \in met \cup {None}
        BY <2>2, <1>2
      <3>3. met = ks
        BY <3>1, <3>2, <1>4 DEF LRU!Reached
      <3>4. QED
        BY <3>3
    <2>3. QED
      BY <2>1, <2>2
  <1>9. QED
    BY <1>5, <1>7, <1>8, SameCount DEF LRU!Linked, m

-----------------------------------------------------------------------------
(* All lists of a cache whose map is v.                                    *)

CachedIn(v, s) == {k \in LRUKey : LRUShardOf(k) = s /\ v[k] # None}

\* Every shard has a list of its nodes.
ListsOf(l, v) ==
    /\ IsList(l) /\ v \in [LRUKey -> LRUValue \cup {None}]
    /\ \A s \in LRUShard : LRU!Linked(l, s, CachedIn(v, s)) /\ IsFiniteSet(CachedIn(v, s))

\* A list whose part of a shard is not touched keeps it.
LEMMA Untouched ==
  ASSUME NEW l, NEW m, NEW t \in LRUShard, NEW ks \in SUBSET LRUKey, LRU!Linked(l, t, ks),
         m.head[t] = l.head[t], m.tail[t] = l.tail[t], m.len[t] = l.len[t],
         \A n \in ks : m.prev[n] = l.prev[n] /\ m.next[n] = l.next[n]
  PROVE  LRU!Linked(m, t, ks)
  <1>1. LRU!Chained(m, t, ks)
    BY DEF LRU!Linked, LRU!Chained
  <1>2. LRU!Reached(m, t, ks)
    <2> SUFFICES ASSUME NEW met \in SUBSET ks, m.head[t] \in met \cup {None},
                        \A k \in met : m.next[k] \in met \cup {None}
                 PROVE  met = ks
      BY DEF LRU!Reached
    <2>1. l.head[t] \in met \cup {None} /\ \A k \in met : l.next[k] \in met \cup {None}
      OBVIOUS
    <2>2. QED
      BY <2>1 DEF LRU!Linked, LRU!Reached
  <1>3. QED
    BY <1>1, <1>2 DEF LRU!Linked

\* pushFront of a new key.
LEMMA PushLists ==
  ASSUME LRU!CacheAssumption, NEW l, NEW v, ListsOf(l, v),
         NEW k \in LRUKey, v[k] = None, NEW w \in LRUValue
  PROVE  ListsOf(LRU!pushFront(l, LRUShardOf(k), k), [v EXCEPT ![k] = w])
  <1> DEFINE s == LRUShardOf(k)
  <1> DEFINE m == LRU!pushFront(l, s, k)
  <1> DEFINE u == [v EXCEPT ![k] = w]
  <1>1. s \in LRUShard /\ None \notin LRUKey /\ w # None /\ IsList(l) /\ v \in [LRUKey -> LRUValue \cup {None}]
    BY DEF LRU!CacheAssumption, ListsOf
  <1>2. IsList(m) /\ u \in [LRUKey -> LRUValue \cup {None}]
    BY <1>1, PushTyped
  <1>3. CachedIn(u, s) = CachedIn(v, s) \cup {k} /\ k \notin CachedIn(v, s)
    BY <1>1 DEF CachedIn
  <1>4. LRU!Linked(m, s, CachedIn(u, s)) /\ IsFiniteSet(CachedIn(u, s))
    <2> HIDE DEF s, m, u
    <2>1. CachedIn(v, s) \in SUBSET LRUKey /\ IsFiniteSet(CachedIn(v, s)) /\ LRU!Linked(l, s, CachedIn(v, s))
      BY <1>1 DEF ListsOf, CachedIn
    <2>2. IsFiniteSet(CachedIn(u, s))
      BY <2>1, <1>3, FS_AddElement
    <2>3. QED
      BY <2>1, <2>2, <1>1, <1>3, PushLinks DEF m
  <1>5. ASSUME NEW t \in LRUShard, t # s
        PROVE  LRU!Linked(m, t, CachedIn(u, t)) /\ IsFiniteSet(CachedIn(u, t))
    <2>1. CachedIn(u, t) = CachedIn(v, t) /\ CachedIn(v, t) \in SUBSET LRUKey
      BY <1>1, <1>5 DEF CachedIn
    <2>2. l.head[s] \in CachedIn(v, s) \cup {None}
      BY <1>1 DEF ListsOf, LRU!Linked, LRU!Chained
    <2>3. /\ m.head[t] = l.head[t] /\ m.tail[t] = l.tail[t] /\ m.len[t] = l.len[t]
      BY <1>1, <1>5 DEF LRU!pushFront, IsList
    <2>a. \A n \in LRUKey : n # k => m.next[n] = l.next[n]
      BY <1>1 DEF LRU!pushFront, IsList
    <2>b. \A n \in LRUKey : n # k /\ n # l.head[s] => m.prev[n] = l.prev[n]
      BY <1>1 DEF LRU!pushFront, IsList
    <2>4. \A n \in CachedIn(v, t) : n # k /\ n # l.head[s]
      BY <2>2, <1>1, <1>5 DEF CachedIn
    <2>5. LRU!Linked(l, t, CachedIn(v, t)) /\ IsFiniteSet(CachedIn(v, t))
      BY DEF ListsOf
    <2> HIDE DEF m, u
    <2>6. ASSUME NEW n \in CachedIn(v, t)
          PROVE  m.prev[n] = l.prev[n] /\ m.next[n] = l.next[n]
      <3>1. n \in LRUKey
        BY <2>1
      <3>2. n # k /\ n # l.head[s]
        BY <2>4
      <3>3. QED
        BY <3>1, <3>2, <2>a, <2>b
    <2>7. LRU!Linked(m, t, CachedIn(v, t))
      BY <2>1, <2>3, <2>5, <2>6, Untouched
    <2>8. QED
      BY <2>1, <2>5, <2>7
  <1>6. QED
    BY <1>2, <1>4, <1>5 DEF ListsOf

\* remove of a key that is cached.
LEMMA RemoveLists ==
  ASSUME LRU!CacheAssumption, NEW l, NEW v, ListsOf(l, v), NEW k \in LRUKey, v[k] # None
  PROVE  ListsOf(LRU!remove(l, LRUShardOf(k), k), [v EXCEPT ![k] = None])
  <1> DEFINE s == LRUShardOf(k)
  <1> DEFINE m == LRU!remove(l, s, k)
  <1> DEFINE u == [v EXCEPT ![k] = None]
  <1>1. s \in LRUShard /\ None \notin LRUKey /\ IsList(l) /\ v \in [LRUKey -> LRUValue \cup {None}]
    BY DEF LRU!CacheAssumption, ListsOf
  <1>2. IsList(m) /\ u \in [LRUKey -> LRUValue \cup {None}]
    BY <1>1, RemoveTyped
  <1>3. CachedIn(u, s) = CachedIn(v, s) \ {k} /\ k \in CachedIn(v, s)
    BY <1>1 DEF CachedIn
  <1>a. CachedIn(v, s) \in SUBSET LRUKey /\ IsFiniteSet(CachedIn(v, s)) /\ LRU!Linked(l, s, CachedIn(v, s))
    BY <1>1 DEF ListsOf, CachedIn
  <1>4. LRU!Linked(m, s, CachedIn(u, s)) /\ IsFiniteSet(CachedIn(u, s))
    <2> HIDE DEF s, m, u
    <2>2. IsFiniteSet(CachedIn(u, s))
      BY <1>a, <1>3, FS_RemoveElement
    <2>3. QED
      BY <1>a, <2>2, <1>1, <1>3, RemoveLinks DEF m
  <1>5. ASSUME NEW t \in LRUShard, t # s
        PROVE  LRU!Linked(m, t, CachedIn(u, t)) /\ IsFiniteSet(CachedIn(u, t))
    <2>1. CachedIn(u, t) = CachedIn(v, t) /\ CachedIn(v, t) \in SUBSET LRUKey
      BY <1>1, <1>5 DEF CachedIn
    <2>2. l.prev[k] \in CachedIn(v, s) \cup {None} /\ l.next[k] \in CachedIn(v, s) \cup {None}
      BY <1>3, <1>a DEF LRU!Linked, LRU!Chained
    <2>3. /\ m.head[t] = l.head[t] /\ m.tail[t] = l.tail[t] /\ m.len[t] = l.len[t]
      BY <1>1, <1>5 DEF LRU!remove, IsList
    <2>a. \A n \in LRUKey : n # l.prev[k] => m.next[n] = l.next[n]
      BY <1>1 DEF LRU!remove, IsList
    <2>b. \A n \in LRUKey : n # l.next[k] => m.prev[n] = l.prev[n]
      BY <1>1 DEF LRU!remove, IsList
    <2>4. \A n \in CachedIn(v, t) : n # l.prev[k] /\ n # l.next[k]
      BY <2>2, <1>1, <1>5 DEF CachedIn
    <2>5. LRU!Linked(l, t, CachedIn(v, t)) /\ IsFiniteSet(CachedIn(v, t))
      BY DEF ListsOf
    <2> HIDE DEF m, u
    <2>6. ASSUME NEW n \in CachedIn(v, t)
          PROVE  m.prev[n] = l.prev[n] /\ m.next[n] = l.next[n]
      <3>1. n \in LRUKey
        BY <2>1
      <3>2. QED
        BY <3>1, <2>4, <2>a, <2>b
    <2>7. LRU!Linked(m, t, CachedIn(v, t))
      BY <2>1, <2>3, <2>5, <2>6, Untouched
    <2>8. QED
      BY <2>1, <2>5, <2>7
  <1>6. QED
    BY <1>2, <1>4, <1>5 DEF ListsOf

\* moveToFront changes the order only.
LEMMA MoveLists ==
  ASSUME LRU!CacheAssumption, NEW l, NEW v, ListsOf(l, v), NEW k \in LRUKey, v[k] # None
  PROVE  ListsOf(LRU!moveToFront(l, LRUShardOf(k), k), v)
  <1> DEFINE m == LRU!remove(l, LRUShardOf(k), k)
  <1> DEFINE u == [v EXCEPT ![k] = None]
  <1>1. v \in [LRUKey -> LRUValue \cup {None}] /\ v[k] \in LRUValue
    BY DEF ListsOf
  <1>2. ListsOf(m, u) /\ u[k] = None /\ [u EXCEPT ![k] = v[k]] = v
    BY <1>1, RemoveLists
  <1> HIDE DEF m, u
  <1>3. ListsOf(LRU!pushFront(m, LRUShardOf(k), k), [u EXCEPT ![k] = v[k]])
    BY <1>1, <1>2, PushLists
  <1>4. QED
    BY <1>2, <1>3 DEF LRU!moveToFront, m

\* A new value for a cached key.
LEMMA UpdateLists ==
  ASSUME LRU!CacheAssumption, NEW l, NEW v, ListsOf(l, v), NEW k \in LRUKey, v[k] # None,
         NEW w \in LRUValue
  PROVE  /\ ListsOf(l, [v EXCEPT ![k] = w])
         /\ \A s \in LRUShard : CachedIn([v EXCEPT ![k] = w], s) = CachedIn(v, s)
  <1>1. v \in [LRUKey -> LRUValue \cup {None}] /\ w # None
    BY DEF ListsOf, LRU!CacheAssumption
  <1>2. \A s \in LRUShard : CachedIn([v EXCEPT ![k] = w], s) = CachedIn(v, s)
    BY <1>1 DEF CachedIn
  <1>3. QED
    BY <1>1, <1>2 DEF ListsOf

\* Only the five parts of a list matter.
LEMMA SameLists ==
  ASSUME NEW l, NEW m, NEW v, ListsOf(l, v), m.prev = l.prev, m.next = l.next,
         m.head = l.head, m.tail = l.tail, m.len = l.len
  PROVE  ListsOf(m, v)
  <1>1. IsList(m) /\ v \in [LRUKey -> LRUValue \cup {None}]
    BY DEF ListsOf, IsList
  <1>2. ASSUME NEW s \in LRUShard
        PROVE  LRU!Linked(m, s, CachedIn(v, s)) /\ IsFiniteSet(CachedIn(v, s))
    <2>1. LRU!Linked(l, s, CachedIn(v, s)) /\ IsFiniteSet(CachedIn(v, s)) /\ CachedIn(v, s) \in SUBSET LRUKey
      BY DEF ListsOf, CachedIn
    <2>2. LRU!Linked(m, s, CachedIn(v, s))
      BY <2>1, Untouched
    <2>3. QED
      BY <2>1, <2>2
  <1>3. QED
    BY <1>1, <1>2 DEF ListsOf

-----------------------------------------------------------------------------
(* The inductive invariant of a cache.                                     *)

\* No shard holds too much.
Bounded(v) == \A s \in LRUShard : Cardinality(CachedIn(v, s)) <= LRUCapacity

\* What is recorded in the channel of a shard belongs to the shard.
Recorded == accessChan \in [LRUShard -> Seq(LRUKey)]
            /\ \A s \in LRUShard : \A i \in 1 .. Len(accessChan[s]) : LRUShardOf(accessChan[s][i]) = s

ListInv == LRU!CacheAssumption /\ ListsOf(LRU!Current, value) /\ Bounded(value) /\ Recorded

\* Dropping keys keeps the bound.
LEMMA FewerBounded ==
  ASSUME NEW l, NEW v, NEW w, ListsOf(l, v), Bounded(v), LRUCapacity \in Nat,
         \A s \in LRUShard : CachedIn(w, s) \subseteq CachedIn(v, s)
  PROVE  Bounded(w)
  <1> SUFFICES ASSUME NEW s \in LRUShard PROVE Cardinality(CachedIn(w, s)) <= LRUCapacity
    BY DEF Bounded
  <1>1. IsFiniteSet(CachedIn(v, s)) /\ Cardinality(CachedIn(v, s)) <= LRUCapacity
    BY DEF ListsOf, Bounded
  <1>2. CachedIn(w, s) \in SUBSET CachedIn(v, s)
    OBVIOUS
  <1>3. Cardinality(CachedIn(w, s)) <= Cardinality(CachedIn(v, s)) /\ IsFiniteSet(CachedIn(w, s))
    BY <1>1, <1>2, FS_Subset
  <1>4. Cardinality(CachedIn(w, s)) \in Nat /\ Cardinality(CachedIn(v, s)) \in Nat
    BY <1>1, <1>3, FS_CardinalityType
  <1>5. QED
    BY <1>1, <1>3, <1>4

\* The pointers of the state, as a list.
LEMMA CurrentParts ==
  /\ LRU!Current.prev = prev /\ LRU!Current.next = next /\ LRU!Current.head = head
  /\ LRU!Current.tail = tail /\ LRU!Current.len = len
  BY DEF LRU!Current

\* What an action assigns with Becomes.
LEMMA BecomesLists ==
  ASSUME NEW l, NEW v, ListsOf(l, v), LRU!Becomes(l)
  PROVE  ListsOf(LRU!Current', v)
  <1>1. /\ LRU!Current'.prev = l.prev /\ LRU!Current'.next = l.next /\ LRU!Current'.head = l.head
        /\ LRU!Current'.tail = l.tail /\ LRU!Current'.len = l.len
    BY DEF LRU!Becomes, LRU!Current
  <1>2. QED
    BY <1>1, SameLists

\* What a new key does to the map: it is added, and if the shard was full the key
\* at the tail of the list goes.
SetsNew(k, v) ==
    LET ks == CachedIn(value, LRUShardOf(k)) IN
    \/ Cardinality(ks) < LRUCapacity /\ value' = [value EXCEPT ![k] = v]
    \/ /\ Cardinality(ks) = LRUCapacity
       /\ \E old \in ks : value' = [value EXCEPT ![k] = v, ![old] = None]

\* Whether it evicts or not, storing a new key keeps the lists and the bound.
LEMMA StoredKeeps ==
  ASSUME ListInv, NEW k \in LRUKey, NEW v \in LRUValue, value[k] = None, LRU!Stored(k, v)
  PROVE  ListsOf(LRU!Current', value') /\ Bounded(value') /\ SetsNew(k, v)
  <1> DEFINE s == LRUShardOf(k)
  <1> DEFINE l == LRU!pushFront(LRU!Current, s, k)
  <1> DEFINE w == [value EXCEPT ![k] = v]
  <1> DEFINE ks == CachedIn(value, s)
  <1> DEFINE last == l.tail[s]
  <1>1. /\ LRU!CacheAssumption /\ ListsOf(LRU!Current, value) /\ Bounded(value)
        /\ s \in LRUShard /\ v # None /\ value \in [LRUKey -> LRUValue \cup {None}] /\ LRUCapacity \in Nat \ {0}
    BY DEF ListInv, LRU!CacheAssumption, ListsOf
  <1>2. ListsOf(l, w)
    BY <1>1, PushLists
  <1>3. l.len[s] = Cardinality(ks) + 1 /\ IsFiniteSet(ks) /\ Cardinality(ks) \in Nat /\ Cardinality(ks) <= LRUCapacity
    <2>1. LRU!Current.len[s] = Cardinality(ks) /\ IsFiniteSet(ks) /\ Cardinality(ks) <= LRUCapacity
      BY <1>1, SameCount DEF ListsOf, LRU!Linked, Bounded
    <2>2. l.len[s] = LRU!Current.len[s] + 1
      BY <1>1 DEF LRU!pushFront, ListsOf, IsList
    <2>3. QED
      BY <2>1, <2>2, FS_CardinalityType
  <1>4. /\ LRU!Becomes(IF l.len[s] > LRUCapacity THEN LRU!remove(l, s, last) ELSE l)
        /\ value' = [n \in LRUKey |-> IF n = k THEN v
                                   ELSE IF l.len[s] > LRUCapacity /\ n = last THEN None
                                   ELSE value[n]]
    BY DEF LRU!Stored
  <1>5. CachedIn(w, s) = ks \cup {k} /\ k \notin ks
    BY <1>1 DEF CachedIn
  <1>6. ASSUME ks # {} PROVE last \in ks
    <2>1. LRU!Current.tail[s] \in ks
      BY <1>1, <1>6 DEF ListsOf, LRU!Linked, LRU!Chained
    <2>2. LRU!Current.tail[s] # None
      BY <2>1, <1>1 DEF CachedIn, LRU!CacheAssumption
    <2>3. l.tail[s] = LRU!Current.tail[s]
      BY <1>1, <2>2 DEF LRU!pushFront, ListsOf, IsList
    <2>4. QED
      BY <2>1, <2>3
  <1>7. CASE Cardinality(ks) < LRUCapacity
    <2>1. ~(l.len[s] > LRUCapacity)
      BY <1>1, <1>3, <1>7
    <2>2. value' = w
      <3> HIDE DEF l
      <3>1. QED
        BY <2>1, <1>1, <1>4
    <2>3. ListsOf(LRU!Current', w)
      BY <2>1, <1>2, <1>4, BecomesLists
    <2>4. Bounded(w)
      <3> SUFFICES ASSUME NEW t \in LRUShard PROVE Cardinality(CachedIn(w, t)) <= LRUCapacity
        BY DEF Bounded
      <3>1. CASE t = s
        <4> HIDE DEF ks, w
        <4>1. Cardinality(ks \cup {k}) = Cardinality(ks) + 1
          BY <1>3, <1>5, FS_AddElement
        <4>2. QED
          BY <3>1, <4>1, <1>1, <1>3, <1>5, <1>7
      <3>2. CASE t # s
        <4>1. CachedIn(w, t) = CachedIn(value, t)
          BY <3>2, <1>1 DEF CachedIn
        <4>2. QED
          BY <4>1, <1>1 DEF Bounded
      <3>3. QED
        BY <3>1, <3>2
    <2>5. QED
      BY <2>2, <2>3, <2>4, <1>7 DEF SetsNew
  <1>8. CASE ~(Cardinality(ks) < LRUCapacity)
    <2> DEFINE u == [w EXCEPT ![last] = None]
    <2>1. l.len[s] > LRUCapacity /\ Cardinality(ks) = LRUCapacity /\ ks # {}
      BY <1>1, <1>3, <1>8, FS_EmptySet
    <2>2. last \in ks /\ last \in LRUKey /\ last # k /\ LRUShardOf(last) = s /\ w[last] # None
      BY <2>1, <1>1, <1>5, <1>6 DEF CachedIn
    <2>3. value' = u
      <3> HIDE DEF l, last
      <3>1. QED
        BY <2>1, <2>2, <1>1, <1>4
    <2>4. ListsOf(LRU!remove(l, s, last), u)
      <3> HIDE DEF l, last, w
      <3>1. QED
        BY <1>1, <1>2, <2>2, RemoveLists
    <2>5. ListsOf(LRU!Current', u)
      <3> HIDE DEF l, last, u
      <3>1. QED
        BY <2>1, <2>4, <1>4, BecomesLists
    <2>6. Bounded(u)
      <3> SUFFICES ASSUME NEW t \in LRUShard PROVE Cardinality(CachedIn(u, t)) <= LRUCapacity
        BY DEF Bounded
      <3> HIDE DEF last
      <3>1. CASE t = s
        <4>1. CachedIn(u, s) = (ks \ {last}) \cup {k}
          BY <2>2, <1>1 DEF CachedIn
        <4>2. Cardinality(ks \ {last}) = Cardinality(ks) - 1 /\ IsFiniteSet(ks \ {last})
          BY <1>3, <2>2, FS_RemoveElement
        <4>3. k \notin ks \ {last}
          BY <1>5
        <4> HIDE DEF ks, u
        <4>4. Cardinality((ks \ {last}) \cup {k}) = Cardinality(ks \ {last}) + 1
          BY <4>2, <4>3, FS_AddElement
        <4>5. QED
          BY <3>1, <4>1, <4>2, <4>4, <1>1, <1>3
      <3>2. CASE t # s
        <4>1. CachedIn(u, t) = CachedIn(value, t)
          BY <2>2, <3>2, <1>1 DEF CachedIn
        <4>2. QED
          BY <4>1, <1>1 DEF Bounded
      <3>3. QED
        BY <3>1, <3>2
    <2>7. \E old \in ks : value' = [value EXCEPT ![k] = v, ![old] = None]
      BY <2>2, <2>3
    <2>8. QED
      BY <2>1, <2>3, <2>5, <2>6, <2>7 DEF SetsNew
  <1>9. QED
    BY <1>7, <1>8

-----------------------------------------------------------------------------
(* The steps of a cache.                                                   *)

\* An existing key gets a new value and goes to the front.
LEMMA UpdatedKeeps ==
  ASSUME ListInv, NEW k \in LRUKey, NEW v \in LRUValue, LRU!Updated(k, v)
  PROVE  ListsOf(LRU!Current', value') /\ Bounded(value')
  <1>1. /\ LRU!CacheAssumption /\ ListsOf(LRU!Current, value) /\ Bounded(value)
        /\ LRUCapacity \in Nat
    BY DEF ListInv, LRU!CacheAssumption
  <1>2. /\ value[k] # None /\ value' = [value EXCEPT ![k] = v]
        /\ LRU!Becomes(LRU!moveToFront(LRU!Current, LRUShardOf(k), k))
    BY DEF LRU!Updated
  <1>3. ListsOf(LRU!moveToFront(LRU!Current, LRUShardOf(k), k), value)
    BY <1>1, <1>2, MoveLists
  <1>4. /\ ListsOf(LRU!moveToFront(LRU!Current, LRUShardOf(k), k), value')
        /\ \A s \in LRUShard : CachedIn(value', s) = CachedIn(value, s)
    BY <1>1, <1>2, <1>3, UpdateLists
  <1>5. ListsOf(LRU!Current', value')
    BY <1>2, <1>4, BecomesLists
  <1>6. QED
    BY <1>1, <1>4, <1>5 DEF Bounded

\* A cached key goes.
LEMMA RemovedKeeps ==
  ASSUME ListInv, NEW k \in LRUKey, value[k] # None, value' = [value EXCEPT ![k] = None],
         LRU!Becomes(LRU!remove(LRU!Current, LRUShardOf(k), k))
  PROVE  ListsOf(LRU!Current', value') /\ Bounded(value')
  <1>1. /\ LRU!CacheAssumption /\ ListsOf(LRU!Current, value) /\ Bounded(value)
        /\ LRUCapacity \in Nat /\ value \in [LRUKey -> LRUValue \cup {None}]
    BY DEF ListInv, LRU!CacheAssumption, ListsOf
  <1>2. ListsOf(LRU!Current', value')
    BY <1>1, RemoveLists, BecomesLists
  <1>3. \A s \in LRUShard : CachedIn(value', s) \subseteq CachedIn(value, s)
    BY <1>1 DEF CachedIn
  <1>4. QED
    BY <1>1, <1>2, <1>3, FewerBounded

\* A read appends a key of the shard.
LEMMA AppendRecorded ==
  ASSUME LRU!CacheAssumption, Recorded, NEW k \in LRUKey,
         accessChan' = [accessChan EXCEPT ![LRUShardOf(k)] = Append(@, k)]
  PROVE  Recorded'
  <1> DEFINE s == LRUShardOf(k)
  <1>1. s \in LRUShard /\ accessChan \in [LRUShard -> Seq(LRUKey)]
    BY DEF LRU!CacheAssumption, Recorded
  <1>2. accessChan' \in [LRUShard -> Seq(LRUKey)]
    BY <1>1
  <1>3. ASSUME NEW t \in LRUShard, NEW i \in 1 .. Len(accessChan'[t])
        PROVE  LRUShardOf(accessChan'[t][i]) = t
    <2>1. CASE t = s
      <3>1. accessChan'[t] = Append(accessChan[t], k) /\ accessChan[t] \in Seq(LRUKey)
        BY <1>1, <2>1
      <3>2. CASE i \in 1 .. Len(accessChan[t])
        BY <3>1, <3>2 DEF Recorded
      <3>3. CASE i = Len(accessChan[t]) + 1
        BY <3>1, <3>3, <2>1
      <3>4. QED
        BY <3>1, <3>2, <3>3
    <2>2. CASE t # s
      BY <1>1, <2>2 DEF Recorded
    <2>3. QED
      BY <2>1, <2>2
  <1>4. QED
    BY <1>2, <1>3 DEF Recorded

\* The worker takes the first record, which is a key of its shard.
LEMMA TailRecorded ==
  ASSUME Recorded, NEW s \in LRUShard, accessChan[s] # <<>>,
         accessChan' = [accessChan EXCEPT ![s] = Tail(@)]
  PROVE  /\ Recorded'
         /\ Head(accessChan[s]) \in LRUKey /\ LRUShardOf(Head(accessChan[s])) = s
  <1>1. accessChan \in [LRUShard -> Seq(LRUKey)] /\ accessChan[s] \in Seq(LRUKey) /\ Len(accessChan[s]) >= 1
    BY DEF Recorded
  <1>2. accessChan' \in [LRUShard -> Seq(LRUKey)]
    BY <1>1
  <1>3. ASSUME NEW t \in LRUShard, NEW i \in 1 .. Len(accessChan'[t])
        PROVE  LRUShardOf(accessChan'[t][i]) = t
    <2>1. CASE t = s
      <3>1. accessChan'[t] = Tail(accessChan[t])
        BY <1>1, <2>1
      <3>2. i + 1 \in 1 .. Len(accessChan[t]) /\ accessChan'[t][i] = accessChan[t][i + 1]
        BY <3>1, <1>1, <2>1
      <3>3. QED
        BY <3>2 DEF Recorded
    <2>2. CASE t # s
      BY <1>1, <2>2 DEF Recorded
    <2>3. QED
      BY <2>1, <2>2
  <1>4. Head(accessChan[s]) = accessChan[s][1] /\ 1 \in 1 .. Len(accessChan[s])
    BY <1>1
  <1>5. QED
    BY <1>1, <1>2, <1>3, <1>4 DEF Recorded

\* The parts of the invariant that a step leaves alone.
LEMMA ListInvParts ==
  ASSUME ListInv, ListsOf(LRU!Current', value'), Bounded(value'), Recorded'
  PROVE  ListInv'
  BY DEF ListInv, Bounded, LRU!CacheAssumption, ListsOf, CachedIn

\* The first state: nothing is cached.
LEMMA CacheStarts ==
  ASSUME LRU!CacheAssumption, LRU!Init
  PROVE  ListInv
  <1>1. value = [k \in LRUKey |-> None] /\ IsList(LRU!Current)
    BY DEF LRU!Init, LRU!Current, IsList
  <1>2. \A s \in LRUShard : CachedIn(value, s) = {}
    BY <1>1 DEF CachedIn
  <1>3. ASSUME NEW s \in LRUShard PROVE LRU!Linked(LRU!Current, s, {})
    <2>1. LRU!Current.head[s] = None /\ LRU!Current.tail[s] = None /\ LRU!Current.len[s] = 0
      BY DEF LRU!Init, LRU!Current
    <2>2. LRU!Cardinality({}) = 0
      BY FS_EmptySet, SameCount
    <2>3. QED
      BY <2>1, <2>2 DEF LRU!Linked, LRU!Chained, LRU!Reached
  <1>4. ListsOf(LRU!Current, value)
    BY <1>1, <1>2, <1>3, FS_EmptySet DEF ListsOf
  <1>5. Bounded(value)
    BY <1>2, FS_EmptySet DEF Bounded, LRU!CacheAssumption
  <1>6. Recorded
    BY DEF Recorded, LRU!Init
  <1>7. QED
    BY <1>4, <1>5, <1>6 DEF ListInv

\* Every operation keeps the invariant.
LEMMA CacheSteps ==
  ASSUME ListInv, [LRU!Next]_(LRU!vars)
  PROVE  ListInv'
  <1> USE DEF LRU!list
  <1>0. LRU!CacheAssumption /\ ListsOf(LRU!Current, value) /\ Bounded(value) /\ Recorded /\ LRUCapacity \in Nat
    BY DEF ListInv, LRU!CacheAssumption
  <1>a. ASSUME UNCHANGED LRU!list, UNCHANGED value, Recorded' PROVE ListInv'
    <2>1. LRU!Current' = LRU!Current
      BY <1>a DEF LRU!Current
    <2>2. QED
      BY <2>1, <1>a, <1>0, ListInvParts
  <1>b. ASSUME UNCHANGED accessChan PROVE Recorded'
    BY <1>b, <1>0 DEF Recorded
  <1>1. CASE UNCHANGED LRU!vars
    BY <1>1, <1>a, <1>b DEF LRU!vars
  <1>2. ASSUME NEW k \in LRUKey, LRU!Get(k) PROVE ListInv'
    <2>1. Recorded'
      BY <1>0, <1>2, AppendRecorded DEF LRU!Get
    <2>2. QED
      BY <2>1, <1>2, <1>a DEF LRU!Get
  <1>3. ASSUME NEW k \in LRUKey, LRU!Delete(k) PROVE ListInv'
    BY <1>3, <1>b, RemovedKeeps, ListInvParts DEF LRU!Delete
  <1>4. ASSUME NEW k \in LRUKey, NEW v \in LRUValue, LRU!Set(k, v) \/ LRU!SetSorted(k, v) \/ LRU!SetLRU(k, v)
        PROVE  ListInv'
    <2>1. UNCHANGED accessChan /\ (LRU!Updated(k, v) \/ (value[k] = None /\ LRU!Stored(k, v)))
      BY <1>4 DEF LRU!Set, LRU!SetSorted, LRU!SetLRU
    <2>2. ListsOf(LRU!Current', value') /\ Bounded(value')
      BY <2>1, UpdatedKeeps, StoredKeeps
    <2>3. QED
      BY <2>1, <2>2, <1>b, ListInvParts
  <1>5. ASSUME NEW s \in LRUShard, LRU!CleanExpired(s) PROVE ListInv'
    <2>1. UNCHANGED accessChan
      BY <1>5 DEF LRU!CleanExpired
    <2>2. PICK k \in LRUKey : /\ LRUShardOf(k) = s /\ value[k] # None /\ value' = [value EXCEPT ![k] = None]
                           /\ LRU!Becomes(LRU!remove(LRU!Current, s, k))
      BY <1>5 DEF LRU!CleanExpired
    <2>3. ListsOf(LRU!Current', value') /\ Bounded(value')
      BY <2>2, RemovedKeeps
    <2>4. QED
      BY <2>1, <2>3, <1>b, ListInvParts
  <1>6. ASSUME NEW s \in LRUShard, LRU!Clear(s) PROVE ListInv'
    <2>1. /\ value' = [k \in LRUKey |-> IF LRUShardOf(k) = s THEN None ELSE value[k]]
          /\ head' = [head EXCEPT ![s] = None] /\ tail' = [tail EXCEPT ![s] = None]
          /\ len' = [len EXCEPT ![s] = 0] /\ UNCHANGED <<prev, next, accessChan>>
      BY <1>6 DEF LRU!Clear
    <2>2. value \in [LRUKey -> LRUValue \cup {None}] /\ IsList(LRU!Current)
      BY <1>0 DEF ListsOf
    <2>3. value' \in [LRUKey -> LRUValue \cup {None}] /\ IsList(LRU!Current')
      BY <2>1, <2>2 DEF IsList, LRU!Current
    <2>4. CachedIn(value', s) = {} /\ \A t \in LRUShard : t # s => CachedIn(value', t) = CachedIn(value, t)
      BY <2>1 DEF CachedIn
    <2>5. LRU!Linked(LRU!Current', s, {})
      <3>1. LRU!Current'.head[s] = None /\ LRU!Current'.tail[s] = None /\ LRU!Current'.len[s] = 0
        BY <2>1, <2>2 DEF LRU!Current, IsList
      <3>2. LRU!Cardinality({}) = 0
        BY FS_EmptySet, SameCount
      <3>3. QED
        BY <3>1, <3>2 DEF LRU!Linked, LRU!Chained, LRU!Reached
    <2>6. ASSUME NEW t \in LRUShard, t # s PROVE LRU!Linked(LRU!Current', t, CachedIn(value, t))
      <3>1. /\ LRU!Current'.head[t] = LRU!Current.head[t] /\ LRU!Current'.tail[t] = LRU!Current.tail[t]
            /\ LRU!Current'.len[t] = LRU!Current.len[t]
        BY <2>1, <2>2, <2>6 DEF LRU!Current, IsList
      <3>2. LRU!Current'.prev = LRU!Current.prev /\ LRU!Current'.next = LRU!Current.next
        BY <2>1 DEF LRU!Current
      <3>3. CachedIn(value, t) \in SUBSET LRUKey /\ LRU!Linked(LRU!Current, t, CachedIn(value, t))
        BY <1>0 DEF CachedIn, ListsOf
      <3>4. QED
        BY <3>1, <3>2, <3>3, Untouched
    <2>7. ListsOf(LRU!Current', value')
      BY <2>3, <2>4, <2>5, <2>6, <1>0, FS_EmptySet DEF ListsOf
    <2>8. \A t \in LRUShard : CachedIn(value', t) \subseteq CachedIn(value, t)
      BY <2>4
    <2>9. Bounded(value')
      BY <2>8, <1>0, FewerBounded
    <2>10. QED
      BY <2>1, <2>7, <2>9, <1>b, ListInvParts
  <1>7. ASSUME NEW s \in LRUShard, LRU!Close(s) \/ LRU!WorkerEnds(s) PROVE ListInv'
    BY <1>7, <1>a, <1>b DEF LRU!Close, LRU!WorkerEnds
  <1>8. ASSUME NEW s \in LRUShard, LRU!processAccessRecords(s) PROVE ListInv'
    <2> DEFINE k == Head(accessChan[s])
    <2>1. Recorded' /\ k \in LRUKey /\ LRUShardOf(k) = s
      BY <1>0, <1>8, TailRecorded DEF LRU!processAccessRecords
    <2>2. CASE value[k] # None
      <3>1. LRU!Becomes(LRU!moveToFront(LRU!Current, s, k)) /\ UNCHANGED value
        BY <1>8, <2>2 DEF LRU!processAccessRecords
      <3> HIDE DEF k
      <3>2. ListsOf(LRU!Current', value)
        BY <3>1, <2>1, <2>2, <1>0, MoveLists, BecomesLists
      <3>3. QED
        BY <3>1, <3>2, <2>1, <1>0, ListInvParts
    <2>3. CASE ~(value[k] # None)
      BY <1>8, <2>1, <2>3, <1>a DEF LRU!processAccessRecords
    <2>4. QED
      BY <2>2, <2>3
  <1>9. QED
    BY <1>1, <1>2, <1>3, <1>4, <1>5, <1>6, <1>7, <1>8 DEF LRU!Next

\* For any keys, values, shards and capacity the invariant holds throughout.
THEOREM ListInvariant == LRU!CacheAssumption /\ LRU!Spec => []ListInv
  <1>1. LRU!CacheAssumption /\ LRU!Init => ListInv
    BY CacheStarts
  <1>2. ListInv /\ [LRU!Next]_(LRU!vars) => ListInv'
    BY CacheSteps
  <1>3. QED
    BY <1>1, <1>2, PTL DEF LRU!Spec

\* The hand-made lists of the LRU caches (sharded_cache.go, sharded_lru.go) hold
\* what their maps hold, linked both ways, and no shard holds more than its capacity,
\* whatever the access worker, Clear and the evictions do in between.
THEOREM ListsMatchMaps == LRU!CacheAssumption /\ LRU!Spec => []WellLinked
  <1>1. ListInv => WellLinked
    <2> SUFFICES ASSUME ListInv, NEW s \in LRUShard
                 PROVE  LRU!Linked(LRU!Current, s, LRU!Cached(s)) /\ len[s] <= LRUCapacity
      BY DEF WellLinked, LRU!WellLinked
    <2>1. LRU!Cached(s) = CachedIn(value, s)
      BY DEF LRU!Cached, CachedIn
    <2>2. LRU!Linked(LRU!Current, s, CachedIn(value, s)) /\ Cardinality(CachedIn(value, s)) <= LRUCapacity
      BY DEF ListInv, ListsOf, Bounded
    <2>3. len[s] = Cardinality(CachedIn(value, s))
      BY <2>2, SameCount, CurrentParts DEF LRU!Linked
    <2>4. QED
      BY <2>1, <2>2, <2>3
  <1>2. QED
    BY <1>1, ListInvariant, PTL

-----------------------------------------------------------------------------
(* A cache is a bounded map.                                               *)

\* The first state is an empty map.
LEMMA MapStarts == LRU!Init => LRU!Map!Init
  BY DEF LRU!Init, LRU!Map!Init

\* Every operation is a Set, a Delete, a Drop or nothing to the map.
LEMMA MapSteps ==
  ASSUME ListInv, [LRU!Next]_(LRU!vars)
  PROVE  [LRU!Map!Next]_value
  <1>0. value \in [LRUKey -> LRUValue \cup {None}] /\ LRU!CacheAssumption
    BY DEF ListInv, ListsOf
  <1>1. CASE UNCHANGED LRU!vars
    BY <1>1 DEF LRU!vars
  <1>2. ASSUME NEW k \in LRUKey, LRU!Get(k) PROVE UNCHANGED value
    BY <1>2 DEF LRU!Get
  <1>3. ASSUME NEW k \in LRUKey, LRU!Delete(k) PROVE LRU!Map!Delete(k)
    BY <1>3 DEF LRU!Delete, LRU!Map!Delete
  <1>4. ASSUME NEW k \in LRUKey, NEW v \in LRUValue, LRU!Set(k, v) \/ LRU!SetSorted(k, v) \/ LRU!SetLRU(k, v)
        PROVE  LRU!Map!Set(k, v)
    <2>1. LRU!Updated(k, v) \/ (value[k] = None /\ LRU!Stored(k, v))
      BY <1>4 DEF LRU!Set, LRU!SetSorted, LRU!SetLRU
    <2>2. CASE LRU!Updated(k, v)
      BY <2>2 DEF LRU!Updated, LRU!Map!Set
    <2>3. CASE value[k] = None /\ LRU!Stored(k, v)
      <3>1. SetsNew(k, v)
        BY <2>3, StoredKeeps
      <3>2. LRU!Map!Cached(LRUShardOf(k)) = CachedIn(value, LRUShardOf(k))
        BY DEF LRU!Map!Cached, CachedIn
      <3>3. \A S : LRU!Map!Cardinality(S) = Cardinality(S)
        BY DEF Cardinality, LRU!Map!Cardinality
      <3>4. QED
        BY <2>3, <3>1, <3>2, <3>3 DEF SetsNew, LRU!Map!Set
    <2>4. QED
      BY <2>1, <2>2, <2>3
  <1>5. ASSUME NEW s \in LRUShard, LRU!CleanExpired(s) PROVE \E k \in LRUKey : LRU!Map!Delete(k)
    BY <1>5 DEF LRU!CleanExpired, LRU!Map!Delete
  <1>6. ASSUME NEW s \in LRUShard, LRU!Clear(s) PROVE LRU!Map!Drop(s)
    <2>1. value' = [k \in LRUKey |-> IF k \in LRU!Map!Cached(s) THEN None ELSE value[k]]
      BY <1>0, <1>6 DEF LRU!Clear, LRU!Map!Cached
    <2>2. QED
      BY <2>1 DEF LRU!Map!Drop
  <1>7. ASSUME NEW s \in LRUShard, LRU!Close(s) \/ LRU!WorkerEnds(s) \/ LRU!processAccessRecords(s)
        PROVE  UNCHANGED value
    BY <1>7 DEF LRU!Close, LRU!WorkerEnds, LRU!processAccessRecords
  <1>8. QED
    BY <1>1, <1>2, <1>3, <1>4, <1>5, <1>6, <1>7 DEF LRU!Next, LRU!Map!Next

\* Every LRU cache implements BoundedMap: a Set always takes effect and drops at
\* most one other key, of the same shard and only when that is full.
THEOREM CacheIsBoundedMap == LRU!CacheAssumption /\ LRU!Spec => IsBoundedMap
  <1>1. LRU!Spec => LRU!Map!Init
    BY MapStarts DEF LRU!Spec
  <1>2. ListInv /\ [LRU!Next]_(LRU!vars) => [LRU!Map!Next]_value
    BY MapSteps
  <1>3. QED
    BY <1>1, <1>2, ListInvariant, PTL DEF LRU!Spec, IsBoundedMap, LRU!IsBoundedMap, LRU!Map!Spec

-----------------------------------------------------------------------------
(* heap.Pop.  The sifted element goes down one path, and every element it  *)
(* meets there moves up by one place.                                      *)

Path(h) == {i \in 1 .. Len(h) - 1 : Expiry!OnPath(h, i)}

\* A child has one parent.
LEMMA ChildPlace ==
  ASSUME NEW h, NEW i \in Nat
  PROVE  Expiry!Child(h, i) \in {2 * i, 2 * i + 1} /\ Expiry!Child(h, i) \in Nat
  BY DEF Expiry!Child

\* Two places with the same smaller child are the same place.
LEMMA OneParent ==
  ASSUME NEW h, NEW i \in Nat, NEW j \in Nat, Expiry!Child(h, i) = Expiry!Child(h, j)
  PROVE  i = j
  <1>1. Expiry!Child(h, i) \in {2 * i, 2 * i + 1} /\ Expiry!Child(h, j) \in {2 * j, 2 * j + 1}
    BY ChildPlace
  <1>2. QED
    BY <1>1

\* The path starts at the root, and goes on wherever the element sinks.
LEMMA PathGoesOn ==
  ASSUME NEW h, Len(h) \in Nat
  PROVE  /\ Len(h) > 1 => 1 \in Path(h)
         /\ \A i \in Path(h) : Expiry!Sinks(h, i) => Expiry!Child(h, i) \in Path(h)
  <1>1. Len(h) > 1 => 1 \in Path(h)
    BY DEF Path, Expiry!OnPath
  <1>2. ASSUME NEW i \in Path(h), Expiry!Sinks(h, i) PROVE Expiry!Child(h, i) \in Path(h)
    <2>1. i \in Nat /\ i >= 1 /\ Expiry!OnPath(h, i)
      BY DEF Path
    <2>2. Expiry!Child(h, i) \in 1 .. Len(h) - 1
      BY <1>2, <2>1, ChildPlace DEF Expiry!Sinks
    <2>3. Expiry!OnPath(h, Expiry!Child(h, i))
      BY <1>2, <2>1 DEF Expiry!OnPath
    <2>4. QED
      BY <2>2, <2>3 DEF Path
  <1>3. QED
    BY <1>1, <1>2

\* What holds at the root and is handed on along the path holds on all of it.
LEMMA PathInduction ==
  ASSUME NEW h, Len(h) \in Nat, NEW S \in SUBSET Path(h), Len(h) > 1 => 1 \in S,
         \A i \in S : Expiry!Sinks(h, i) => Expiry!Child(h, i) \in S
  PROVE  Path(h) = S
  <1> SUFFICES ASSUME NEW i \in Path(h) PROVE i \in S
    OBVIOUS
  <1>1. S \in SUBSET (1 .. Len(h) - 1) /\ Expiry!OnPath(h, i) /\ 1 \in S
    BY DEF Path
  <1>2. QED
    BY <1>1 DEF Expiry!OnPath

\* Every place of the path but the root is where the element sank to.
LEMMA PathComesFrom ==
  ASSUME NEW h, Len(h) \in Nat, NEW i \in Path(h), i # 1
  PROVE  \E p \in Path(h) : Expiry!Sinks(h, p) /\ Expiry!Child(h, p) = i
  <1> SUFFICES ASSUME \A p \in Path(h) : Expiry!Sinks(h, p) => Expiry!Child(h, p) # i
               PROVE  FALSE
    OBVIOUS
  <1> DEFINE S == Path(h) \ {i}
  <1>1. S \in SUBSET Path(h) /\ (Len(h) > 1 => 1 \in S)
    BY PathGoesOn
  <1>2. \A p \in S : Expiry!Sinks(h, p) => Expiry!Child(h, p) \in S
    BY PathGoesOn
  <1> HIDE DEF S
  <1>3. Path(h) = S
    BY <1>1, <1>2, PathInduction
  <1>4. QED
    BY <1>3 DEF S

\* Two steps of the path cross if the second begins inside the first; then the
\* step that led to the second begins before the first.
Crosses(h, p, i) == p < i /\ i < Expiry!Child(h, p)

\* A crossing has an earlier one behind it.
LEMMA CrossingGoesBack ==
  ASSUME NEW h, Len(h) \in Nat, NEW p \in Path(h), NEW i \in Path(h), Crosses(h, p, i)
  PROVE  \E q \in Path(h) : Expiry!Sinks(h, q) /\ Expiry!Child(h, q) = i /\ Crosses(h, q, p)
  <1>1. p \in Nat /\ p >= 1 /\ i \in Nat /\ i # 1
    BY DEF Path, Crosses
  <1>2. PICK q \in Path(h) : Expiry!Sinks(h, q) /\ Expiry!Child(h, q) = i
    BY <1>1, PathComesFrom
  <1>3. q \in Nat /\ i \in {2 * q, 2 * q + 1} /\ Expiry!Child(h, p) \in {2 * p, 2 * p + 1}
    BY <1>1, <1>2, ChildPlace DEF Path
  <1>4. q # p
    BY <1>1, <1>2, <1>3 DEF Crosses
  <1>5. q < p
    BY <1>1, <1>3, <1>4 DEF Crosses
  <1>6. QED
    BY <1>2, <1>5 DEF Crosses

\* No two steps cross: the path is a line.
LEMMA NoCrossing ==
  ASSUME NEW h, Len(h) \in Nat, NEW p \in Path(h), NEW i \in Path(h), Expiry!Sinks(h, p)
  PROVE  ~Crosses(h, p, i)
  <1> DEFINE Free(j) == \A q \in Path(h) : Expiry!Sinks(h, q) => ~Crosses(h, q, j)
  <1> DEFINE S == {k \in Path(h) : \A j \in Path(h) : j <= k => Free(j)}
  <1>0. \A j \in Path(h) : j \in Nat /\ j >= 1
    BY DEF Path
  <1>1. Len(h) > 1 => 1 \in S
    <2>1. ASSUME NEW j \in Path(h), j <= 1 PROVE Free(j)
      BY <1>0, <2>1 DEF Crosses
    <2>2. QED
      BY <2>1, PathGoesOn
  <1>2. ASSUME NEW k \in S, Expiry!Sinks(h, k) PROVE Expiry!Child(h, k) \in S
    <2> DEFINE c == Expiry!Child(h, k)
    <2>1. c \in Path(h) /\ k \in Path(h) /\ c \in Nat /\ k \in Nat /\ Free(k)
      BY <1>0, <1>2, PathGoesOn
    <2>2. ASSUME NEW j \in Path(h), j <= c, NEW q \in Path(h), Expiry!Sinks(h, q), Crosses(h, q, j)
          PROVE  FALSE
      <3>1. k < j
        BY <1>0, <2>1, <2>2
      <3>2. PICK r \in Path(h) : Expiry!Sinks(h, r) /\ Expiry!Child(h, r) = j /\ Crosses(h, r, q)
        BY <2>2, CrossingGoesBack
      <3>3. CASE j < c
        <4>1. Crosses(h, k, j)
          BY <3>1, <3>3 DEF Crosses
        <4>2. PICK u \in Path(h) : Expiry!Sinks(h, u) /\ Crosses(h, u, k)
          BY <4>1, <2>1, <2>2, CrossingGoesBack
        <4>3. QED
          BY <4>2, <2>1
      <3>4. CASE j = c
        <4>1. r = k
          BY <3>2, <3>4, <1>0, <2>1, OneParent
        <4>2. Crosses(h, k, q)
          BY <3>2, <4>1
        <4>3. PICK u \in Path(h) : Expiry!Sinks(h, u) /\ Crosses(h, u, k)
          BY <4>2, <2>1, <2>2, CrossingGoesBack
        <4>4. QED
          BY <4>3, <2>1
      <3>5. QED
        BY <1>0, <2>1, <2>2, <3>3, <3>4
    <2>3. QED
      BY <2>1, <2>2
  <1>3. S \in SUBSET Path(h)
    OBVIOUS
  <1>4. Path(h) = S
    <2> HIDE DEF S
    <2>1. QED
      BY <1>1, <1>2, <1>3, PathInduction
  <1>5. Free(i)
    BY <1>0, <1>4
  <1>6. QED
    BY <1>5

\* The path has one end: it never leaves the places up to an end ...
LEMMA OneEnd ==
  ASSUME NEW h, Len(h) \in Nat, NEW e \in Path(h), ~Expiry!Sinks(h, e),
         NEW f \in Path(h), ~Expiry!Sinks(h, f)
  PROVE  e = f
  <1>1. ASSUME NEW d \in Path(h), ~Expiry!Sinks(h, d) PROVE \A i \in Path(h) : i <= d
    <2> DEFINE S == {i \in Path(h) : i <= d}
    <2>0. \A i \in Path(h) : i \in Nat /\ i >= 1
      BY DEF Path
    <2>1. S \in SUBSET Path(h) /\ (Len(h) > 1 => 1 \in S)
      BY <2>0, PathGoesOn
    <2>2. ASSUME NEW i \in S, Expiry!Sinks(h, i) PROVE Expiry!Child(h, i) \in S
      <3>1. i < d /\ Expiry!Child(h, i) \in Path(h)
        BY <1>1, <2>0, <2>2, PathGoesOn
      <3>2. ~Crosses(h, i, d)
        BY <2>2, <1>1, NoCrossing
      <3>3. QED
        BY <2>0, <3>1, <3>2 DEF Crosses
    <2>3. Path(h) = S
      <3> HIDE DEF S
      <3>1. QED
        BY <2>1, <2>2, PathInduction
    <2>4. QED
      BY <2>3
  <1>2. e <= f /\ f <= e
    BY <1>1
  <1>3. QED
    BY <1>2 DEF Path

\* ... and it has an end, since there are finitely many places.
LEMMA SomeEnd ==
  ASSUME NEW h, Len(h) \in Nat, Len(h) > 1
  PROVE  \E e \in Path(h) : ~Expiry!Sinks(h, e)
  <1> SUFFICES ASSUME \A e \in Path(h) : Expiry!Sinks(h, e) PROVE FALSE
    OBVIOUS
  <1> DEFINE down == [i \in Path(h) |-> Expiry!Child(h, i)]
  <1>0. \A i \in Path(h) : i \in Nat /\ i >= 1
    BY DEF Path
  <1>1. down \in [Path(h) -> Path(h) \ {1}]
    <2>1. ASSUME NEW i \in Path(h) PROVE Expiry!Child(h, i) \in Path(h) \ {1}
      <3>1. Expiry!Child(h, i) \in {2 * i, 2 * i + 1}
        BY <1>0, ChildPlace
      <3>2. QED
        BY <3>1, <1>0, PathGoesOn
    <2>2. QED
      BY <2>1
  <1>2. \A i, j \in Path(h) : down[i] = down[j] => i = j
    BY <1>0, OneParent
  <1>3. down \in Injection(Path(h), Path(h) \ {1})
    BY <1>1, <1>2 DEF Injection, IsInjective
  <1>4. IsFiniteSet(Path(h)) /\ 1 \in Path(h)
    <2>1. IsFiniteSet(1 .. Len(h) - 1)
      BY FS_Interval
    <2>2. Path(h) \in SUBSET (1 .. Len(h) - 1)
      BY DEF Path
    <2>3. QED
      BY <2>1, <2>2, FS_Subset, PathGoesOn
  <1>5. Cardinality(Path(h) \ {1}) = Cardinality(Path(h)) - 1 /\ IsFiniteSet(Path(h) \ {1})
    BY <1>4, FS_RemoveElement
  <1>6. Cardinality(Path(h)) <= Cardinality(Path(h) \ {1})
    <2> HIDE DEF down
    <2>1. QED
      BY <1>3, <1>5, FS_Injection
  <1>7. Cardinality(Path(h)) \in Nat
    BY <1>4, FS_CardinalityType
  <1>8. QED
    BY <1>5, <1>6, <1>7

\* Where the element at place i of the new array was before.
From(h, i) ==
    IF i \notin Path(h) THEN i ELSE IF Expiry!Sinks(h, i) THEN Expiry!Child(h, i) ELSE Len(h)

\* HeapPop takes one element out, and every place gets its element from a place
\* of its own.
LEMMA PopPlaces ==
  ASSUME NEW T, NEW h \in Seq(T), h # <<>>
  PROVE  /\ Expiry!HeapPop(h) \in Seq(T) /\ Len(Expiry!HeapPop(h)) = Len(h) - 1
         /\ \A i \in 1 .. Len(h) - 1 : From(h, i) \in 1 .. Len(h) /\ Expiry!HeapPop(h)[i] = h[From(h, i)]
         /\ \A i, j \in 1 .. Len(h) - 1 : From(h, i) = From(h, j) => i = j
  <1>0. Len(h) \in Nat /\ Len(h) >= 1 /\ Path(h) \subseteq 1 .. Len(h) - 1
    BY DEF Path
  <1>1. ASSUME NEW i \in 1 .. Len(h) - 1
        PROVE  From(h, i) \in 1 .. Len(h) /\ Expiry!HeapPop(h)[i] = h[From(h, i)]
    <2>1. Expiry!OnPath(h, i) <=> i \in Path(h)
      BY DEF Path
    <2>2. i \in Path(h) /\ Expiry!Sinks(h, i) => Expiry!Child(h, i) \in 1 .. Len(h) - 1
      BY <1>0, PathGoesOn
    <2>3. From(h, i) \in 1 .. Len(h)
      BY <1>0, <2>2 DEF From
    <2>4. Expiry!HeapPop(h)[i] = h[From(h, i)]
      BY <2>1 DEF Expiry!HeapPop, From
    <2>5. QED
      BY <2>3, <2>4
  <1>2. Expiry!HeapPop(h) \in Seq(T) /\ Len(Expiry!HeapPop(h)) = Len(h) - 1
    <2>1. \A i \in 1 .. Len(h) - 1 : Expiry!HeapPop(h)[i] \in T
      BY <1>1
    <2>2. DOMAIN Expiry!HeapPop(h) = 1 .. Len(h) - 1 /\ Len(h) - 1 \in Nat
      BY <1>0 DEF Expiry!HeapPop
    <2>3. Expiry!HeapPop(h) = [i \in 1 .. Len(h) - 1 |-> Expiry!HeapPop(h)[i]]
      BY DEF Expiry!HeapPop
    <2>4. QED
      BY <2>1, <2>2, <2>3
  <1>3. ASSUME NEW i \in 1 .. Len(h) - 1, NEW j \in 1 .. Len(h) - 1, From(h, i) = From(h, j)
        PROVE  i = j
    <2>1. \A k \in Path(h) : Expiry!Sinks(h, k) => Expiry!Child(h, k) \in Path(h)
      BY <1>0, PathGoesOn
    <2>2. CASE i \notin Path(h) \/ j \notin Path(h)
      BY <1>0, <1>3, <2>1, <2>2 DEF From
    <2>3. CASE i \in Path(h) /\ j \in Path(h)
      <3>1. CASE Expiry!Sinks(h, i) /\ Expiry!Sinks(h, j)
        BY <1>0, <1>3, <2>3, <3>1, OneParent DEF From
      <3>2. CASE ~Expiry!Sinks(h, i) /\ ~Expiry!Sinks(h, j)
        BY <1>0, <2>3, <3>2, OneEnd
      <3>3. CASE Expiry!Sinks(h, i) # Expiry!Sinks(h, j)
        <4>1. \A k \in Path(h) : Expiry!Sinks(h, k) => Expiry!Child(h, k) # Len(h)
          BY <1>0, <2>1
        <4>2. QED
          BY <1>3, <2>3, <3>3, <4>1 DEF From, Expiry!Sinks
      <3>4. QED
        BY <3>1, <3>2, <3>3 DEF Expiry!Sinks
    <2>4. QED
      BY <2>2, <2>3
  <1>4. QED
    BY <1>1, <1>2, <1>3

\* No element but the root is lost.
LEMMA PopKeeps ==
  ASSUME NEW T, NEW h \in Seq(T), h # <<>>, NEW m \in 2 .. Len(h)
  PROVE  \E i \in 1 .. Len(h) - 1 : Expiry!HeapPop(h)[i] = h[m]
  <1>0. Len(h) \in Nat /\ Len(h) > 1 /\ Path(h) \subseteq 1 .. Len(h) - 1
    BY DEF Path
  <1>1. CASE m = Len(h)
    <2>1. PICK e \in Path(h) : ~Expiry!Sinks(h, e)
      BY <1>0, SomeEnd
    <2>2. From(h, e) = m /\ e \in 1 .. Len(h) - 1
      BY <1>0, <1>1, <2>1 DEF From
    <2>3. QED
      BY <2>2, PopPlaces
  <1>2. CASE m # Len(h) /\ m \notin Path(h)
    <2>1. From(h, m) = m /\ m \in 1 .. Len(h) - 1
      BY <1>0, <1>2 DEF From
    <2>2. QED
      BY <2>1, PopPlaces
  <1>3. CASE m # Len(h) /\ m \in Path(h)
    <2>1. PICK p \in Path(h) : Expiry!Sinks(h, p) /\ Expiry!Child(h, p) = m
      BY <1>0, <1>3, PathComesFrom
    <2>2. From(h, p) = m /\ p \in 1 .. Len(h) - 1
      BY <1>0, <2>1 DEF From
    <2>3. QED
      BY <2>2, PopPlaces
  <1>4. QED
    BY <1>1, <1>2, <1>3

\* HeapPop is the Pop of container/heap: it turns a heap into a heap.
THEOREM PopKeepsHeap ==
  ASSUME NEW h \in Seq(Expiry!Index), h # <<>>, Expiry!IsHeap(h)
  PROVE  Expiry!IsHeap(Expiry!HeapPop(h))
  <1> DEFINE r == Expiry!HeapPop(h)
  <1> DEFINE at(i) == h[i].expiry
  <1>0. /\ Len(h) \in Nat /\ Len(h) >= 1 /\ Path(h) \subseteq 1 .. Len(h) - 1
        /\ \A i \in 1 .. Len(h) : at(i) \in Nat
    <2>1. \A i \in 1 .. Len(h) : h[i] \in Expiry!Index
      OBVIOUS
    <2>2. \A i \in 1 .. Len(h) : at(i) \in Nat
      BY <2>1 DEF Expiry!Index
    <2>3. QED
      BY <2>2 DEF Path
  <1>1. Len(r) = Len(h) - 1 /\ \A i \in 1 .. Len(h) - 1 : From(h, i) \in 1 .. Len(h) /\ r[i] = h[From(h, i)]
    BY PopPlaces
  <1> SUFFICES ASSUME NEW i \in 2 .. Len(h) - 1 PROVE ~Expiry!Less(r, i, i \div 2)
    BY <1>1 DEF Expiry!IsHeap
  <1> DEFINE q == i \div 2
  <1>2. q \in 1 .. Len(h) - 1 /\ i \in {2 * q, 2 * q + 1} /\ i \in 1 .. Len(h) - 1
    BY <1>0
  <1>3. ASSUME NEW p \in Nat, NEW k \in 2 .. Len(h), k \in {2 * p, 2 * p + 1} PROVE at(p) <= at(k)
    <2>1. k \div 2 = p
      BY <1>3
    <2>2. ~(at(k) < at(p))
      BY <2>1, <1>3 DEF Expiry!IsHeap, Expiry!Less
    <2>3. p \in 1 .. Len(h)
      BY <1>0, <1>3
    <2>4. QED
      BY <1>0, <2>2, <2>3
  <1>4. ASSUME at(From(h, q)) <= at(From(h, i)) PROVE ~Expiry!Less(r, i, q)
    <2>1. r[i] = h[From(h, i)] /\ r[q] = h[From(h, q)] /\ at(From(h, q)) \in Nat /\ at(From(h, i)) \in Nat
      BY <1>0, <1>1, <1>2
    <2> HIDE DEF r, q
    <2>2. QED
      BY <1>4, <2>1 DEF Expiry!Less
  <1> HIDE DEF r
  <1>5. i \in Path(h) => q \in Path(h) /\ Expiry!Sinks(h, q) /\ Expiry!Child(h, q) = i
    <2> SUFFICES ASSUME i \in Path(h)
                 PROVE  q \in Path(h) /\ Expiry!Sinks(h, q) /\ Expiry!Child(h, q) = i
      OBVIOUS
    <2>1. PICK p \in Path(h) : Expiry!Sinks(h, p) /\ Expiry!Child(h, p) = i
      BY <1>0, PathComesFrom
    <2>2. p \in Nat /\ i \in {2 * p, 2 * p + 1}
      BY <1>0, <2>1, ChildPlace
    <2>3. p = q
      BY <1>2, <2>2
    <2>4. QED
      BY <2>1, <2>3
  <1>6. CASE q \notin Path(h)
    <2>1. From(h, q) = q /\ From(h, i) = i
      BY <1>5, <1>6 DEF From
    <2>2. q \in Nat /\ i \in 2 .. Len(h)
      BY <1>0, <1>2
    <2> HIDE DEF q
    <2>3. at(q) <= at(i)
      BY <2>2, <1>2, <1>3
    <2>4. QED
      BY <2>1, <2>3, <1>4 DEF q
  <1>7. CASE q \in Path(h) /\ i \in Path(h)
    \* The smaller child moved up, above its own child or the sifted element.
    <2>1. From(h, q) = i
      BY <1>5, <1>7 DEF From
    <2>2. CASE Expiry!Sinks(h, i)
      <3> DEFINE c == Expiry!Child(h, i)
      <3>1. c \in {2 * i, 2 * i + 1} /\ c < Len(h)
        BY <2>2, ChildPlace DEF Expiry!Sinks
      <3>2. c \in 2 .. Len(h) /\ i \in Nat
        BY <3>1, <1>0
      <3>3. From(h, i) = c
        BY <1>7, <2>2 DEF From
      <3> HIDE DEF c
      <3>4. at(i) <= at(c)
        BY <3>1, <3>2, <1>3
      <3>5. QED
        BY <2>1, <3>3, <3>4, <1>4
    <2>3. CASE ~Expiry!Sinks(h, i)
      <3>1. From(h, i) = Len(h)
        BY <1>7, <2>3 DEF From
      <3>2. at(i) < at(Len(h))
        BY <1>5, <1>7 DEF Expiry!Sinks, Expiry!Less
      <3>3. at(i) \in Nat /\ at(Len(h)) \in Nat
        BY <1>0, <1>2
      <3>4. QED
        BY <2>1, <3>1, <3>2, <3>3, <1>4
    <2>4. QED
      BY <2>2, <2>3
  <1>8. CASE q \in Path(h) /\ i \notin Path(h)
    \* What came to the parent is no larger than the smaller child.
    <2> DEFINE c == Expiry!Child(h, q)
    <2>1. From(h, i) = i
      BY <1>8 DEF From
    <2>2. c \in {2 * q, 2 * q + 1} /\ c < Len(h) /\ at(c) <= at(i) /\ c \in 1 .. Len(h)
      <3>1. q \in Nat /\ q >= 1 /\ i < Len(h) /\ (i = 2 * q \/ i = 2 * q + 1) /\ Len(h) \in Nat
        BY <1>0, <1>2
      <3>2. at(i) \in Nat /\ at(2 * q) \in Nat
        BY <1>0, <3>1
      <3> HIDE DEF q
      <3>3. CASE 2 * q + 1 < Len(h) /\ at(2 * q + 1) < at(2 * q)
        <4>1. c = 2 * q + 1
          BY <3>3 DEF Expiry!Child, Expiry!Less
        <4>2. at(2 * q + 1) \in Nat
          BY <1>0, <3>1, <3>3
        <4>3. at(2 * q + 1) <= at(i)
          BY <3>1, <3>2, <3>3, <4>2
        <4>4. QED
          BY <3>1, <3>3, <4>1, <4>3
      <3>4. CASE ~(2 * q + 1 < Len(h) /\ at(2 * q + 1) < at(2 * q))
        <4>1. c = 2 * q
          BY <3>4 DEF Expiry!Child, Expiry!Less
        <4>2. at(2 * q) <= at(i)
          BY <3>1, <3>2, <3>4
        <4>3. QED
          BY <3>1, <4>1, <4>2
      <3>5. QED
        BY <3>3, <3>4
    <2>3. CASE Expiry!Sinks(h, q)
      <3>1. From(h, q) = c
        BY <1>8, <2>3 DEF From
      <3>2. QED
        BY <2>1, <2>2, <3>1, <1>4
    <2>4. CASE ~Expiry!Sinks(h, q)
      <3>1. From(h, q) = Len(h)
        BY <1>8, <2>4 DEF From
      <3>2. ~(at(c) < at(Len(h)))
        BY <2>2, <2>4 DEF Expiry!Sinks, Expiry!Less
      <3>3. at(c) \in Nat /\ at(Len(h)) \in Nat /\ at(i) \in Nat
        BY <1>0, <1>2, <2>2
      <3> HIDE DEF c
      <3>4. at(Len(h)) <= at(i)
        BY <2>2, <3>2, <3>3
      <3>5. QED
        BY <2>1, <3>1, <3>4, <1>4
    <2>5. QED
      BY <2>3, <2>4
  <1>9. QED
    BY <1>6, <1>7, <1>8

-----------------------------------------------------------------------------
(* What the sequences hold.                                                *)

\* No version is twice in a sequence of indexes.
Distinct(h) == \A i, j \in 1 .. Len(h) : h[i].ver = h[j].ver => i = j

\* The empty sequence, the sequence of one element, and Append.
LEMMA RangeOfFew ==
  ASSUME NEW T, NEW e \in T
  PROVE  /\ Expiry!Range(<<>>) = {} /\ Expiry!Range(<<e>>) = {e}
         /\ Distinct(<<>>) /\ Distinct(<<e>>)
  BY DEF Expiry!Range, Distinct

\* What Append adds.
LEMMA RangeOfAppend ==
  ASSUME NEW T, NEW h \in Seq(T), NEW e \in T
  PROVE  /\ Expiry!Range(Append(h, e)) = Expiry!Range(h) \cup {e}
         /\ Distinct(h) /\ (\A f \in Expiry!Range(h) : f.ver # e.ver) => Distinct(Append(h, e))
  <1>1. /\ Len(Append(h, e)) = Len(h) + 1 /\ Append(h, e)[Len(h) + 1] = e /\ Len(h) \in Nat
        /\ \A i \in 1 .. Len(h) : Append(h, e)[i] = h[i]
    OBVIOUS
  <1>2. Expiry!Range(Append(h, e)) = Expiry!Range(h) \cup {e}
    BY <1>1 DEF Expiry!Range
  <1>3. ASSUME Distinct(h), \A f \in Expiry!Range(h) : f.ver # e.ver
        PROVE  Distinct(Append(h, e))
    <2>1. \A i \in 1 .. Len(h) : h[i].ver # e.ver
      BY <1>3 DEF Expiry!Range
    <2>2. QED
      BY <1>1, <1>3, <2>1 DEF Distinct
  <1>4. QED
    BY <1>2, <1>3

\* Head and Tail.
LEMMA RangeOfTail ==
  ASSUME NEW T, NEW h \in Seq(T), h # <<>>
  PROVE  /\ Head(h) \in T /\ Tail(h) \in Seq(T) /\ Len(Tail(h)) = Len(h) - 1
         /\ Expiry!Range(h) = {Head(h)} \cup Expiry!Range(Tail(h))
         /\ Distinct(h) => Distinct(Tail(h)) /\ \A e \in Expiry!Range(Tail(h)) : e.ver # Head(h).ver
  <1>1. /\ Head(h) = h[1] /\ Len(h) \in Nat /\ Len(h) >= 1 /\ Head(h) \in T
        /\ Tail(h) \in Seq(T) /\ Len(Tail(h)) = Len(h) - 1
        /\ \A i \in 1 .. Len(h) - 1 : Tail(h)[i] = h[i + 1]
    OBVIOUS
  <1>2. Expiry!Range(h) = {Head(h)} \cup Expiry!Range(Tail(h))
    <2>1. ASSUME NEW i \in 1 .. Len(h) PROVE h[i] \in {Head(h)} \cup Expiry!Range(Tail(h))
      <3>1. CASE i = 1
        BY <1>1, <3>1
      <3>2. CASE i # 1
        <4>1. i - 1 \in 1 .. Len(h) - 1 /\ h[i] = Tail(h)[i - 1]
          BY <1>1, <3>2
        <4>2. QED
          BY <1>1, <4>1 DEF Expiry!Range
      <3>3. QED
        BY <3>1, <3>2
    <2>2. ASSUME NEW i \in 1 .. Len(h) - 1 PROVE Tail(h)[i] \in Expiry!Range(h)
      BY <1>1 DEF Expiry!Range
    <2>3. Head(h) \in Expiry!Range(h)
      BY <1>1 DEF Expiry!Range
    <2>4. Expiry!Range(Tail(h)) \subseteq Expiry!Range(h)
      BY <2>2, <1>1 DEF Expiry!Range
    <2>5. Expiry!Range(h) \subseteq {Head(h)} \cup Expiry!Range(Tail(h))
      BY <2>1 DEF Expiry!Range
    <2>6. QED
      BY <2>3, <2>4, <2>5
  <1>3. ASSUME Distinct(h)
        PROVE  Distinct(Tail(h)) /\ \A e \in Expiry!Range(Tail(h)) : e.ver # Head(h).ver
    <2>1. Distinct(Tail(h))
      BY <1>1, <1>3 DEF Distinct
    <2>2. \A i \in 1 .. Len(h) - 1 : Tail(h)[i].ver # Head(h).ver
      BY <1>1, <1>3 DEF Distinct
    <2>3. QED
      BY <1>1, <2>1, <2>2 DEF Expiry!Range
  <1>4. QED
    BY <1>1, <1>2, <1>3

\* HeapPop loses the root only, and doubles nothing.
LEMMA RangeOfPop ==
  ASSUME NEW T, NEW h \in Seq(T), h # <<>>
  PROVE  /\ Expiry!HeapPop(h) \in Seq(T)
         /\ Expiry!Range(Expiry!HeapPop(h)) \subseteq Expiry!Range(h)
         /\ Expiry!Range(h) \subseteq {h[1]} \cup Expiry!Range(Expiry!HeapPop(h))
         /\ Distinct(h) => Distinct(Expiry!HeapPop(h))
  <1> DEFINE r == Expiry!HeapPop(h)
  <1>0. Len(h) \in Nat /\ Len(h) >= 1
    OBVIOUS
  <1>1. /\ r \in Seq(T) /\ Len(r) = Len(h) - 1
        /\ \A i \in 1 .. Len(h) - 1 : From(h, i) \in 1 .. Len(h) /\ r[i] = h[From(h, i)]
        /\ \A i, j \in 1 .. Len(h) - 1 : From(h, i) = From(h, j) => i = j
    BY PopPlaces
  <1>2. ASSUME NEW i \in 1 .. Len(h) PROVE h[i] \in {h[1]} \cup Expiry!Range(r)
    <2>1. CASE i = 1
      BY <2>1
    <2>2. CASE i # 1
      <3>1. i \in 2 .. Len(h)
        BY <2>2
      <3>2. PICK j \in 1 .. Len(h) - 1 : r[j] = h[i]
        BY <3>1, PopKeeps
      <3>3. QED
        BY <3>2, <1>0, <1>1 DEF Expiry!Range
    <2>3. QED
      BY <2>1, <2>2
  <1> HIDE DEF r
  <1>3. Expiry!Range(r) \subseteq Expiry!Range(h)
    BY <1>0, <1>1 DEF Expiry!Range
  <1>4. Expiry!Range(h) \subseteq {h[1]} \cup Expiry!Range(r)
    BY <1>2 DEF Expiry!Range
  <1>5. Distinct(h) => Distinct(r)
    BY <1>0, <1>1 DEF Distinct
  <1>6. QED
    BY <1>1, <1>3, <1>4, <1>5 DEF r

-----------------------------------------------------------------------------
(* The inductive invariant of the expiry index.                            *)

InHeap == Expiry!Range(expiredHeap)
AtWorker == Expiry!Range(held)
InChan == Expiry!Range(addHeapChan)
Sent == InHeap \cup AtWorker \cup InChan

Apart(R, S) == \A e \in R, f \in S : e.ver # f.ver

\* Every version in use has been handed out.
Versioned ==
    /\ \A k \in Expiry!Cached : raw[k].ver <= ver
    /\ \A p \in pending : p.ver <= ver
    /\ \A e \in Sent : e.ver <= ver

\* The index of a version is in one place.
Once ==
    /\ Distinct(expiredHeap) /\ Distinct(addHeapChan)
    /\ Apart(InHeap, AtWorker) /\ Apart(InHeap, InChan) /\ Apart(AtWorker, InChan)
    /\ Apart(pending, Sent) /\ \A p, q \in pending : p.ver = q.ver => p = q

\* An index that is sent now does not expire before its entry.
InTime ==
    \A p \in pending : raw[p.key] # NoEntry /\ raw[p.key].ver = p.ver
                        => raw[p.key].expiry <= now + p.ttl

\* Between the two halves of Clear the heap holds ghosts only.
Cleared == clean.step = "clear" => \A e \in InHeap : ~Expiry!Valid(e)

Parts == IsFiniteSet(Expiry!Cached) /\ Versioned /\ Once /\ InTime /\ Cleared /\ Expiry!Indexed

ExpiryInv == ExpiryAssumption /\ Expiry!TypeOK /\ Parts

\* The steps of CleanExpired that move nothing.
Quiet ==
    /\ UNCHANGED <<now, raw, pending, addHeapChan, held, expiredHeap, dropped, ver>>
    /\ clean'.step = "clear" => clean.step = "clear"

\* The instances of FiniteSets count alike.
LEMMA ExpiryCount == /\ \A S : Expiry!Cardinality(S) = Cardinality(S)
  BY DEF Cardinality, Expiry!Cardinality

\* What is counted is a number.
LEMMA CountTyped ==
  ASSUME Expiry!TypeOK PROVE Expiry!RecalculateCount \in Nat
  <1> DEFINE N == {n \in 1 .. Len(expiredHeap) :
        /\ \A m \in 1 .. n : expiredHeap[m].expiry <= clean.now
        /\ Expiry!Valid(expiredHeap[n])}
  <1>1. IsFiniteSet(1 .. Len(expiredHeap)) /\ N \in SUBSET (1 .. Len(expiredHeap))
    <2>1. Len(expiredHeap) \in Int
      BY DEF Expiry!TypeOK
    <2>2. QED
      BY <2>1, FS_Interval
  <1>2. IsFiniteSet(N)
    <2> HIDE DEF N
    <2>1. QED
      BY <1>1, FS_Subset
  <1>3. Cardinality(N) \in Nat
    <2> HIDE DEF N
    <2>1. QED
      BY <1>2, FS_CardinalityType
  <1>4. QED
    BY <1>3, ExpiryCount DEF Expiry!RecalculateCount

MapTypes ==
    /\ now \in Nat /\ ver \in Nat /\ dropped \subseteq Nat
    /\ raw \in [IndexKey -> [expiry : Nat, ver : Nat] \cup {NoEntry}]
    /\ pending \subseteq [key : IndexKey, ttl : TTL, ver : Nat]

SeqTypes ==
    /\ held \in Seq(Expiry!Index) /\ Len(held) <= 1
    /\ addHeapChan \in Seq(Expiry!Index) /\ Len(addHeapChan) <= HeapChanCap
    /\ expiredHeap \in Seq(Expiry!Index)

CleanTypes ==
    /\ expiredCount \in Nat
    /\ clean \in [step : {"idle", "ghosts", "sweep", "delete", "clear"}, now : Nat, limit : Nat,
                  high : BOOLEAN, ghosts : Nat, cleaned : Nat]
    /\ clean.step = "delete" => expiredHeap # <<>>

\* The type invariant, in three parts: the maps, the sequences and the clean.
LEMMA TypeParts == Expiry!TypeOK <=> MapTypes /\ SeqTypes /\ CleanTypes
  BY DEF Expiry!TypeOK, MapTypes, SeqTypes, CleanTypes

\* What the assumptions say of single constants.
LEMMA NumberParts ==
  ASSUME ExpiryAssumption
  PROVE  /\ \A ttl \in TTL : ttl \in Nat
         /\ HeapChanCap \in Nat /\ AncientLow \in Nat /\ AncientMid \in Nat
         /\ \A x \in Nat, v \in Nat : [expiry |-> x, ver |-> v] # NoEntry
  <1>1. \A x \in Nat, v \in Nat : [expiry |-> x, ver |-> v] \in [expiry : Nat, ver : Nat]
    OBVIOUS
  <1>2. QED
    BY <1>1 DEF ExpiryAssumption, Expiry!NumAssumption, Expiry!NoEntryAssumption

\* An index made of a pending call.
LEMMA IndexTyped ==
  ASSUME ExpiryAssumption, MapTypes, NEW p \in pending
  PROVE  /\ [key |-> p.key, expiry |-> now + p.ttl, ver |-> p.ver] \in Expiry!Index
         /\ p.ver \in Nat /\ p.key \in IndexKey /\ p.ttl \in Nat
  <1>1. p \in [key : IndexKey, ttl : TTL, ver : Nat] /\ now \in Nat
    BY DEF MapTypes
  <1>2. p.key \in IndexKey /\ p.ttl \in Nat /\ p.ver \in Nat
    BY <1>1, NumberParts
  <1>3. now + p.ttl \in Nat
    BY <1>1, <1>2
  <1>4. QED
    BY <1>2, <1>3 DEF Expiry!Index

\* No step leaves the types of the maps.
LEMMA KeepMapTypes ==
  ASSUME ExpiryAssumption, MapTypes, [Expiry!Next]_(Expiry!vars)
  PROVE  MapTypes'
  <1> USE DEF MapTypes
  <1>1. ASSUME NEW k \in IndexKey, NEW victim \in IndexKey, NEW ttl \in TTL, Expiry!SetRaw(k, ttl, victim)
        PROVE  MapTypes'
    <2>1. now + ttl \in Nat /\ ver + 1 \in Nat
      BY NumberParts
    <2>2. /\ raw' = [raw EXCEPT ![victim] = NoEntry, ![k] = [expiry |-> now + ttl, ver |-> ver + 1]]
          /\ pending' = pending \cup {[key |-> k, ttl |-> ttl, ver |-> ver + 1]}
          /\ ver' = ver + 1 /\ UNCHANGED <<now, dropped>>
      BY <1>1 DEF Expiry!SetRaw
    <2>3. [expiry |-> now + ttl, ver |-> ver + 1] \in [expiry : Nat, ver : Nat]
      BY <2>1
    <2>4. raw' \in [IndexKey -> [expiry : Nat, ver : Nat] \cup {NoEntry}]
      BY <2>2, <2>3
    <2>5. [key |-> k, ttl |-> ttl, ver |-> ver + 1] \in [key : IndexKey, ttl : TTL, ver : Nat]
      BY <2>1
    <2>6. QED
      BY <2>1, <2>2, <2>4, <2>5
  <1>2. ASSUME NEW p \in pending, Expiry!AddToExpiredHeap(p) PROVE MapTypes'
    <2>1. p.ver \in Nat
      BY IndexTyped
    <2>2. QED
      BY <1>2, <2>1 DEF Expiry!AddToExpiredHeap
  <1>3. CASE Expiry!ClearRaw \/ Expiry!Tick \/ Expiry!Delete
    BY <1>3 DEF Expiry!ClearRaw, Expiry!Tick, Expiry!Delete
  <1>4. ASSUME UNCHANGED <<now, raw, pending, dropped, ver>> PROVE MapTypes'
    BY <1>4
  <1>5. CASE Expiry!Receive \/ Expiry!PushHeld \/ Expiry!ClearHeap \/ UNCHANGED Expiry!vars
    BY <1>4, <1>5 DEF Expiry!Receive, Expiry!PushHeld, Expiry!ClearHeap, Expiry!vars
  <1>6. CASE Expiry!Clean
    BY <1>3, <1>4, <1>6 DEF Expiry!Clean, Expiry!CleanBegin, Expiry!PopGhost, Expiry!EndGhosts,
       Expiry!SweepGhost, Expiry!Choose, Expiry!EndSweep, Expiry!TimeOut
  <1>7. QED
    BY <1>1, <1>2, <1>3, <1>5, <1>6 DEF Expiry!Next

\* No step leaves the types of the sequences.
LEMMA KeepSeqTypes ==
  ASSUME ExpiryAssumption, MapTypes, SeqTypes, CleanTypes, [Expiry!Next]_(Expiry!vars)
  PROVE  SeqTypes'
  <1>0. /\ expiredHeap \in Seq(Expiry!Index) /\ held \in Seq(Expiry!Index)
        /\ addHeapChan \in Seq(Expiry!Index) /\ Len(held) <= 1 /\ Len(addHeapChan) <= HeapChanCap
    BY DEF SeqTypes
  <1>1. ASSUME UNCHANGED <<addHeapChan, held, expiredHeap>> PROVE SeqTypes'
    BY <1>0, <1>1 DEF SeqTypes
  <1>2. ASSUME NEW p \in pending, Expiry!AddToExpiredHeap(p) PROVE SeqTypes'
    <2> DEFINE e == [key |-> p.key, expiry |-> now + p.ttl, ver |-> p.ver]
    <2>1. e \in Expiry!Index
      BY IndexTyped
    <2>2. /\ addHeapChan' = addHeapChan \/ (Len(addHeapChan) < HeapChanCap /\ addHeapChan' = Append(addHeapChan, e))
          /\ UNCHANGED <<held, expiredHeap>>
      BY <1>2 DEF Expiry!AddToExpiredHeap
    <2> HIDE DEF e
    <2>3. /\ Append(addHeapChan, e) \in Seq(Expiry!Index)
          /\ Len(Append(addHeapChan, e)) = Len(addHeapChan) + 1 /\ Len(addHeapChan) \in Nat
      BY <1>0, <2>1
    <2>4. CASE addHeapChan' = addHeapChan
      BY <1>1, <2>2, <2>4
    <2>5. CASE Len(addHeapChan) < HeapChanCap /\ addHeapChan' = Append(addHeapChan, e)
      <3>1. Len(addHeapChan') <= HeapChanCap
        BY <2>3, <2>5, NumberParts
      <3>2. QED
        BY <1>0, <2>2, <2>3, <2>5, <3>1 DEF SeqTypes
    <2>6. QED
      BY <2>2, <2>4, <2>5
  <1>3. CASE Expiry!Receive
    <2>1. /\ Head(addHeapChan) \in Expiry!Index /\ Tail(addHeapChan) \in Seq(Expiry!Index)
          /\ Len(Tail(addHeapChan)) = Len(addHeapChan) - 1 /\ Len(addHeapChan) \in Nat
      BY <1>0, <1>3, RangeOfTail DEF Expiry!Receive
    <2>2. held' \in Seq(Expiry!Index) /\ Len(held') = 1
      BY <1>3, <2>1 DEF Expiry!Receive
    <2>3. QED
      BY <1>0, <1>3, <2>1, <2>2, NumberParts DEF Expiry!Receive, SeqTypes
  <1>4. CASE Expiry!PushHeld
    <2>1. held[1] \in Expiry!Index
      BY <1>0, <1>4 DEF Expiry!PushHeld
    <2>2. Append(expiredHeap, held[1]) \in Seq(Expiry!Index) /\ <<>> \in Seq(Expiry!Index) /\ Len(<<>>) = 0
      BY <1>0, <2>1
    <2>3. QED
      BY <1>0, <1>4, <2>2 DEF Expiry!PushHeld, Expiry!Push, SeqTypes
  <1>5. CASE Expiry!ClearHeap
    BY <1>0, <1>5 DEF Expiry!ClearHeap, SeqTypes
  <1>6. CASE Expiry!PopGhost \/ Expiry!SweepGhost \/ Expiry!Delete
    <2>1. expiredHeap # <<>> /\ expiredHeap' = Expiry!HeapPop(expiredHeap) /\ UNCHANGED <<held, addHeapChan>>
      BY <1>6 DEF Expiry!PopGhost, Expiry!SweepGhost, Expiry!Sweeping, Expiry!Delete, CleanTypes
    <2>2. expiredHeap' \in Seq(Expiry!Index)
      BY <1>0, <2>1, RangeOfPop
    <2>3. QED
      BY <1>0, <2>1, <2>2 DEF SeqTypes
  <1>7. CASE Expiry!Clean
    BY <1>1, <1>6, <1>7 DEF Expiry!Clean, Expiry!CleanBegin, Expiry!EndGhosts,
       Expiry!Choose, Expiry!EndSweep, Expiry!TimeOut
  <1>8. ASSUME NEW k \in IndexKey, NEW victim \in IndexKey, NEW ttl \in TTL, Expiry!SetRaw(k, ttl, victim)
        PROVE  SeqTypes'
    BY <1>1, <1>8 DEF Expiry!SetRaw
  <1>9. CASE Expiry!ClearRaw \/ Expiry!Tick \/ UNCHANGED Expiry!vars
    BY <1>1, <1>9 DEF Expiry!ClearRaw, Expiry!Tick, Expiry!vars
  <1>10. QED
    BY <1>2, <1>3, <1>4, <1>5, <1>7, <1>8, <1>9 DEF Expiry!Next

\* No step leaves the types of the clean and the count.
LEMMA KeepCleanTypes ==
  ASSUME ExpiryAssumption, MapTypes, SeqTypes, CleanTypes, [Expiry!Next]_(Expiry!vars)
  PROVE  CleanTypes'
  <1> USE DEF CleanTypes
  <1>1. ASSUME UNCHANGED <<expiredHeap, expiredCount, clean>> PROVE CleanTypes'
    BY <1>1
  <1>2. ASSUME NEW k \in IndexKey, NEW victim \in IndexKey, NEW ttl \in TTL, Expiry!SetRaw(k, ttl, victim)
        PROVE  CleanTypes'
    BY <1>1, <1>2 DEF Expiry!SetRaw
  <1>3. ASSUME NEW p \in pending, Expiry!AddToExpiredHeap(p) PROVE CleanTypes'
    BY <1>1, <1>3 DEF Expiry!AddToExpiredHeap
  <1>4. CASE Expiry!Receive \/ Expiry!Tick \/ UNCHANGED Expiry!vars
    BY <1>1, <1>4 DEF Expiry!Receive, Expiry!Tick, Expiry!vars
  <1>5. CASE Expiry!PushHeld
    BY <1>5 DEF Expiry!PushHeld
  <1>6. CASE Expiry!ClearRaw
    BY <1>6 DEF Expiry!ClearRaw
  <1>7. CASE Expiry!ClearHeap
    BY <1>7 DEF Expiry!ClearHeap, Expiry!Idle
  <1>8. CASE Expiry!CleanBegin
    <2> DEFINE n == Expiry!Cardinality(Expiry!Cached)
    <2> DEFINE high == 10 * n >= 9 * MaxEntries
    <2> DEFINE limit == IF 2 * n < MaxEntries THEN AncientLow ELSE IF high THEN 0 ELSE AncientMid
    <2>1. clean' = [step |-> "ghosts", now |-> now, limit |-> limit, high |-> high, ghosts |-> 0, cleaned |-> 0]
      BY <1>8 DEF Expiry!CleanBegin, Expiry!Idle
    <2>2. now \in Nat /\ limit \in Nat
      BY NumberParts DEF MapTypes
    <2>3. high \in BOOLEAN
      OBVIOUS
    <2> HIDE DEF high, limit
    <2>4. clean' \in [step : {"idle", "ghosts", "sweep", "delete", "clear"}, now : Nat, limit : Nat,
                      high : BOOLEAN, ghosts : Nat, cleaned : Nat] /\ clean'.step = "ghosts"
      BY <2>1, <2>2, <2>3
    <2>5. UNCHANGED expiredCount
      BY <1>8 DEF Expiry!CleanBegin
    <2>6. QED
      BY <2>4, <2>5
  <1>9. CASE Expiry!PopGhost
    BY <1>9 DEF Expiry!PopGhost
  <1>10. CASE Expiry!SweepGhost
    BY <1>10 DEF Expiry!SweepGhost, Expiry!Sweeping
  <1>11. CASE Expiry!Delete
    <2>1. clean' = [clean EXCEPT !.step = "sweep", !.cleaned = @ + 1] /\ UNCHANGED expiredCount
      BY <1>11 DEF Expiry!Delete
    <2>2. clean.cleaned + 1 \in Nat
      OBVIOUS
    <2>3. clean' \in [step : {"idle", "ghosts", "sweep", "delete", "clear"}, now : Nat, limit : Nat,
                      high : BOOLEAN, ghosts : Nat, cleaned : Nat] /\ clean'.step = "sweep"
      BY <2>1, <2>2
    <2>4. QED
      BY <2>1, <2>3
  <1>12. CASE Expiry!EndGhosts
    BY <1>12 DEF Expiry!EndGhosts
  <1>13. CASE Expiry!Choose
    BY <1>13 DEF Expiry!Choose, Expiry!Sweeping
  <1>14. CASE Expiry!EndSweep \/ Expiry!TimeOut
    <2>1. Expiry!RecalculateCount \in Nat
      BY TypeParts, CountTyped
    <2>2. expiredCount' \in Nat /\ clean' = Expiry!Idle
      BY <1>14, <2>1 DEF Expiry!EndSweep, Expiry!TimeOut
    <2>3. QED
      BY <2>2 DEF Expiry!Idle
  <1>15. QED
    BY <1>2, <1>3, <1>4, <1>5, <1>6, <1>7, <1>8, <1>9, <1>10, <1>11, <1>12, <1>13, <1>14
       DEF Expiry!Next, Expiry!Clean

\* Every step keeps the types.
LEMMA ExpiryTypes ==
  ASSUME ExpiryAssumption, Expiry!TypeOK, [Expiry!Next]_(Expiry!vars)
  PROVE  Expiry!TypeOK'
  <1>1. MapTypes /\ SeqTypes /\ CleanTypes
    BY TypeParts
  <1>2. MapTypes' /\ SeqTypes' /\ CleanTypes'
    BY <1>1, KeepMapTypes, KeepSeqTypes, KeepCleanTypes
  <1>3. QED
    BY <1>2 DEF Expiry!TypeOK, MapTypes, SeqTypes, CleanTypes

-----------------------------------------------------------------------------
(* The other parts of the invariant, action by action.                     *)

\* An entry of the cache is a record with numbers.
LEMMA EntryTyped ==
  ASSUME MapTypes, NEW k \in Expiry!Cached
  PROVE  k \in IndexKey /\ raw[k] # NoEntry /\ raw[k].ver \in Nat /\ raw[k].expiry \in Nat
  BY DEF MapTypes, Expiry!Cached

\* What has been sent is an index.
LEMMA SentTyped ==
  ASSUME SeqTypes
  PROVE  /\ Sent \subseteq Expiry!Index
         /\ \A e \in Sent : e.key \in IndexKey /\ e.ver \in Nat /\ e.expiry \in Nat
  <1>1. Sent \subseteq Expiry!Index
    BY DEF SeqTypes, Sent, InHeap, AtWorker, InChan, Expiry!Range
  <1>2. QED
    BY <1>1 DEF Expiry!Index

\* SetRaw: the new version is larger than all others, and its call is pending.
LEMMA SetRawKeeps ==
  ASSUME ExpiryInv, NEW k \in IndexKey, NEW victim \in IndexKey, NEW ttl \in TTL, Expiry!SetRaw(k, ttl, victim)
  PROVE  Parts'
  <1> DEFINE v == ver + 1
  <1> DEFINE new == [expiry |-> now + ttl, ver |-> v]
  <1> DEFINE call == [key |-> k, ttl |-> ttl, ver |-> v]
  <1>0. MapTypes /\ SeqTypes /\ Parts /\ ExpiryAssumption
    BY TypeParts DEF ExpiryInv
  <1>1. now \in Nat /\ ver \in Nat /\ v \in Nat /\ ttl \in Nat /\ now + ttl \in Nat /\ new # NoEntry
    BY <1>0, NumberParts DEF MapTypes
  <1>2. /\ raw' = [raw EXCEPT ![victim] = NoEntry, ![k] = new] /\ pending' = pending \cup {call} /\ ver' = v
        /\ UNCHANGED <<now, addHeapChan, held, expiredHeap, dropped, expiredCount, clean>>
    BY DEF Expiry!SetRaw
  <1>3. raw'[k] = new /\ \A j \in IndexKey : j # k => raw'[j] \in {raw[j], NoEntry}
    BY <1>0, <1>2 DEF MapTypes
  <1>4. Sent' = Sent /\ InHeap' = InHeap /\ AtWorker' = AtWorker /\ InChan' = InChan
    BY <1>2 DEF Sent, InHeap, AtWorker, InChan
  <1>5. new.ver = v /\ new.expiry = now + ttl /\ call.key = k /\ call.ver = v /\ call.ttl = ttl
    OBVIOUS
  <1>6. /\ \A j \in Expiry!Cached : raw[j].ver \in Nat /\ raw[j].ver < v
        /\ \A p \in pending : p.ver \in Nat /\ p.ver < v /\ p.key \in IndexKey
        /\ \A e \in Sent : e.ver \in Nat /\ e.ver < v /\ e.key \in IndexKey
    <2>1. ASSUME NEW j \in Expiry!Cached PROVE raw[j].ver \in Nat /\ raw[j].ver < v
      <3>1. raw[j].ver \in Nat /\ raw[j].ver <= ver
        BY <1>0, EntryTyped DEF Parts, Versioned
      <3>2. QED
        BY <3>1, <1>1
    <2>2. ASSUME NEW p \in pending PROVE p.ver \in Nat /\ p.ver < v /\ p.key \in IndexKey
      <3>1. p.ver \in Nat /\ p.ver <= ver /\ p.key \in IndexKey
        BY <1>0, IndexTyped DEF Parts, Versioned
      <3>2. QED
        BY <3>1, <1>1
    <2>3. ASSUME NEW e \in Sent PROVE e.ver \in Nat /\ e.ver < v /\ e.key \in IndexKey
      <3>1. e.ver \in Nat /\ e.ver <= ver /\ e.key \in IndexKey
        BY <1>0, SentTyped DEF Parts, Versioned
      <3>2. QED
        BY <3>1, <1>1
    <2>4. QED
      BY <2>1, <2>2, <2>3
  <1>7. \A j \in Expiry!Cached' : j = k \/ (j \in Expiry!Cached /\ j \in IndexKey /\ raw'[j] = raw[j])
    BY <1>3 DEF Expiry!Cached
  <1> HIDE DEF new, call
  <1>8. IsFiniteSet(Expiry!Cached')
    <2>1. IsFiniteSet(Expiry!Cached \cup {k})
      BY <1>0, FS_AddElement DEF Parts
    <2>2. Expiry!Cached' \in SUBSET (Expiry!Cached \cup {k})
      BY <1>7
    <2>3. QED
      BY <2>1, <2>2, FS_Subset
  <1>9. Versioned'
    <2>1. \A j \in Expiry!Cached' : raw'[j].ver <= v
      BY <1>1, <1>3, <1>5, <1>6, <1>7
    <2>2. \A p \in pending' : p.ver <= v
      BY <1>1, <1>2, <1>5, <1>6
    <2>3. \A e \in Sent' : e.ver <= v
      BY <1>1, <1>4, <1>6
    <2>4. QED
      BY <1>2, <2>1, <2>2, <2>3 DEF Versioned
  <1>10. Once'
    <2>1. Apart(pending', Sent')
      BY <1>0, <1>1, <1>2, <1>4, <1>5, <1>6 DEF Parts, Once, Apart
    <2>2. \A p, q \in pending' : p.ver = q.ver => p = q
      BY <1>0, <1>1, <1>2, <1>5, <1>6 DEF Parts, Once
    <2>3. QED
      BY <1>0, <1>2, <1>4, <2>1, <2>2 DEF Parts, Once, Apart, Distinct
  <1>11. InTime'
    <2> SUFFICES ASSUME NEW p \in pending', raw'[p.key] # NoEntry, raw'[p.key].ver = p.ver
                 PROVE  raw'[p.key].expiry <= now' + p.ttl
      BY DEF InTime
    <2>1. CASE p = call
      BY <2>1, <1>1, <1>2, <1>3, <1>5
    <2>2. CASE p # call
      <3>1. p \in pending /\ p.key # k
        BY <2>2, <1>1, <1>2, <1>3, <1>5, <1>6
      <3>2. raw'[p.key] = raw[p.key]
        BY <3>1, <1>3, <1>6
      <3>3. QED
        BY <3>1, <3>2, <1>0, <1>2 DEF Parts, InTime
    <2>3. QED
      BY <2>1, <2>2
  <1>12. Cleared'
    <2> SUFFICES ASSUME clean'.step = "clear", NEW e \in InHeap', Expiry!Valid(e)' PROVE FALSE
      BY DEF Cleared
    <2>1. e \in InHeap /\ e \in Sent /\ clean.step = "clear"
      BY <1>2, <1>4 DEF Sent
    <2>2. raw'[e.key] # NoEntry /\ raw'[e.key].ver = e.ver
      BY DEF Expiry!Valid
    <2>3. e.key # k
      BY <2>1, <2>2, <1>1, <1>3, <1>5, <1>6
    <2>4. raw[e.key] = raw'[e.key]
      BY <2>1, <2>2, <2>3, <1>3, <1>6
    <2>5. QED
      BY <2>1, <2>2, <2>4, <1>0 DEF Parts, Cleared, Expiry!Valid
  <1>13. Expiry!Indexed'
    <2> SUFFICES ASSUME NEW j \in Expiry!Cached'
                 PROVE  \/ raw'[j].ver \in dropped'
                        \/ \E p \in pending' : p.key = j /\ p.ver = raw'[j].ver
                        \/ \E e \in Expiry!Range(addHeapChan') \cup Expiry!Range(held') \cup Expiry!Range(expiredHeap') :
                              e.key = j /\ e.ver = raw'[j].ver /\ e.expiry >= raw'[j].expiry
      BY DEF Expiry!Indexed
    <2>1. CASE j = k
      BY <2>1, <1>2, <1>3, <1>5
    <2>2. CASE j # k
      <3>1. j \in Expiry!Cached /\ raw'[j] = raw[j]
        BY <2>2, <1>7
      <3>2. \/ raw[j].ver \in dropped
            \/ \E p \in pending : p.key = j /\ p.ver = raw[j].ver
            \/ \E e \in Expiry!Range(addHeapChan) \cup Expiry!Range(held) \cup Expiry!Range(expiredHeap) :
                  e.key = j /\ e.ver = raw[j].ver /\ e.expiry >= raw[j].expiry
        BY <3>1, <1>0 DEF Parts, Expiry!Indexed
      <3>3. QED
        BY <3>1, <3>2, <1>2
    <2>3. QED
      BY <2>1, <2>2
  <1>14. QED
    BY <1>8, <1>9, <1>10, <1>11, <1>12, <1>13 DEF Parts

\* In all other steps entries only go, and an index is new only if its call was
\* pending.
Moves ==
    /\ \A k \in IndexKey : raw'[k] \in {raw[k], NoEntry}
    /\ pending' \subseteq pending /\ ver' = ver /\ now' \in Nat /\ now <= now'
    /\ \A e \in Sent' : e \in Sent \/ \E p \in pending : e.ver = p.ver

\* A step that moves indexes and stores nothing keeps the versions and the times.
LEMMA MovesKeeps ==
  ASSUME ExpiryInv, Moves
  PROVE  IsFiniteSet(Expiry!Cached') /\ Versioned' /\ InTime'
  <1>0. MapTypes /\ SeqTypes /\ Parts /\ ExpiryAssumption
    BY TypeParts DEF ExpiryInv
  <1>1. \A k \in Expiry!Cached' : k \in Expiry!Cached /\ raw'[k] = raw[k]
    BY DEF Moves, Expiry!Cached
  <1>2. IsFiniteSet(Expiry!Cached')
    <2>1. Expiry!Cached' \in SUBSET Expiry!Cached
      BY <1>1
    <2>2. QED
      BY <2>1, <1>0, FS_Subset DEF Parts
  <1>3. Versioned'
    <2>1. \A k \in Expiry!Cached' : raw'[k].ver <= ver
      BY <1>0, <1>1 DEF Parts, Versioned
    <2>2. \A p \in pending' : p.ver <= ver
      BY <1>0 DEF Parts, Versioned, Moves
    <2>3. \A e \in Sent' : e.ver <= ver
      BY <1>0 DEF Parts, Versioned, Moves
    <2>4. QED
      BY <2>1, <2>2, <2>3 DEF Versioned, Moves
  <1>4. InTime'
    <2> SUFFICES ASSUME NEW p \in pending', raw'[p.key] # NoEntry, raw'[p.key].ver = p.ver
                 PROVE  raw'[p.key].expiry <= now' + p.ttl
      BY DEF InTime
    <2>1. p \in pending /\ p.key \in IndexKey /\ p.ttl \in Nat
      BY <1>0, IndexTyped DEF Moves
    <2>2. raw'[p.key] = raw[p.key] /\ p.key \in Expiry!Cached
      BY <2>1 DEF Moves, Expiry!Cached
    <2>3. raw[p.key].expiry <= now + p.ttl
      BY <1>0, <2>1, <2>2 DEF Parts, InTime
    <2>4. raw[p.key].expiry \in Nat /\ now \in Nat /\ now' \in Nat /\ now <= now'
      BY <1>0, <2>2, EntryTyped DEF MapTypes, Moves
    <2>5. QED
      BY <2>1, <2>2, <2>3, <2>4
  <1>5. QED
    BY <1>2, <1>3, <1>4

\* What an entry has for an index.
HasIndex(k, P, S, D) ==
    \/ raw[k].ver \in D
    \/ \E p \in P : p.key = k /\ p.ver = raw[k].ver
    \/ \E e \in S : e.key = k /\ e.ver = raw[k].ver /\ e.expiry >= raw[k].expiry

\* The index of an entry, wherever it is.
LEMMA IndexedNow == Expiry!Indexed <=> \A k \in Expiry!Cached : HasIndex(k, pending, Sent, dropped)
  <1>1. Sent = Expiry!Range(addHeapChan) \cup Expiry!Range(held) \cup Expiry!Range(expiredHeap)
    BY DEF Sent, InHeap, AtWorker, InChan
  <1>2. QED
    BY <1>1 DEF Expiry!Indexed, HasIndex

\* A step that moves indexes keeps Indexed if every entry that stays keeps its index.
LEMMA IndexedNext ==
  ASSUME ExpiryInv, Moves,
         \A k \in Expiry!Cached : raw'[k] = raw[k] /\ HasIndex(k, pending, Sent, dropped)
                                  => HasIndex(k, pending', Sent', dropped')
  PROVE  Expiry!Indexed'
  <1>1. Sent' = Expiry!Range(addHeapChan') \cup Expiry!Range(held') \cup Expiry!Range(expiredHeap')
    BY DEF Sent, InHeap, AtWorker, InChan
  <1>2. ASSUME NEW k \in Expiry!Cached'
        PROVE  \/ raw'[k].ver \in dropped'
               \/ \E p \in pending' : p.key = k /\ p.ver = raw'[k].ver
               \/ \E e \in Sent' : e.key = k /\ e.ver = raw'[k].ver /\ e.expiry >= raw'[k].expiry
    <2>1. k \in Expiry!Cached /\ raw'[k] = raw[k]
      BY DEF Moves, Expiry!Cached
    <2>2. HasIndex(k, pending, Sent, dropped)
      BY <2>1, IndexedNow DEF ExpiryInv, Parts
    <2>3. HasIndex(k, pending', Sent', dropped')
      BY <2>1, <2>2
    <2>4. QED
      BY <2>1, <2>3 DEF HasIndex
  <1>3. QED
    BY <1>1, <1>2 DEF Expiry!Indexed

\* AddToExpiredHeap: the index takes the place of the call, or is dropped.
LEMMA AddKeeps ==
  ASSUME ExpiryInv, NEW p \in pending, Expiry!AddToExpiredHeap(p)
  PROVE  Parts'
  <1> DEFINE e == [key |-> p.key, expiry |-> now + p.ttl, ver |-> p.ver]
  <1>0. MapTypes /\ SeqTypes /\ Parts /\ ExpiryAssumption
    BY TypeParts DEF ExpiryInv
  <1>1. e \in Expiry!Index /\ e.key = p.key /\ e.ver = p.ver /\ e.expiry = now + p.ttl
    BY <1>0, IndexTyped
  <1>2. /\ pending' = pending \ {p} /\ UNCHANGED <<now, raw, held, expiredHeap, ver, clean>>
        /\ \/ addHeapChan' = Append(addHeapChan, e) /\ UNCHANGED dropped
           \/ addHeapChan' = addHeapChan /\ dropped' = dropped \cup {p.ver}
    BY DEF Expiry!AddToExpiredHeap
  <1>3. InHeap' = InHeap /\ AtWorker' = AtWorker
    BY <1>2 DEF InHeap, AtWorker
  <1> HIDE DEF e
  <1>4. /\ \A f \in Sent : f.ver # e.ver
        /\ \A q \in pending' : q \in pending /\ q.ver # e.ver
    BY <1>0, <1>1, <1>2 DEF Parts, Once, Apart
  <1>5. \/ InChan' = InChan \cup {e} /\ Sent' = Sent \cup {e} /\ Distinct(addHeapChan') /\ dropped' = dropped
        \/ InChan' = InChan /\ Sent' = Sent /\ Distinct(addHeapChan') /\ dropped' = dropped \cup {p.ver}
    <2>1. CASE addHeapChan' = Append(addHeapChan, e) /\ UNCHANGED dropped
      <3>1. addHeapChan \in Seq(Expiry!Index) /\ Distinct(addHeapChan)
        BY <1>0 DEF SeqTypes, Parts, Once
      <3>2. \A f \in Expiry!Range(addHeapChan) : f.ver # e.ver
        BY <1>4 DEF Sent, InChan
      <3>3. Expiry!Range(addHeapChan') = Expiry!Range(addHeapChan) \cup {e} /\ Distinct(addHeapChan')
        BY <1>1, <2>1, <3>1, <3>2, RangeOfAppend
      <3>4. QED
        BY <1>3, <2>1, <3>3 DEF Sent, InChan
    <2>2. CASE addHeapChan' = addHeapChan /\ dropped' = dropped \cup {p.ver}
      BY <1>0, <1>3, <2>2 DEF Sent, InChan, Parts, Once
    <2>3. QED
      BY <1>2, <2>1, <2>2
  <1>6. Moves
    <2>1. now \in Nat /\ now <= now
      BY <1>0 DEF MapTypes
    <2>2. \A f \in Sent' : f \in Sent \/ f.ver = p.ver
      BY <1>1, <1>5
    <2>3. QED
      BY <1>2, <2>1, <2>2 DEF Moves
  <1>7. Once'
    <2>1. Distinct(expiredHeap') /\ Distinct(addHeapChan')
      BY <1>0, <1>2, <1>5 DEF Parts, Once
    <2>2. Apart(InHeap', AtWorker') /\ Apart(InHeap', InChan') /\ Apart(AtWorker', InChan')
      BY <1>0, <1>3, <1>4, <1>5 DEF Parts, Once, Apart, Sent
    <2>3. Apart(pending', Sent') /\ \A q, r \in pending' : q.ver = r.ver => q = r
      BY <1>0, <1>4, <1>5 DEF Parts, Once, Apart
    <2>4. QED
      BY <2>1, <2>2, <2>3 DEF Once
  <1>8. Cleared'
    BY <1>0, <1>2, <1>3 DEF Parts, Cleared, Expiry!Valid
  <1>9. ASSUME NEW k \in Expiry!Cached, HasIndex(k, pending, Sent, dropped)
        PROVE  HasIndex(k, pending', Sent', dropped')
    <2>1. CASE p.key = k /\ p.ver = raw[k].ver
      <3>1. CASE Sent' = Sent \cup {e}
        <4>a. raw[k] # NoEntry /\ raw[k].expiry \in Nat
          BY <1>0, EntryTyped
        <4>b. now \in Nat /\ p.ttl \in Nat
          BY <1>0, IndexTyped DEF MapTypes
        <4>1. raw[k].expiry <= now + p.ttl /\ raw[k].expiry \in Nat /\ now + p.ttl \in Nat
          BY <1>0, <2>1, <4>a, <4>b DEF Parts, InTime
        <4>2. e.expiry >= raw[k].expiry
          BY <1>1, <4>1
        <4>3. QED
          BY <1>1, <2>1, <3>1, <4>2 DEF HasIndex
      <3>2. CASE dropped' = dropped \cup {p.ver}
        BY <2>1, <3>2 DEF HasIndex
      <3>3. QED
        BY <1>5, <3>1, <3>2
    <2>2. CASE ~(p.key = k /\ p.ver = raw[k].ver)
      <3>1. Sent \subseteq Sent' /\ dropped \subseteq dropped' /\ pending' = pending \ {p}
        BY <1>2, <1>5
      <3>2. QED
        BY <1>9, <2>2, <3>1 DEF HasIndex
    <2>3. QED
      BY <2>1, <2>2
  <1>10. Expiry!Indexed'
    BY <1>6, <1>9, IndexedNext
  <1>11. QED
    BY <1>6, <1>7, <1>8, <1>10, MovesKeeps DEF Parts

\* A step in which every index stays and moves on by one place at most.
LEMMA PassesOn ==
  ASSUME ExpiryInv, UNCHANGED <<now, raw, pending, dropped, ver, clean>>, Sent' = Sent,
         Distinct(expiredHeap'), Distinct(addHeapChan'),
         Apart(InHeap', AtWorker'), Apart(InHeap', InChan'), Apart(AtWorker', InChan'),
         InHeap' = InHeap \/ clean.step # "clear"
  PROVE  Parts'
  <1>0. MapTypes /\ Parts
    BY TypeParts DEF ExpiryInv
  <1>1. Moves
    BY <1>0 DEF Moves, MapTypes
  <1>2. Once'
    BY <1>0 DEF Parts, Once, Apart
  <1>3. Cleared'
    BY <1>0 DEF Parts, Cleared, Expiry!Valid
  <1>4. Expiry!Indexed'
    BY <1>1, IndexedNext DEF HasIndex
  <1>5. QED
    BY <1>1, <1>2, <1>3, <1>4, MovesKeeps DEF Parts

\* Receive: from the channel to the worker.
LEMMA ReceiveKeeps ==
  ASSUME ExpiryInv, Expiry!Receive
  PROVE  Parts'
  <1> DEFINE x == Head(addHeapChan)
  <1>0. SeqTypes /\ Parts
    BY TypeParts DEF ExpiryInv
  <1>1. /\ held = <<>> /\ addHeapChan # <<>> /\ held' = <<x>> /\ addHeapChan' = Tail(addHeapChan)
        /\ UNCHANGED <<now, raw, pending, dropped, ver, clean>> /\ expiredHeap' = expiredHeap
    BY DEF Expiry!Receive
  <1>2. /\ x \in Expiry!Index /\ InChan = {x} \cup InChan'
        /\ Distinct(addHeapChan') /\ \A e \in InChan' : e.ver # x.ver
    BY <1>0, <1>1, RangeOfTail DEF SeqTypes, Parts, Once, InChan
  <1> HIDE DEF x
  <1>3. AtWorker = {} /\ AtWorker' = {x} /\ InHeap' = InHeap
    BY <1>1, <1>2, RangeOfFew DEF AtWorker, InHeap
  <1>4. Sent' = Sent
    BY <1>2, <1>3 DEF Sent
  <1>5. Apart(InHeap', AtWorker') /\ Apart(InHeap', InChan') /\ Apart(AtWorker', InChan')
    BY <1>0, <1>2, <1>3 DEF Parts, Once, Apart
  <1>6. Distinct(expiredHeap')
    BY <1>0, <1>1 DEF Parts, Once
  <1>7. QED
    BY <1>1, <1>2, <1>3, <1>4, <1>5, <1>6, PassesOn

\* A sequence that is not empty and holds one element at most.
LEMMA RangeOfOne ==
  ASSUME NEW T, NEW s \in Seq(T), s # <<>>, Len(s) <= 1
  PROVE  s[1] \in T /\ Expiry!Range(s) = {s[1]}
  <1>1. Len(s) = 1
    <2>1. Len(s) # 0
      OBVIOUS
    <2>2. Len(s) \in Nat
      OBVIOUS
    <2>3. QED
      BY <2>1, <2>2
  <1>2. 1 .. Len(s) = {1}
    BY <1>1
  <1>3. QED
    BY <1>1, <1>2 DEF Expiry!Range

\* PushHeld: from the worker to the heap.
LEMMA PushKeeps ==
  ASSUME ExpiryInv, Expiry!PushHeld
  PROVE  Parts'
  <1> DEFINE x == held[1]
  <1>0. SeqTypes /\ Parts
    BY TypeParts DEF ExpiryInv
  <1>1. /\ held # <<>> /\ held' = <<>> /\ expiredHeap' = Append(expiredHeap, x) /\ clean.step = "idle"
        /\ UNCHANGED <<now, raw, pending, dropped, ver, clean>> /\ addHeapChan' = addHeapChan
    BY DEF Expiry!PushHeld, Expiry!Push
  <1>2. x \in Expiry!Index /\ AtWorker = {x} /\ AtWorker' = {}
    <2>1. held \in Seq(Expiry!Index) /\ held # <<>> /\ Len(held) <= 1
      BY <1>0, <1>1 DEF SeqTypes
    <2>2. x \in Expiry!Index
      BY <2>1, RangeOfOne
    <2>3. AtWorker = {x}
      BY <2>1, RangeOfOne DEF AtWorker
    <2>4. AtWorker' = {}
      BY <1>1, <2>2, RangeOfFew DEF AtWorker
    <2>5. QED
      BY <2>2, <2>3, <2>4
  <1> HIDE DEF x
  <1>3. InHeap' = InHeap \cup {x} /\ Distinct(expiredHeap') /\ InChan' = InChan
    <2>1. expiredHeap \in Seq(Expiry!Index) /\ Distinct(expiredHeap) /\ \A e \in Expiry!Range(expiredHeap) : e.ver # x.ver
      BY <1>0, <1>2 DEF SeqTypes, Parts, Once, Apart, InHeap
    <2>2. Expiry!Range(expiredHeap') = Expiry!Range(expiredHeap) \cup {x} /\ Distinct(expiredHeap')
      BY <1>1, <1>2, <2>1, RangeOfAppend
    <2>3. QED
      BY <1>1, <2>2 DEF InHeap, InChan
  <1>4. Sent' = Sent
    BY <1>2, <1>3 DEF Sent
  <1>5. Apart(InHeap', AtWorker') /\ Apart(InHeap', InChan') /\ Apart(AtWorker', InChan')
    BY <1>0, <1>2, <1>3 DEF Parts, Once, Apart
  <1>6. Distinct(addHeapChan')
    BY <1>0, <1>1 DEF Parts, Once
  <1>7. QED
    BY <1>1, <1>3, <1>4, <1>5, <1>6, PassesOn

\* A step after which fewer indexes are in the heap, none of them of an entry.
LEMMA LosesGhosts ==
  ASSUME ExpiryInv, UNCHANGED <<pending, dropped, ver, held, addHeapChan>>, now' \in Nat, now <= now',
         \A k \in IndexKey : raw'[k] \in {raw[k], NoEntry},
         InHeap' \subseteq InHeap, Distinct(expiredHeap'),
         \A e \in InHeap : e \in InHeap' \/ ~Expiry!Valid(e) \/ raw'[e.key] = NoEntry,
         clean'.step = "clear" => \A e \in InHeap' : clean.step = "clear" \/ raw'[e.key] = NoEntry
  PROVE  Parts'
  <1>0. MapTypes /\ SeqTypes /\ Parts
    BY TypeParts DEF ExpiryInv
  <1>1. AtWorker' = AtWorker /\ InChan' = InChan /\ Sent' \subseteq Sent
    BY DEF AtWorker, InChan, Sent
  <1>2. Moves
    BY <1>1 DEF Moves
  <1>3. Once'
    <2>1. Distinct(expiredHeap') /\ Distinct(addHeapChan')
      BY <1>0 DEF Parts, Once
    <2>2. Apart(InHeap', AtWorker') /\ Apart(InHeap', InChan') /\ Apart(AtWorker', InChan')
      BY <1>0, <1>1 DEF Parts, Once, Apart
    <2>3. Apart(pending', Sent') /\ \A q, r \in pending' : q.ver = r.ver => q = r
      BY <1>0, <1>1 DEF Parts, Once, Apart
    <2>4. QED
      BY <2>1, <2>2, <2>3 DEF Once
  <1>4. Cleared'
    <2> SUFFICES ASSUME clean'.step = "clear", NEW e \in InHeap', Expiry!Valid(e)' PROVE FALSE
      BY DEF Cleared
    <2>1. raw'[e.key] # NoEntry /\ raw'[e.key].ver = e.ver /\ clean.step = "clear"
      BY DEF Expiry!Valid
    <2>2. e.key \in IndexKey
      BY <1>0, SentTyped DEF Sent
    <2>3. raw[e.key] = raw'[e.key]
      BY <2>1, <2>2
    <2>4. QED
      BY <1>0, <2>1, <2>3 DEF Parts, Cleared, Expiry!Valid
  <1>5. ASSUME NEW k \in Expiry!Cached, raw'[k] = raw[k], HasIndex(k, pending, Sent, dropped)
        PROVE  HasIndex(k, pending', Sent', dropped')
    <2>1. raw[k] # NoEntry
      BY DEF Expiry!Cached
    <2>2. \A e \in InHeap : e.key = k /\ e.ver = raw[k].ver => e \in InHeap'
      BY <1>5, <2>1 DEF Expiry!Valid
    <2>3. \A e \in Sent : e.key = k /\ e.ver = raw[k].ver => e \in Sent'
      BY <1>1, <2>2 DEF Sent
    <2>4. QED
      BY <1>5, <2>3 DEF HasIndex
  <1>6. Expiry!Indexed'
    BY <1>2, <1>5, IndexedNext
  <1>7. QED
    BY <1>2, <1>3, <1>4, <1>6, MovesKeeps DEF Parts

\* Every step keeps the other parts.
LEMMA ExpirySteps ==
  ASSUME ExpiryInv, [Expiry!Next]_(Expiry!vars)
  PROVE  ExpiryInv'
  <1>0. MapTypes /\ SeqTypes /\ CleanTypes /\ Parts /\ ExpiryAssumption /\ now \in Nat /\ now <= now
    BY TypeParts DEF ExpiryInv, MapTypes
  <1>1. Expiry!TypeOK' /\ ExpiryAssumption'
    BY ExpiryTypes DEF ExpiryInv, ExpiryAssumption, Expiry!NumAssumption, Expiry!ConfigAssumption, Expiry!NoEntryAssumption
  <1> SUFFICES Parts'
    BY <1>1 DEF ExpiryInv
  <1>2. CASE Quiet
    <2>1. InHeap' = InHeap /\ Distinct(expiredHeap)
      BY <1>0, <1>2 DEF Quiet, InHeap, Parts, Once
    <2>2. QED
      BY <1>0, <1>2, <2>1, LosesGhosts DEF Quiet
  <1>3. CASE Expiry!Tick
    <2>1. InHeap' = InHeap /\ Distinct(expiredHeap) /\ UNCHANGED <<raw, pending, addHeapChan, held, expiredHeap, dropped, ver, clean>>
          /\ now' = now + 1
      BY <1>0, <1>3 DEF Expiry!Tick, InHeap, Parts, Once
    <2>2. now' \in Nat /\ now <= now'
      BY <1>0, <2>1
    <2>3. QED
      BY <2>1, <2>2, LosesGhosts
  <1>4. CASE Expiry!ClearRaw
    <2>1. /\ raw' = [k \in IndexKey |-> NoEntry] /\ UNCHANGED <<now, pending, addHeapChan, held, expiredHeap, dropped, ver>>
          /\ InHeap' = InHeap /\ Distinct(expiredHeap)
      BY <1>0, <1>4 DEF Expiry!ClearRaw, InHeap, Parts, Once
    <2>2. \A e \in InHeap : raw'[e.key] = NoEntry
      BY <1>0, <2>1, SentTyped DEF Sent
    <2>3. QED
      BY <1>0, <2>1, <2>2, LosesGhosts
  <1>5. CASE Expiry!ClearHeap
    <2>1. /\ expiredHeap' = <<>> /\ clean.step = "clear" /\ clean'.step = "idle"
          /\ UNCHANGED <<now, raw, pending, addHeapChan, held, dropped, ver>>
      BY <1>5 DEF Expiry!ClearHeap, Expiry!Idle
    <2>2. InHeap' = {} /\ Distinct(expiredHeap')
      BY <2>1 DEF InHeap, Expiry!Range, Distinct
    <2>3. \A e \in InHeap : ~Expiry!Valid(e)
      BY <1>0, <2>1 DEF Parts, Cleared
    <2>4. QED
      BY <1>0, <2>1, <2>2, <2>3, LosesGhosts
  <1>6. CASE Expiry!PopGhost \/ Expiry!SweepGhost \/ Expiry!Delete
    <2>1. /\ expiredHeap # <<>> /\ expiredHeap' = Expiry!HeapPop(expiredHeap)
          /\ UNCHANGED <<now, pending, addHeapChan, held, dropped, ver>>
          /\ clean'.step # "clear"
      BY <1>0, <1>6 DEF Expiry!PopGhost, Expiry!SweepGhost, Expiry!Sweeping, Expiry!Delete, CleanTypes
    <2>2. /\ InHeap' \subseteq InHeap /\ InHeap \subseteq {Expiry!Top} \cup InHeap' /\ Distinct(expiredHeap')
      BY <1>0, <2>1, RangeOfPop DEF SeqTypes, InHeap, Parts, Once, Expiry!Top
    <2>3. /\ \A k \in IndexKey : raw'[k] \in {raw[k], NoEntry}
          /\ ~Expiry!Valid(Expiry!Top) \/ raw'[Expiry!Top.key] = NoEntry
      <3>1. Expiry!Top.key \in IndexKey
        <4>1. Expiry!Top \in Expiry!Index
          BY <1>0, <2>1 DEF SeqTypes, Expiry!Top
        <4>2. QED
          BY <4>1 DEF Expiry!Index
      <3>2. CASE Expiry!PopGhost \/ Expiry!SweepGhost
        BY <3>2 DEF Expiry!PopGhost, Expiry!SweepGhost
      <3>3. CASE Expiry!Delete
        BY <1>0, <3>1, <3>3 DEF Expiry!Delete, MapTypes
      <3>4. QED
        BY <1>6, <3>2, <3>3
    <2>4. \A e \in InHeap : e \in InHeap' \/ ~Expiry!Valid(e) \/ raw'[e.key] = NoEntry
      BY <2>2, <2>3
    <2>5. QED
      BY <1>0, <2>1, <2>2, <2>3, <2>4, LosesGhosts
  <1>7. CASE Expiry!Receive \/ Expiry!PushHeld
    BY <1>7, ReceiveKeeps, PushKeeps
  <1>8. CASE \E k, victim \in IndexKey, ttl \in TTL : Expiry!SetRaw(k, ttl, victim)
    BY <1>8, SetRawKeeps
  <1>9. CASE \E p \in pending : Expiry!AddToExpiredHeap(p)
    BY <1>9, AddKeeps
  <1>10. CASE Expiry!CleanBegin \/ Expiry!EndGhosts \/ Expiry!Choose \/ Expiry!EndSweep \/ Expiry!TimeOut
              \/ UNCHANGED Expiry!vars
    <2>1. ASSUME Expiry!CleanBegin PROVE Quiet
      BY <2>1 DEF Quiet, Expiry!CleanBegin, Expiry!Idle
    <2>2. ASSUME Expiry!EndGhosts \/ Expiry!Choose PROVE Quiet
      BY <1>0, <2>2 DEF Quiet, Expiry!EndGhosts, Expiry!Choose, CleanTypes
    <2>3. ASSUME Expiry!EndSweep \/ Expiry!TimeOut PROVE Quiet
      BY <2>3 DEF Quiet, Expiry!EndSweep, Expiry!TimeOut, Expiry!Idle
    <2>4. ASSUME UNCHANGED Expiry!vars PROVE Quiet
      BY <1>0, <2>4 DEF Quiet, Expiry!vars
    <2>5. Quiet
      BY <1>10, <2>1, <2>2, <2>3, <2>4
    <2>6. QED
      BY <1>2, <2>5
  <1>11. QED
    BY <1>3, <1>4, <1>5, <1>6, <1>7, <1>8, <1>9, <1>10 DEF Expiry!Next, Expiry!Clean

\* The first state, with nothing cached.
LEMMA ExpiryStarts ==
  ASSUME ExpiryAssumption, Expiry!Init
  PROVE  ExpiryInv
  <1>1. /\ now = 0 /\ raw = [k \in IndexKey |-> NoEntry] /\ pending = {} /\ addHeapChan = <<>> /\ held = <<>>
        /\ expiredHeap = <<>> /\ dropped = {} /\ expiredCount = 0 /\ ver = 0 /\ clean = Expiry!Idle
    BY DEF Expiry!Init
  <1>2. Expiry!TypeOK
    BY <1>1 DEF Expiry!TypeOK, Expiry!Idle, ExpiryAssumption, Expiry!NumAssumption
  <1>3. Expiry!Cached = {}
    BY <1>1 DEF Expiry!Cached
  <1>4. IsFiniteSet(Expiry!Cached)
    BY <1>3, FS_EmptySet
  <1>5. InHeap = {} /\ AtWorker = {} /\ InChan = {} /\ Sent = {}
    BY <1>1 DEF InHeap, AtWorker, InChan, Sent, Expiry!Range
  <1>6. Versioned /\ InTime /\ Expiry!Indexed
    BY <1>1, <1>3, <1>5 DEF Versioned, InTime, Expiry!Indexed
  <1>7. Once
    BY <1>1, <1>5 DEF Once, Apart, Distinct
  <1>8. Cleared
    BY <1>1 DEF Cleared, Expiry!Idle
  <1>9. QED
    BY <1>2, <1>4, <1>6, <1>7, <1>8 DEF ExpiryInv, Parts

\* ExpiryInv is an inductive invariant of the expiry of the raw cache.
THEOREM ExpiryInvariant == ExpiryAssumption /\ Expiry!Spec => []ExpiryInv
  <1>1. ExpiryAssumption /\ Expiry!Init => ExpiryInv
    BY ExpiryStarts
  <1>2. ExpiryInv /\ [Expiry!Next]_(Expiry!vars) => ExpiryInv'
    BY ExpirySteps
  <1>3. QED
    BY <1>1, <1>2, PTL DEF Expiry!Spec

\* No entry of the raw cache becomes uncleanable, except one whose index found
\* addHeapChan full, and none is found expired too early: for all capacities and
\* batch limits, the index of a cached entry is in the heap or on its way there
\* (cache_raw.go, cache_heap.go, cache_cleanup.go).
THEOREM EntriesStayIndexed == ExpiryAssumption /\ Expiry!Spec => []Indexed
  <1>1. ExpiryInv => Indexed
    BY DEF ExpiryInv, Parts, Indexed
  <1>2. QED
    BY <1>1, ExpiryInvariant, PTL

\* recalculateActualExpiredCount counts an entry once: two indexes of the heap that
\* stand for cached entries stand for two of them.
LEMMA CountedOnce ==
  ASSUME ExpiryInv
  PROVE  Expiry!RecalculateCount <= Cardinality(Expiry!Cached)
  <1> DEFINE N == {n \in 1 .. Len(expiredHeap) :
        /\ \A m \in 1 .. n : expiredHeap[m].expiry <= clean.now
        /\ Expiry!Valid(expiredHeap[n])}
             f == [n \in N |-> expiredHeap[n].key]
  <1>1. SeqTypes /\ IsFiniteSet(Expiry!Cached) /\ Distinct(expiredHeap)
    BY TypeParts DEF ExpiryInv, Parts, Once
  <1>2. ASSUME NEW n \in N
        PROVE  /\ n \in 1 .. Len(expiredHeap) /\ expiredHeap[n].key \in Expiry!Cached
               /\ expiredHeap[n].ver = raw[expiredHeap[n].key].ver
    <2>1. n \in 1 .. Len(expiredHeap) /\ Expiry!Valid(expiredHeap[n])
      OBVIOUS
    <2>2. expiredHeap[n] \in Expiry!Index
      BY <1>1, <2>1 DEF SeqTypes
    <2>3. expiredHeap[n].key \in IndexKey
      BY <2>2 DEF Expiry!Index
    <2>4. QED
      BY <2>1, <2>3 DEF Expiry!Valid, Expiry!Cached
  <1>3. Expiry!RecalculateCount = Cardinality(N)
    BY ExpiryCount DEF Expiry!RecalculateCount
  <1> HIDE DEF N
  <1>4. f \in [N -> Expiry!Cached]
    BY <1>2
  <1>5. ASSUME NEW i \in N, NEW j \in N, f[i] = f[j] PROVE i = j
    BY <1>1, <1>2, <1>5 DEF Distinct
  <1>6. f \in Injection(N, Expiry!Cached)
    BY <1>4, <1>5 DEF Injection, IsInjective
  <1> HIDE DEF f
  <1>7. QED
    BY <1>1, <1>3, <1>6, FS_Injection

\* The number of expired entries the web page shows (actualExpiredCount, set by
\* CleanExpired and by Clear) is never more than the number of cached entries: no
\* ghost index is counted, and no entry twice.
THEOREM CountIsBounded == ExpiryAssumption /\ Expiry!Spec => CountNeverExceeds
  <1>1. ASSUME ExpiryInv, [Expiry!Next]_(Expiry!vars), expiredCount' # expiredCount
        PROVE  expiredCount' <= Expiry!Cardinality(Expiry!Cached)
    <2>1. CASE Expiry!EndSweep \/ Expiry!TimeOut
      <3>1. expiredCount' = Expiry!RecalculateCount
        BY <2>1 DEF Expiry!EndSweep, Expiry!TimeOut
      <3>2. QED
        BY <1>1, <3>1, CountedOnce, ExpiryCount
    <2>2. CASE Expiry!ClearHeap
      <3>1. expiredCount' = 0 /\ IsFiniteSet(Expiry!Cached)
        BY <1>1, <2>2 DEF Expiry!ClearHeap, ExpiryInv, Parts
      <3>2. Cardinality(Expiry!Cached) \in Nat
        BY <3>1, FS_CardinalityType
      <3>3. QED
        BY <3>1, <3>2, ExpiryCount
    <2>3. Expiry!EndSweep \/ Expiry!TimeOut \/ Expiry!ClearHeap
      BY <1>1 DEF Expiry!Next, Expiry!Clean, Expiry!vars, Expiry!SetRaw, Expiry!AddToExpiredHeap, Expiry!Receive,
                  Expiry!PushHeld, Expiry!ClearRaw, Expiry!Tick, Expiry!CleanBegin, Expiry!PopGhost, Expiry!EndGhosts,
                  Expiry!SweepGhost, Expiry!Choose, Expiry!Delete
    <2>4. QED
      BY <2>1, <2>2, <2>3
  <1>2. ExpiryInv /\ [Expiry!Next]_(Expiry!vars)
          => [expiredCount' # expiredCount => expiredCount' <= Expiry!Cardinality(Expiry!Cached)]_(Expiry!vars)
    BY <1>1
  <1>3. QED
    BY <1>2, ExpiryInvariant, PTL DEF Expiry!Spec, CountNeverExceeds, Expiry!CountNeverExceeds
==============================================================================
