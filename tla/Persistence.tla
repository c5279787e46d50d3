---------------------------- MODULE Persistence -----------------------------
(***************************************************************************)
(* Saving the raw cache and loading it at the start                        *)
(* (cache/cache_persistence.go, dnsserver/server_lifecycle.go, tasks.go),  *)
(* with crashes between any two steps.  The periodic save writes           *)
(* dns_cache.bin, Shutdown writes dns_cache.json, and only dns_cache.bin   *)
(* is read.  A save reads the change counter, writes a temporary file      *)
(* shard by shard while the cache changes, and renames it; a Clear empties *)
(* the shards one by one and counts as a change only after the last.  The  *)
(* cache is the BoundedMap that ShardedCache implements.                   *)
(***************************************************************************)
EXTENDS Integers, FiniteSets

CONSTANTS
    Key, Value, None, Shard, ShardOf(_), Capacity,
    MaxDirty            \* bound: changes counted when another one begins

DiskAssumption ==
    /\ IsFiniteSet(Key) /\ Shard # {} /\ \A k \in Key : ShardOf(k) \in Shard
    /\ Value # {} /\ None \notin Value

Saver == {"bin", "json"}        \* saveCacheRoutine, Shutdown

VARIABLES
    mem,            \* Key -> entry of the raw cache, None if there is none
    dirty,          \* rawCache.dirty
    lastSavedDirty,
    file,           \* dns_cache.bin (nobody reads what dns_cache.json holds)
    pc,             \* Saver -> position in SaveToDisk
    seenDirty,      \* Saver -> currentDirty, while it saves
    temp,           \* Saver -> what its temporary file holds
    todo,           \* Saver -> shards not yet streamed
    clearing,       \* a Clear is under way
    toClear,        \* shards it has not emptied yet
    process,        \* "up", "stopping" or "down"
    history         \* Shard -> contents since the start (history variable)

vars == <<mem, dirty, lastSavedDirty, file, pc, seenDirty, temp, todo,
          clearing, toClear, process, history>>
saveVars == <<pc, seenDirty, temp, todo>>
clearVars == <<clearing, toClear>>

Cache == INSTANCE BoundedMap WITH map <- mem

KeysOf(s) == {k \in Key : ShardOf(k) = s}
ContentOf(m, s) == [k \in KeysOf(s) |-> m[k]]
EmptyShard(s) == [k \in KeysOf(s) |-> None]
NoEntries == [s \in Shard |-> EmptyShard(s)]

\* format "old" is the file of an earlier version: entries only.  In the new
\* format a header precedes the entries and a footer follows them.
Absent == [format |-> "absent", entries |-> NoEntries, short |-> FALSE]
OldFiles == {[format |-> "old", entries |-> e, short |-> FALSE] :
                e \in {[s \in Shard |-> ContentOf(m, s)] :
                          m \in [Key -> {None, CHOOSE v \in Value : TRUE}]}}

Init ==
    /\ mem = [k \in Key |-> None]
    /\ dirty = 0 /\ lastSavedDirty = 0
    /\ file \in {Absent} \cup OldFiles
    /\ \A s \in Shard : Cardinality({k \in KeysOf(s) :
                            file.entries[s][k] # None}) <= Capacity
    /\ pc = [f \in Saver |-> "idle"] /\ seenDirty = [f \in Saver |-> 0]
    /\ temp = [f \in Saver |-> Absent] /\ todo = [f \in Saver |-> {}]
    /\ clearing = FALSE /\ toClear = {}
    /\ process = "down" /\ history = [s \in Shard |-> {EmptyShard(s)}]

(***************************************************************************)
(* The running cache.                                                      *)
(***************************************************************************)
Noted(s) == history' = [history EXCEPT ![s] = @ \cup {ContentOf(mem', s)}]

\* Only a new key counts as a change.
Set(k, v) ==
    /\ process # "down" /\ dirty < MaxDirty
    /\ Cache!Set(k, v)
    /\ dirty' = IF mem[k] = None THEN dirty + 1 ELSE dirty
    /\ Noted(ShardOf(k))
    /\ UNCHANGED <<lastSavedDirty, file, saveVars, clearVars, process>>

\* Cleaning holds c.mu, as Clear does; storing an answer does not.
Delete(k) ==
    /\ process # "down" /\ dirty < MaxDirty /\ mem[k] # None /\ ~clearing
    /\ Cache!Delete(k)
    /\ dirty' = dirty + 1
    /\ Noted(ShardOf(k))
    /\ UNCHANGED <<lastSavedDirty, file, saveVars, clearVars, process>>

\* Cache.Clear under c.mu, from the web interface.
ClearBegin ==
    /\ process # "down" /\ ~clearing /\ dirty < MaxDirty
    /\ clearing' = TRUE /\ toClear' = Shard
    /\ UNCHANGED <<mem, dirty, lastSavedDirty, file, saveVars, process, history>>

\* One shard under its lock.
ClearShard(s) ==
    /\ s \in toClear
    /\ toClear' = toClear \ {s}
    /\ mem' = [k \in Key |-> IF ShardOf(k) = s THEN None ELSE mem[k]]
    /\ Noted(s)
    /\ UNCHANGED <<dirty, lastSavedDirty, file, saveVars, clearing, process>>

ClearEnd ==
    /\ clearing /\ toClear = {}
    /\ clearing' = FALSE
    /\ dirty' = dirty + 1
    /\ UNCHANGED <<mem, lastSavedDirty, file, saveVars, toClear, process, history>>

(***************************************************************************)
(* SaveToDisk.                                                             *)
(***************************************************************************)
\* The periodic save starts on a tick, the other one in Shutdown.
MaySave(f) == process = IF f = "bin" THEN "up" ELSE "stopping"

\* os.Create and the header.
SaveBegin(f) ==
    /\ pc[f] = "idle" /\ MaySave(f) /\ dirty # lastSavedDirty
    /\ seenDirty' = [seenDirty EXCEPT ![f] = dirty]
    /\ temp' = [temp EXCEPT ![f] = [Absent EXCEPT !.format = "torn"]]
    /\ todo' = [todo EXCEPT ![f] = Shard]
    /\ pc' = [pc EXCEPT ![f] = "stream"]
    /\ UNCHANGED <<mem, dirty, lastSavedDirty, file, clearVars, process, history>>

\* One shard under its lock; the others go on changing.
SaveShard_InPlace(f, s) ==
    /\ pc[f] = "stream" /\ s \in todo[f]
    /\ file' = IF f = "bin" THEN [file EXCEPT !.entries[s] = ContentOf(mem, s)] ELSE file
    /\ temp' = [temp EXCEPT ![f].entries[s] = ContentOf(mem, s)]
    /\ todo' = [todo EXCEPT ![f] = @ \ {s}]
    /\ UNCHANGED <<mem, dirty, lastSavedDirty, pc, seenDirty, clearVars, process,
                   history>>

SaveShard(f, s) ==
    /\ pc[f] = "stream" /\ s \in todo[f]
    /\ temp' = [temp EXCEPT ![f].entries[s] = ContentOf(mem, s)]
    /\ todo' = [todo EXCEPT ![f] = @ \ {s}]
    /\ UNCHANGED <<mem, dirty, lastSavedDirty, file, pc, seenDirty, clearVars,
                   process, history>>

\* An entry of a shard cannot be encoded: it and all the rest are left out,
\* and the save goes on.
EncodeFails(f) ==
    /\ pc[f] = "stream"
    /\ \E s \in todo[f] : \E keys \in SUBSET Cache!Cached(s) :
        /\ keys # Cache!Cached(s)
        /\ temp' = [temp EXCEPT ![f].short = TRUE,
                                ![f].entries[s] = [k \in KeysOf(s) |->
                                    IF k \in keys THEN mem[k] ELSE None]]
    /\ todo' = [todo EXCEPT ![f] = {}]
    /\ UNCHANGED <<mem, dirty, lastSavedDirty, file, pc, seenDirty, clearVars,
                   process, history>>

\* A save that wrote no entry of a cache that has some has closed its file: the
\* footer fails.
SaveFooter(f) ==
    /\ pc[f] = "stream" /\ todo[f] = {}
    /\ temp[f].entries = NoEntries => \A k \in Key : mem[k] = None
    /\ temp' = [temp EXCEPT ![f].format = "new"]
    /\ pc' = [pc EXCEPT ![f] = "rename"]
    /\ UNCHANGED <<mem, dirty, lastSavedDirty, file, seenDirty, todo, clearVars,
                   process, history>>

Rename(f) ==
    /\ pc[f] = "rename"
    /\ file' = IF f = "bin" THEN temp[f] ELSE file
    /\ temp' = [temp EXCEPT ![f] = Absent]
    /\ pc' = [pc EXCEPT ![f] = "mark"]
    /\ UNCHANGED <<mem, dirty, lastSavedDirty, seenDirty, todo, clearVars,
                   process, history>>

\* Creating, writing the header or footer, or renaming failed.  A temporary
\* file that stays behind is truncated by the next save and read by nobody.
SaveFails(f) ==
    /\ pc[f] \in {"stream", "rename"}
    /\ temp' = [temp EXCEPT ![f] = Absent]
    /\ todo' = [todo EXCEPT ![f] = {}]
    /\ pc' = [pc EXCEPT ![f] = "idle"]
    /\ seenDirty' = [seenDirty EXCEPT ![f] = 0]
    /\ UNCHANGED <<mem, dirty, lastSavedDirty, file, clearVars, process, history>>

MarkSaved_Now(f) ==
    /\ pc[f] = "mark"
    /\ lastSavedDirty' = dirty
    /\ pc' = [pc EXCEPT ![f] = "idle"]
    /\ seenDirty' = [seenDirty EXCEPT ![f] = 0]
    /\ UNCHANGED <<mem, dirty, file, temp, todo, clearVars, process, history>>

MarkSaved(f) ==
    /\ pc[f] = "mark"
    /\ lastSavedDirty' = seenDirty[f]
    /\ pc' = [pc EXCEPT ![f] = "idle"]
    /\ seenDirty' = [seenDirty EXCEPT ![f] = 0]
    /\ UNCHANGED <<mem, dirty, file, temp, todo, clearVars, process, history>>

(***************************************************************************)
(* The process.                                                            *)
(***************************************************************************)
\* encoding/gob, external: decoding the footer into an entry is an error,
\* because the two types have no field in common.
DecodesToTheEnd(c) == c.format = "old"

\* LoadFromDisk of dns_cache.bin: nothing is stored unless the whole stream
\* was decoded.
LoadFromDisk ==
    LET loaded == [k \in Key |-> IF DecodesToTheEnd(file)
                                 THEN file.entries[ShardOf(k)][k] ELSE None]
        count == Cardinality({k \in Key : loaded[k] # None})
    IN  /\ process = "down"
        /\ process' = "up"
        /\ mem' = loaded
        /\ dirty' = count /\ lastSavedDirty' = count
        /\ history' = [s \in Shard |-> {ContentOf(loaded, s)}]
        /\ UNCHANGED <<file, saveVars, clearVars>>

Shutdown ==
    /\ process = "up"
    /\ process' = "stopping"
    /\ UNCHANGED <<mem, dirty, lastSavedDirty, file, saveVars, clearVars, history>>

\* The process ends: killed at any time, or after Shutdown has saved.  What a
\* save had not renamed stays in a temporary file that the next one truncates.
Exit ==
    /\ process # "down"
    /\ process' = "down"
    /\ mem' = [k \in Key |-> None]
    /\ dirty' = 0 /\ lastSavedDirty' = 0
    /\ pc' = [f \in Saver |-> "idle"] /\ seenDirty' = [f \in Saver |-> 0]
    /\ todo' = [f \in Saver |-> {}]
    /\ temp' = [f \in Saver |-> Absent]
    /\ clearing' = FALSE /\ toClear' = {}
    /\ history' = [s \in Shard |-> {EmptyShard(s)}]
    /\ UNCHANGED file

Next ==
    \/ \E k \in Key : Delete(k) \/ \E v \in Value : Set(k, v)
    \/ ClearBegin \/ (\E s \in Shard : ClearShard(s)) \/ ClearEnd
    \/ \E f \in Saver : \/ SaveBegin(f) \/ EncodeFails(f) \/ SaveFooter(f)
                        \/ Rename(f) \/ SaveFails(f) \/ MarkSaved(f)
                        \/ \E s \in Shard : SaveShard(f, s)
    \/ LoadFromDisk \/ Shutdown \/ Exit

Spec == Init /\ [][Next]_vars

(***************************************************************************)
(* Properties.                                                             *)
(***************************************************************************)
\* dns_cache.bin behaves as a durable store: the temporary file and the rename
\* hide every intermediate state of a save, whenever the process dies.
Contents(s) == [KeysOf(s) -> Value \cup {None}]
Durable == INSTANCE DurableStore WITH
    durable <- file.entries,
    seen <- history,
    Content <- Contents,
    Empty <- EmptyShard
AtomicSaves == Durable!Spec

\* If the next periodic save would be skipped, no key has come or gone since
\* the file was written, unless a Clear is under way, which counts at its end:
\* reading the counter before the entries is enough, although the cache changes
\* and is cleared while the file is written.
Skipped ==
    /\ process = "up" /\ dirty = lastSavedDirty /\ dirty > 0
    /\ file.format = "new" /\ ~file.short
    /\ \A f \in Saver : pc[f] = "idle"
SameKeysOnDisk ==
    \A k \in Key : (mem[k] = None) = (file.entries[ShardOf(k)][k] = None)

SkipLosesNoKey == Skipped /\ ~clearing => SameKeysOnDisk

(***************************************************************************)
(* What the code does not do (see the README).                             *)
(***************************************************************************)
\* A save is skipped only if no key has come or gone, whatever is under way.
NoSkipLosesKeys == Skipped => SameKeysOnDisk

\* A start after a completed save finds the entries.
StartRecovers ==
    [][LoadFromDisk /\ file.format = "new"
        => \A k \in Key : mem'[k] = file.entries[ShardOf(k)][k]]_vars
=============================================================================
