------------------------------ MODULE BitCask -------------------------------
(***************************************************************************)
(* The BitCask storage engine (src/storage/bitcask.rs): an append-only log *)
(* file, the keydir that maps live keys to value locations in it, recovery *)
(* after a crash, and compaction when the engine is opened.                *)
(*                                                                         *)
(* A file is a sequence of cells.  An entry is a cell with the key's       *)
(* length, a cell with the value's length (Tombstone for a delete), and    *)
(* the cells of the key and of the value: Header cells stand for the eight *)
(* bytes of the two lengths.  An unfinished write may leave any prefix of  *)
(* its cells, and a crash of the host any prefix beyond the synced cells.  *)
(***************************************************************************)
EXTENDS Integers, SequencesExt, FiniteSetsExt

CONSTANTS
    Keys, Values,    \* sequences of cells
    MinBytes,        \* garbage_min_bytes, in cells
    MinPercent,      \* garbage_min_fraction, in percent
    MaxFile,         \* bound: cells in the file when a write starts
    MaxReplaced,     \* bound: compactions between two syncs
    OrderedRename    \* whether the file system writes a file's data to disk
                     \* before a rename that publishes the file

VARIABLES
    file,      \* the log file
    synced,    \* how many of its cells are on disk for certain
    replaced,  \* files that a rename has replaced since the last sync, and
               \* that a crash of the host may bring back
    keydir,    \* key -> [offset, length] of its value
    phase,     \* "opened", "compacting" or "ready"
    newFile,   \* the temporary file of compaction, or what a crash left of it
    newKeydir, \* the keydir that compaction builds
    dirty      \* history: written to since the last flush

vars == <<file, synced, replaced, keydir, phase, newFile, newKeydir, dirty>>

Tombstone == -1
Header == 2
None == <<>>

\* The file and the value location after write_entry.
Encode(key, value) == <<Len(key), Len(value)>> \o key \o value
\* Mutant: a delete writes an empty value.
EncodeEmpty(key) == Encode(key, <<>>)
EncodeTombstone(key) == <<Len(key), Tombstone>> \o key
WriteEntry(f, key, value) ==
    [file |-> f \o Encode(key, value),
     location |-> [offset |-> Len(f) + Header + Len(key), length |-> Len(value)]]

ReadValue(f, location) ==
    SubSeq(f, location.offset + 1, location.offset + location.length)

Put(dir, key, location) ==
    [k \in DOMAIN dir \cup {key} |-> IF k = key THEN location ELSE dir[k]]
Drop(dir, key) == [k \in DOMAIN dir \ {key} |-> dir[k]]

\* build_keydir: the keydir of the complete entries, and the file without the
\* incomplete entry at its end, if any.
RECURSIVE Scan(_, _, _)
Scan(f, offset, dir) ==
    LET incomplete == [keydir |-> dir, file |-> SubSeq(f, 1, offset)]
        keyLen     == f[offset + 1]
        valueAt    == offset + Header + keyLen
        key        == SubSeq(f, offset + Header + 1, valueAt)
        valueLen   == f[offset + 2]
    IN  CASE offset >= Len(f) -> [keydir |-> dir, file |-> f]
          [] offset < Len(f) /\ offset + Header > Len(f) -> incomplete
          [] OTHER ->
               IF valueAt > Len(f) \/ valueAt + valueLen > Len(f) THEN incomplete
               ELSE IF valueLen < 0 THEN Scan(f, valueAt, Drop(dir, key))
               ELSE Scan(f, valueAt + valueLen,
                         Put(dir, key, [offset |-> valueAt, length |-> valueLen]))
BuildKeydir(f) == Scan(f, 0, None)

\* The key-value pairs that get and scan read.
Contents(f, dir) == [k \in DOMAIN dir |-> ReadValue(f, dir[k])]
Data == Contents(file, keydir)

\* Mutant: the length prefixes are not counted.
LiveSizeNoHeader == MapThenSumSet(LAMBDA k : Len(k) + keydir[k].length, DOMAIN keydir)

\* status: sizes of the live entries and of the rest.
LiveSize == MapThenSumSet(LAMBDA k : Header + Len(k) + keydir[k].length, DOMAIN keydir)
Garbage == Len(file) - LiveSize

Init ==
    /\ file = <<>> /\ synced = 0 /\ replaced = {} /\ keydir = None
    /\ phase = "opened"
    /\ newFile = <<>> /\ newKeydir = None /\ dirty = FALSE

Compactable ==
    /\ Garbage > 0
    /\ Garbage >= MinBytes
    /\ 100 * Garbage >= MinPercent * Len(file)

\* new_maybe_compact: serve the file as it is, or compact it first.
Serve ==
    /\ phase = "opened"
    /\ ~Compactable
    /\ phase' = "ready"
    /\ UNCHANGED <<file, synced, replaced, keydir, newFile, newKeydir, dirty>>

CompactStart ==
    /\ phase = "opened"
    /\ Compactable
    /\ Cardinality(replaced) < MaxReplaced
    /\ phase' = "compacting"
    /\ newFile' = <<>> \* set_len(0): a crash may have left one behind
    /\ newKeydir' = None
    /\ UNCHANGED <<file, synced, replaced, keydir, dirty>>

\* Copies one entry.  The keydir is a BTreeMap, so the order of the keys is
\* fixed; which order it is does not matter here.
CompactEntry ==
    /\ phase = "compacting"
    /\ DOMAIN newKeydir # DOMAIN keydir
    /\ LET key == CHOOSE k \in DOMAIN keydir \ DOMAIN newKeydir : TRUE
           w   == WriteEntry(newFile, key, ReadValue(file, keydir[key]))
       IN  /\ newFile' = w.file
           /\ newKeydir' = Put(newKeydir, key, w.location)
    /\ UNCHANGED <<file, synced, replaced, keydir, phase, dirty>>

CompactRename ==
    /\ phase = "compacting"
    /\ DOMAIN newKeydir = DOMAIN keydir
    /\ replaced' = replaced \cup {[file |-> file, synced |-> synced]}
    /\ file' = newFile
    /\ synced' = IF OrderedRename THEN Len(newFile) ELSE 0
    /\ keydir' = newKeydir
    /\ newFile' = <<>> /\ newKeydir' = None
    /\ phase' = "ready"
    /\ UNCHANGED dirty

Set(key, value) ==
    /\ phase = "ready"
    /\ Len(file) <= MaxFile
    /\ LET w == WriteEntry(file, key, value)
       IN  /\ file' = w.file
           /\ keydir' = Put(keydir, key, w.location)
    /\ dirty' = TRUE
    /\ UNCHANGED <<synced, replaced, phase, newFile, newKeydir>>

Delete(key) ==
    /\ phase = "ready"
    /\ Len(file) <= MaxFile
    /\ file' = file \o EncodeTombstone(key)
    /\ keydir' = Drop(keydir, key)
    /\ dirty' = TRUE
    /\ UNCHANGED <<synced, replaced, phase, newFile, newKeydir>>

\* Mutant: flush does not sync, as under cfg(test).
FlushNoSync ==
    /\ phase = "ready"
    /\ dirty' = FALSE
    /\ UNCHANGED <<file, synced, replaced, keydir, phase, newFile, newKeydir>>

\* sync_all; with the data it also makes the file's name durable.
Flush ==
    /\ phase = "ready"
    /\ synced' = Len(file)
    /\ replaced' = {}
    /\ dirty' = FALSE
    /\ UNCHANGED <<file, keydir, phase, newFile, newKeydir>>

\* Mutant: an incomplete entry stays in the file.
OpenNoTruncate(f) ==
    /\ file' = f
    /\ keydir' = BuildKeydir(f).keydir
    /\ phase' = "opened"
    /\ newKeydir' = None

\* new: the file is opened, its keydir built and an incomplete entry cut off.
Open(f) ==
    /\ file' = BuildKeydir(f).file
    /\ keydir' = BuildKeydir(f).keydir
    /\ phase' = "opened"
    /\ newKeydir' = None

\* The process crashes, possibly in a write of which some cells were written.
\* Compaction's temporary file stays behind.
CrashProcess ==
    /\ \/ phase # "ready" /\ Open(file)
       \/ /\ phase = "ready"
          /\ Len(file) <= MaxFile
          /\ \E entry \in {Encode(k, v) : k \in Keys, v \in Values}
                             \cup {EncodeTombstone(k) : k \in Keys} :
                \E n \in 0 .. Len(entry) - 1 : Open(file \o SubSeq(entry, 1, n))
    /\ UNCHANGED <<synced, replaced, newFile, dirty>>

\* What a crash of the host may leave of the log file.
OnDisk ==
    UNION {{SubSeq(f.file, 1, n) : n \in f.synced .. Len(f.file)} :
              f \in replaced \cup {[file |-> file, synced |-> synced]}}
CrashHost ==
    /\ \E f \in OnDisk : Open(f)
    /\ synced' = Len(file')
    /\ replaced' = {}
    /\ \E n \in 0 .. Len(newFile) : newFile' = SubSeq(newFile, 1, n)
    /\ dirty' = FALSE

Next ==
    \/ Serve
    \/ CompactStart \/ CompactEntry \/ CompactRename
    \/ \E key \in Keys : Delete(key) \/ \E value \in Values : Set(key, value)
    \/ Flush
    \/ CrashProcess \/ CrashHost

Spec == Init /\ [][Next]_vars

-----------------------------------------------------------------------------
(* Properties. *)

\* The keydir is always the one that opening the file again would build, and
\* the file has no incomplete entry: offsets stay right across appends after a
\* torn write, deletes and compaction.
KeydirMatchesFile == BuildKeydir(file) = [keydir |-> keydir, file |-> file]

Recoverable == {LET b == BuildKeydir(f) IN Contents(b.file, b.keydir) : f \in OnDisk}

\* "Writes are only guaranteed durable after calling [`Engine::flush()`]": with
\* no write since the last flush, a crash of the host changes nothing.
DurableAfterFlush == ~dirty => Recoverable = {Data}

\* The engine status never counts more live bytes than the file has (the code
\* subtracts the two as unsigned integers), and compaction leaves no garbage.
GarbageStep ==
    /\ Garbage' >= 0
    /\ (phase = "compacting" /\ phase' = "ready") => Garbage' = 0
GarbageAccounted == [][GarbageStep]_vars

\* BitCask is a durable key-value store: compaction and crashes of the process
\* change nothing, a torn write is all or nothing, and a crash of the host
\* undoes writes since the last flush in order only.
KV == INSTANCE KeyValue WITH data <- Data, recoverable <- Recoverable
ImplementsKeyValue == KV!Spec
=============================================================================
