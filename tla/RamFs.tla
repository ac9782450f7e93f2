------------------------------- MODULE RamFs -------------------------------
(***************************************************************************)
(* The RAM file system, fs/ramfs.c: a table of files that only grows, found *)
(* by name from its start, and a table of mounts.                          *)
(*                                                                         *)
(* A file's contents are what was copied into its 1024 bytes, as one value *)
(* of Buffers, or Unset as malloc left them.  malloc may refuse, and as    *)
(* nothing tests a file's data pointer for NULL before it is used, all     *)
(* files without memory share the bytes at address 0.  What else the       *)
(* kernel keeps there is not modelled.                                     *)
(***************************************************************************)
EXTENDS Integers, Sequences, FiniteSets, SequencesExt

CONSTANTS
  RAMFS_MAX_FILES,      \* 64
  RAMFS_MAX_FILE_SIZE,  \* 1024
  MAX_MOUNTS,           \* 16
  Names,                \* the names callers use
  Kept,                 \* Kept[n]: the 63 characters strncpy keeps of n
  Paths,                \* the paths callers mount
  Lengths,              \* the lengths callers pass
  Buffers               \* what they write

SUCCESS == 0
FAULT   == 1
Unset   == "unset"
Cleared == "cleared"     \* by memset
NoData  == "null"        \* the data pointer is NULL
Nothing == "nothing"     \* nothing was copied to the caller
NoOne   == ""

ASSUME RamFsAssumption ==
  /\ {RAMFS_MAX_FILES, MAX_MOUNTS} \subseteq Nat
  /\ RAMFS_MAX_FILE_SIZE \in Nat \ {0}
  /\ Lengths \subseteq Nat
  /\ DOMAIN Kept = Names
  /\ NoOne \notin Names /\ NoData \notin Buffers

VARIABLES
  fs_true,
  ramfs_files,  \* [name, data, size], the first ramfs_file_count of the table
  at_null,      \* the bytes at address 0
  mounts,       \* the mounted paths
  last,         \* history: the last call and what it returned and copied
  accepted,     \* history: the buffer of the last write that was carried out
  null_for      \* history: the name it was for, when address 0 was written
                \* last, or NoOne since a create has cleared it

fileVars == <<ramfs_files, at_null, accepted, null_for>>
vars     == <<fs_true, mounts, last, fileVars>>

Call(op, name, ret, copied) ==
  [op |-> op, name |-> name, ret |-> ret, copied |-> copied]

Init ==
  /\ fs_true = FALSE /\ ramfs_files = <<>> /\ mounts = <<>>
  /\ last = Call("none", "", 0, Nothing)
  /\ accepted = [n \in Names |-> Unset]
  /\ at_null = Unset /\ null_for = NoOne

fs_mount(path) ==
  IF Len(mounts) < MAX_MOUNTS THEN mounts' = Append(mounts, path)
  ELSE UNCHANGED mounts

(* __initramfs: ramfs_init forgets the files, not the mounts; the result   *)
(* of the mount is ignored.                                                *)
InitRamFs ==
  /\ fs_true' = TRUE
  /\ ramfs_files' = <<>>
  /\ accepted' = [n \in Names |-> Unset] /\ null_for' = NoOne
  /\ fs_mount("r:/")
  /\ last' = Call("init", "", 0, Nothing)
  /\ UNCHANGED at_null

Mount(path) ==
  /\ IF fs_true THEN fs_mount(path) ELSE UNCHANGED mounts
  /\ last' = Call("mount", path,
       IF fs_true /\ Len(mounts) < MAX_MOUNTS THEN SUCCESS ELSE FAULT, Nothing)
  /\ UNCHANGED <<fs_true, fileVars>>

(* Every operation refuses to work before ramfs_init.                      *)
Unavailable(op, name) ==
  /\ ~fs_true
  /\ last' = Call(op, name, FAULT, Nothing)
  /\ UNCHANGED <<fs_true, mounts, fileVars>>

FullLate == Len(ramfs_files) > RAMFS_MAX_FILES

Full == Len(ramfs_files) >= RAMFS_MAX_FILES

CreateFull(name) ==
  /\ fs_true /\ Full
  /\ last' = Call("create", name, -1, Nothing)
  /\ UNCHANGED <<fs_true, mounts, fileVars>>

(* The slot is taken before malloc is asked.  The test of its answer is    *)
(* the wrong way round: with memory the call fails, without it succeeds    *)
(* after clearing 1024 bytes at address 0.                                 *)
CreateAllocated(name) ==
  /\ fs_true /\ ~Full
  /\ ramfs_files' = Append(ramfs_files, [name |-> Kept[name], data |-> Unset, size |-> 0])
  /\ last' = Call("create", name, -1, Nothing)
  /\ UNCHANGED <<fs_true, mounts, at_null, accepted, null_for>>

CreateOutOfMemory(name) ==
  /\ fs_true /\ ~Full
  /\ ramfs_files' = Append(ramfs_files, [name |-> Kept[name], data |-> NoData, size |-> 0])
  /\ last' = Call("create", name, SUCCESS, Nothing)
  /\ at_null' = Cleared /\ null_for' = NoOne
  /\ UNCHANGED <<fs_true, mounts, accepted>>

-----------------------------------------------------------------------------
(* The files of that name; the loops over the table end at the first one   *)
(* there is something to do for.                                           *)
Named(name) == { i \in DOMAIN ramfs_files : ramfs_files[i].name = name }

Chosen(S) == { i \in S : \A j \in S : i <= j }

(* ramfs_write copies only when the buffer is longer than a file may be.   *)
WritableAll(name, len) == { i \in Named(name) : len > RAMFS_MAX_FILE_SIZE }

Writable(name, len) ==
  Chosen({ i \in Named(name) : len > RAMFS_MAX_FILE_SIZE })

Write(name, buf, len) ==
  LET hit    == Writable(name, len)
      astray == \E i \in hit : ramfs_files[i].data = NoData
  IN
  /\ fs_true
  /\ ramfs_files' = [i \in DOMAIN ramfs_files |->
       IF i \notin hit THEN ramfs_files[i]
       ELSE [ramfs_files[i] EXCEPT
              !.data = IF @ = NoData THEN NoData ELSE buf,
              !.size = RAMFS_MAX_FILE_SIZE]]
  /\ at_null'  = IF astray THEN buf ELSE at_null
  /\ null_for' = IF astray THEN name ELSE null_for
  /\ accepted' = IF hit = {} THEN accepted ELSE [accepted EXCEPT ![name] = buf]
  /\ last' = Call("write", name,
                  IF hit = {} THEN FAULT ELSE RAMFS_MAX_FILE_SIZE, Nothing)
  /\ UNCHANGED <<fs_true, mounts>>

(* ramfs_read copies only when the file is longer than the caller's        *)
(* buffer.                                                                 *)
ReadableUnsized(name, max_len) ==
  { i \in Named(name) : \A j \in Named(name) : j <= i }

Readable(name, max_len) ==
  Chosen({ i \in Named(name) : ramfs_files[i].size > max_len })

Contents(i) ==
  IF ramfs_files[i].data = NoData THEN at_null ELSE ramfs_files[i].data

Read(name, max_len) ==
  LET hit == Readable(name, max_len) IN
  /\ fs_true
  /\ last' = IF hit = {} THEN Call("read", name, FAULT, Nothing)
             ELSE Call("read", name, max_len, Contents(CHOOSE i \in hit : TRUE))
  /\ UNCHANGED <<fs_true, mounts, fileVars>>

Next ==
  \/ InitRamFs
  \/ \E path \in Paths : Mount(path)
  \/ \E name \in Names :
       \/ \E op \in {"create", "write", "read"} : Unavailable(op, name)
       \/ CreateFull(name) \/ CreateAllocated(name) \/ CreateOutOfMemory(name)
       \/ \E buf \in Buffers, len \in Lengths : Write(name, buf, len)
       \/ \E max_len \in Lengths : Read(name, max_len)

Spec == Init /\ [][Next]_vars

-----------------------------------------------------------------------------
(* Types; the tables stay within their arrays however often callers retry. *)
TypeOK ==
  /\ fs_true \in BOOLEAN
  /\ at_null \in Buffers \cup {Unset, Cleared} /\ null_for \in Names \cup {NoOne}
  /\ ramfs_files \in Seq([name : Range(Kept), data : Buffers \cup {Unset, NoData},
                          size : {0, RAMFS_MAX_FILE_SIZE}])
  /\ Len(ramfs_files) <= RAMFS_MAX_FILES
  /\ mounts \in Seq(Paths \cup {"r:/"}) /\ Len(mounts) <= MAX_MOUNTS
  /\ accepted \in [Names -> Buffers \cup {Unset}]

(* A read that copies anything copies what the last write to that name     *)
(* that was carried out has stored, although failed creates leave several  *)
(* files of one name behind, and long names are cut when they are stored.  *)
(* Only a file that got no memory can lose it, and only to others without  *)
(* memory: it then holds what was last written to one of those, or nothing *)
(* since one of them was created.                                          *)
ReadsWhatWasWritten ==
  last.op = "read" /\ last.copied # Nothing =>
    \/ last.copied = accepted[last.name]
    \/ /\ null_for # last.name
       /\ \E i \in Named(last.name) :
            ramfs_files[i].size > 0 /\ ramfs_files[i].data = NoData
       /\ last.copied = IF null_for = NoOne THEN Cleared ELSE accepted[null_for]

(* Of several files with one name, writes always go to the same one.       *)
OneFilePerNameWritten ==
  \A i, j \in DOMAIN ramfs_files :
    /\ ramfs_files[i].name = ramfs_files[j].name
    /\ ramfs_files[i].size > 0 /\ ramfs_files[j].size > 0
    => i = j
=============================================================================
