---------------------------- MODULE RamFsProofs ----------------------------
(***************************************************************************)
(* Proofs about RamFs for every table size, file size, set of names and    *)
(* way of cutting them: the tables stay within bounds, writes to a name    *)
(* always reach the same file, and reads return the last write that was    *)
(* carried out, or what files without memory have done to each other at    *)
(* address 0.                                                              *)
(***************************************************************************)
EXTENDS RamFs, SequenceTheorems, TLAPS

File == [name : Range(Kept), data : Buffers \cup {Unset, NoData},
         size : {0, RAMFS_MAX_FILE_SIZE}]

(* A file that was written is the first of its name, because both loops    *)
(* start at the beginning of the table and the table only grows.           *)
FirstOfItsName ==
  \A i, j \in DOMAIN ramfs_files :
    ramfs_files[i].name = ramfs_files[j].name /\ ramfs_files[i].size > 0 => i <= j

(* What it holds is what the last write to that name has stored.           *)
HoldsLastWrite ==
  \A i \in DOMAIN ramfs_files :
    /\ ramfs_files[i].name \in Names
    /\ ramfs_files[i].size > 0
    /\ ramfs_files[i].data # NoData
    => ramfs_files[i].data = accepted[ramfs_files[i].name]

(* What lies at address 0, once there is a file without memory, and which  *)
(* file was the last to be written there.                                  *)
AtNull ==
  /\ (\E i \in DOMAIN ramfs_files : ramfs_files[i].data = NoData) =>
       at_null = IF null_for = NoOne THEN Cleared ELSE accepted[null_for]
  /\ null_for # NoOne =>
       \E i \in DOMAIN ramfs_files :
         /\ ramfs_files[i].name = null_for
         /\ ramfs_files[i].size > 0 /\ ramfs_files[i].data = NoData

IInv ==
  /\ TypeOK /\ FirstOfItsName /\ HoldsLastWrite /\ AtNull
  /\ ReadsWhatWasWritten

-----------------------------------------------------------------------------
(* The initial states satisfy the inductive invariant.                     *)
LEMMA InitIInv == Init => IInv
<1> SUFFICES ASSUME Init PROVE IInv
  OBVIOUS
<1>1. /\ ramfs_files = <<>> /\ mounts = <<>> /\ fs_true = FALSE
      /\ at_null = Unset /\ null_for = NoOne
  BY DEF Init
<1>2. accepted \in [Names -> Buffers \cup {Unset}]
  BY DEF Init
<1>3. last.op = "none"
  BY DEF Init, Call
<1>4. ramfs_files \in Seq(File) /\ mounts \in Seq(Paths \cup {"r:/"})
  BY <1>1
<1>5. Len(ramfs_files) <= RAMFS_MAX_FILES /\ Len(mounts) <= MAX_MOUNTS
  BY <1>1, RamFsAssumption
<1>6. TypeOK
  BY <1>1, <1>2, <1>4, <1>5 DEF TypeOK, File
<1>7. DOMAIN ramfs_files = {}
  BY <1>1
<1> QED
  BY <1>1, <1>3, <1>6, <1>7
  DEF IInv, FirstOfItsName, HoldsLastWrite, AtNull, ReadsWhatWasWritten

(* fs_mount appends to its table while there is room.                      *)
LEMMA MountBound ==
  ASSUME NEW path \in Paths \cup {"r:/"}, fs_mount(path),
         mounts \in Seq(Paths \cup {"r:/"}), Len(mounts) <= MAX_MOUNTS
  PROVE  mounts' \in Seq(Paths \cup {"r:/"}) /\ Len(mounts') <= MAX_MOUNTS
<1>1. CASE Len(mounts) < MAX_MOUNTS
  <2>1. mounts' = Append(mounts, path)
    BY <1>1 DEF fs_mount
  <2>2. mounts' \in Seq(Paths \cup {"r:/"}) /\ Len(mounts') = Len(mounts) + 1
    BY <2>1
  <2> QED
    BY <1>1, <2>2, RamFsAssumption
<1>2. CASE ~(Len(mounts) < MAX_MOUNTS)
  BY <1>2 DEF fs_mount
<1> QED
  BY <1>1, <1>2

(* __initramfs forgets the files and with them what was written.           *)
LEMMA InitRamFsIInv ==
  ASSUME IInv, InitRamFs
  PROVE  IInv'
<1>1. /\ ramfs_files' = <<>> /\ fs_true' = TRUE /\ at_null' = at_null
      /\ null_for' = NoOne /\ fs_mount("r:/")
  BY DEF InitRamFs
<1>2. accepted' \in [Names -> Buffers \cup {Unset}]
  BY DEF InitRamFs
<1>3. last'.op = "init"
  BY DEF InitRamFs, Call
<1>4. mounts' \in Seq(Paths \cup {"r:/"}) /\ Len(mounts') <= MAX_MOUNTS
  BY <1>1, MountBound DEF IInv, TypeOK
<1>5. ramfs_files' \in Seq(File) /\ Len(ramfs_files') <= RAMFS_MAX_FILES
  BY <1>1, RamFsAssumption
<1>6. TypeOK'
  BY <1>1, <1>2, <1>4, <1>5 DEF IInv, TypeOK, File
<1>7. DOMAIN ramfs_files' = {}
  BY <1>1
<1> QED
  BY <1>1, <1>3, <1>6, <1>7
  DEF IInv, FirstOfItsName, HoldsLastWrite, AtNull, ReadsWhatWasWritten

(* A call that changes neither files nor mounts keeps the invariant, if    *)
(* what it copied, if anything, is what was written.                       *)
LEMMA QuietCall ==
  ASSUME IInv, UNCHANGED <<fs_true, mounts, fileVars>>, ReadsWhatWasWritten'
  PROVE  IInv'
<1>1. TypeOK'
  BY DEF IInv, TypeOK, fileVars
<1>2. FirstOfItsName'
  BY DEF IInv, FirstOfItsName, fileVars
<1>3. HoldsLastWrite'
  BY DEF IInv, HoldsLastWrite, fileVars
<1>4. AtNull'
  BY DEF IInv, AtNull, fileVars
<1> QED
  BY <1>1, <1>2, <1>3, <1>4 DEF IInv

(* A new file has size 0: it is neither written nor first to be read.      *)
LEMMA CreateIInv ==
  ASSUME IInv, NEW name \in Names,
         CreateAllocated(name) \/ CreateOutOfMemory(name)
  PROVE  IInv'
<1>1. PICK d \in {Unset, NoData} :
        ramfs_files' = Append(ramfs_files, [name |-> Kept[name], data |-> d, size |-> 0])
  BY DEF CreateAllocated, CreateOutOfMemory
<1> DEFINE f == [name |-> Kept[name], data |-> d, size |-> 0]
<1>2. f \in File
  <2>1. Kept[name] \in Range(Kept)
    BY RamFsAssumption DEF Range
  <2> QED
    BY <2>1 DEF File
<1>3. ramfs_files \in Seq(File)
  BY DEF IInv, TypeOK, File
<1>4. f.size = 0
  OBVIOUS
<1> HIDE DEF f
<1>5. /\ ramfs_files' \in Seq(File)
      /\ Len(ramfs_files') = Len(ramfs_files) + 1
      /\ DOMAIN ramfs_files' = DOMAIN ramfs_files \cup {Len(ramfs_files) + 1}
      /\ \A i \in DOMAIN ramfs_files : ramfs_files'[i] = ramfs_files[i]
      /\ ramfs_files'[Len(ramfs_files) + 1] = f
  BY <1>1, <1>2, <1>3 DEF f
<1>6. Len(ramfs_files) < RAMFS_MAX_FILES
  BY <1>3, RamFsAssumption DEF CreateAllocated, CreateOutOfMemory, Full
<1>7. /\ accepted' = accepted /\ mounts' = mounts /\ fs_true' = fs_true
      /\ last'.op = "create"
  BY DEF CreateAllocated, CreateOutOfMemory, Call
<1>8. /\ (at_null' = Cleared /\ null_for' = NoOne)
         \/ (d # NoData /\ at_null' = at_null /\ null_for' = null_for)
  <2>1. CASE CreateOutOfMemory(name)
    BY <2>1 DEF CreateOutOfMemory
  <2>2. CASE CreateAllocated(name)
    <3>1. ramfs_files' =
            Append(ramfs_files, [name |-> Kept[name], data |-> Unset, size |-> 0])
      BY <2>2 DEF CreateAllocated
    <3>2. ramfs_files'[Len(ramfs_files) + 1].data = Unset
      BY <3>1, <1>3
    <3>3. d = Unset
      BY <3>2, <1>5 DEF f
    <3> QED
      BY <2>2, <3>3 DEF CreateAllocated, Unset, NoData
  <2> QED
    BY <2>1, <2>2
<1>9. TypeOK'
  <2>1. /\ at_null' \in Buffers \cup {Unset, Cleared}
        /\ null_for' \in Names \cup {NoOne}
    BY <1>8 DEF IInv, TypeOK
  <2> QED
    BY <2>1, <1>3, <1>5, <1>6, <1>7, RamFsAssumption DEF IInv, TypeOK, File
<1>10. FirstOfItsName'
  BY <1>3, <1>4, <1>5 DEF IInv, FirstOfItsName
<1>11. HoldsLastWrite'
  BY <1>4, <1>5, <1>7 DEF IInv, HoldsLastWrite
<1>12. AtNull'
  <2>1. CASE at_null' = Cleared /\ null_for' = NoOne
    BY <2>1 DEF AtNull
  <2>2. CASE d # NoData /\ at_null' = at_null /\ null_for' = null_for
    <3>1. f.data # NoData
      BY <2>2 DEF f
    <3> QED
      BY <2>2, <3>1, <1>5, <1>7 DEF IInv, AtNull
  <2> QED
    BY <1>8, <2>1, <2>2
<1> QED
  BY <1>7, <1>9, <1>10, <1>11, <1>12 DEF IInv, ReadsWhatWasWritten

(* A write changes at most one file, the first of that name.               *)
LEMMA WritableIsFirst ==
  ASSUME NEW name, NEW len, NEW i \in Writable(name, len)
  PROVE  /\ i \in DOMAIN ramfs_files /\ ramfs_files[i].name = name
         /\ \A j \in DOMAIN ramfs_files : ramfs_files[j].name = name => i <= j
         /\ len > RAMFS_MAX_FILE_SIZE
BY DEF Writable, Chosen, Named

(* The first file of a name is the only one a write to it can change, so   *)
(* that it goes on being the first that is written.                        *)
LEMMA WriteIInv ==
  ASSUME IInv, NEW name \in Names, NEW buf \in Buffers, NEW len \in Lengths,
         Write(name, buf, len)
  PROVE  IInv'
<1> DEFINE hit == Writable(name, len)
           new(i) == [ramfs_files[i] EXCEPT
                        !.data = IF @ = NoData THEN NoData ELSE buf,
                        !.size = RAMFS_MAX_FILE_SIZE]
<1>1. ramfs_files' = [i \in DOMAIN ramfs_files |->
                        IF i \notin hit THEN ramfs_files[i] ELSE new(i)]
  BY DEF Write
<1>2. /\ accepted' = IF hit = {} THEN accepted ELSE [accepted EXCEPT ![name] = buf]
      /\ at_null' = IF \E i \in hit : ramfs_files[i].data = NoData
                    THEN buf ELSE at_null
      /\ null_for' = IF \E i \in hit : ramfs_files[i].data = NoData
                     THEN name ELSE null_for
  BY DEF Write
<1>3. fs_true' = fs_true /\ mounts' = mounts /\ last'.op = "write"
  BY DEF Write, Call
<1>4. ramfs_files \in Seq(File)
  BY DEF IInv, TypeOK, File
<1>5. \A i \in hit : /\ i \in DOMAIN ramfs_files /\ ramfs_files[i].name = name
                    /\ \A j \in DOMAIN ramfs_files :
                         ramfs_files[j].name = name => i <= j
  BY WritableIsFirst
<1> HIDE DEF hit
<1>6. \A i \in DOMAIN ramfs_files :
        /\ new(i) \in File
        /\ new(i).name = ramfs_files[i].name
        /\ new(i).data = IF ramfs_files[i].data = NoData THEN NoData ELSE buf
  <2> TAKE i \in DOMAIN ramfs_files
  <2>1. ramfs_files[i] \in File
    BY <1>4
  <2> QED
    BY <2>1 DEF File
<1> HIDE DEF new
<1>7. /\ DOMAIN ramfs_files = 1..Len(ramfs_files) /\ Len(ramfs_files) \in Nat
      /\ \A i \in DOMAIN ramfs_files : ramfs_files[i] \in File
  BY <1>4
<1>8. ramfs_files' \in Seq(File) /\ Len(ramfs_files') = Len(ramfs_files)
  <2>1. ramfs_files' \in [1..Len(ramfs_files) -> File]
    BY <1>1, <1>6, <1>7
  <2> QED
    BY <2>1, <1>7, IsASeq, LenProperties
<1>9. accepted' \in [Names -> Buffers \cup {Unset}]
  BY <1>2 DEF IInv, TypeOK
<1>10. /\ at_null' \in Buffers \cup {Unset, Cleared}
       /\ null_for' \in Names \cup {NoOne}
  BY <1>2 DEF IInv, TypeOK
<1>11. TypeOK'
  BY <1>3, <1>8, <1>9, <1>10 DEF IInv, TypeOK, File
<1>12. /\ DOMAIN ramfs_files' = DOMAIN ramfs_files
       /\ \A i \in DOMAIN ramfs_files :
            /\ ramfs_files'[i].name = ramfs_files[i].name
            /\ i \notin hit => ramfs_files'[i] = ramfs_files[i]
            /\ i \in hit => ramfs_files'[i].data =
                              IF ramfs_files[i].data = NoData THEN NoData ELSE buf
  BY <1>1, <1>6
<1>13. FirstOfItsName'
  <2> SUFFICES ASSUME NEW i \in DOMAIN ramfs_files, NEW j \in DOMAIN ramfs_files,
                      ramfs_files[i].name = ramfs_files[j].name,
                      ramfs_files'[i].size > 0
               PROVE  i <= j
    BY <1>12 DEF FirstOfItsName
  <2>1. CASE i \in hit
    BY <2>1, <1>5
  <2>2. CASE i \notin hit
    BY <2>2, <1>12 DEF IInv, FirstOfItsName
  <2> QED
    BY <2>1, <2>2
<1>14. \A i \in DOMAIN ramfs_files :
         ramfs_files[i].name = name /\ ramfs_files[i].size > 0 /\ hit # {}
         => i \in hit
  <2> SUFFICES ASSUME NEW i \in DOMAIN ramfs_files, ramfs_files[i].name = name,
                      ramfs_files[i].size > 0, hit # {}
               PROVE  i \in hit
    OBVIOUS
  <2>1. PICK k \in hit : TRUE
    OBVIOUS
  <2>2. k <= i /\ ramfs_files[k].name = name /\ k \in DOMAIN ramfs_files
    BY <2>1, <1>5
  <2>3. i <= k
    BY <2>2 DEF IInv, FirstOfItsName
  <2>4. i = k
    BY <2>2, <2>3, <1>7
  <2> QED
    BY <2>1, <2>4
<1>15. RAMFS_MAX_FILE_SIZE > 0
  BY RamFsAssumption
<1>16. buf # NoData
  BY RamFsAssumption
<1>17. HoldsLastWrite'
  <2> SUFFICES ASSUME NEW i \in DOMAIN ramfs_files,
                      ramfs_files[i].name \in Names, ramfs_files'[i].size > 0,
                      ramfs_files'[i].data # NoData
               PROVE  ramfs_files'[i].data = accepted'[ramfs_files[i].name]
    BY <1>12 DEF HoldsLastWrite
  <2>1. CASE i \in hit
    <3>1. ramfs_files[i].name = name
      BY <2>1, <1>5
    <3>2. accepted'[name] = buf
      BY <2>1, <1>2 DEF IInv, TypeOK
    <3> QED
      BY <2>1, <3>1, <3>2, <1>12
  <2>2. CASE i \notin hit
    <3>1. ramfs_files'[i] = ramfs_files[i] /\ ramfs_files[i].size > 0
      BY <2>2, <1>12
    <3>2. ramfs_files[i].data = accepted[ramfs_files[i].name]
      BY <3>1 DEF IInv, HoldsLastWrite
    <3>3. CASE ramfs_files[i].name # name \/ hit = {}
      <4>1. accepted'[ramfs_files[i].name] = accepted[ramfs_files[i].name]
        BY <3>3, <1>2 DEF IInv, TypeOK
      <4> QED
        BY <3>1, <3>2, <4>1
    <3>4. CASE ramfs_files[i].name = name /\ hit # {}
      BY <2>2, <3>1, <3>4, <1>14
    <3> QED
      BY <3>3, <3>4
  <2> QED
    BY <2>1, <2>2
<1>18. AtNull'
  <2>1. CASE \E k \in hit : ramfs_files[k].data = NoData
    <3>1. PICK k \in hit : ramfs_files[k].data = NoData
      BY <2>1
    <3>2. at_null' = buf /\ null_for' = name /\ name # NoOne
      BY <2>1, <1>2, RamFsAssumption DEF NoOne
    <3>3. accepted'[name] = buf
      BY <3>1, <1>2 DEF IInv, TypeOK
    <3>4. /\ ramfs_files'[k].name = name /\ ramfs_files'[k].data = NoData
          /\ ramfs_files'[k].size = RAMFS_MAX_FILE_SIZE
      <4>1. k \in DOMAIN ramfs_files /\ ramfs_files[k].name = name
        BY <3>1, <1>5
      <4>2. ramfs_files[k] \in File
        BY <4>1, <1>7
      <4>3. new(k).size = RAMFS_MAX_FILE_SIZE
        BY <4>2 DEF new, File
      <4> QED
        BY <3>1, <4>1, <4>3, <1>1, <1>12
    <3> QED
      BY <3>1, <3>2, <3>3, <3>4, <1>5, <1>12, <1>15 DEF AtNull
  <2>2. CASE ~\E k \in hit : ramfs_files[k].data = NoData
    <3>1. at_null' = at_null /\ null_for' = null_for
      BY <2>2, <1>2
    <3>2. \A i \in DOMAIN ramfs_files :
            (ramfs_files'[i].data = NoData) => i \notin hit /\ ramfs_files[i].data = NoData
      BY <2>2, <1>12, <1>16
    <3>3. (\E i \in DOMAIN ramfs_files' : ramfs_files'[i].data = NoData)
          => at_null = IF null_for = NoOne THEN Cleared ELSE accepted[null_for]
      BY <3>2, <1>12 DEF IInv, AtNull
    <3>4. null_for # NoOne =>
            \E i \in DOMAIN ramfs_files :
              /\ ramfs_files[i].name = null_for
              /\ ramfs_files[i].size > 0 /\ ramfs_files[i].data = NoData
      BY DEF IInv, AtNull
    <3>5. null_for # NoOne => null_for # name \/ hit = {}
      BY <3>4, <2>2, <1>14
    <3>6. null_for # NoOne => accepted'[null_for] = accepted[null_for]
      BY <3>5, <1>2 DEF IInv, TypeOK
    <3>7. null_for # NoOne =>
            \E i \in DOMAIN ramfs_files' :
              /\ ramfs_files'[i].name = null_for
              /\ ramfs_files'[i].size > 0 /\ ramfs_files'[i].data = NoData
      <4> SUFFICES ASSUME null_for # NoOne
                   PROVE  \E i \in DOMAIN ramfs_files' :
                            /\ ramfs_files'[i].name = null_for
                            /\ ramfs_files'[i].size > 0
                            /\ ramfs_files'[i].data = NoData
        OBVIOUS
      <4>1. PICK i \in DOMAIN ramfs_files :
              /\ ramfs_files[i].name = null_for
              /\ ramfs_files[i].size > 0 /\ ramfs_files[i].data = NoData
        BY <3>4
      <4>2. i \notin hit
        BY <4>1, <2>2
      <4> QED
        BY <4>1, <4>2, <1>12
    <3> QED
      BY <3>1, <3>3, <3>6, <3>7 DEF AtNull
  <2> QED
    BY <2>1, <2>2
<1> QED
  BY <1>3, <1>11, <1>13, <1>17, <1>18 DEF IInv, ReadsWhatWasWritten

(* What a read copies is what the last write to that name has stored.      *)
LEMMA ReadIInv ==
  ASSUME IInv, NEW name \in Names, NEW max_len \in Lengths, Read(name, max_len)
  PROVE  IInv'
<1> DEFINE hit == Readable(name, max_len)
<1>1. UNCHANGED <<fs_true, mounts, fileVars>>
  BY DEF Read, fileVars
<1>2. ReadsWhatWasWritten'
  <2>1. CASE hit = {}
    <3>1. last'.copied = Nothing
      BY <2>1 DEF Read, Call
    <3> QED
      BY <3>1 DEF ReadsWhatWasWritten
  <2>2. CASE hit # {}
    <3> DEFINE k == CHOOSE i \in hit : TRUE
    <3>1. k \in hit
      BY <2>2
    <3>2. last'.copied = Contents(k) /\ last'.name = name
      BY <2>2 DEF Read, Call
    <3> HIDE DEF k
    <3>3. /\ k \in DOMAIN ramfs_files /\ ramfs_files[k].name = name
          /\ ramfs_files[k].size > max_len
      BY <3>1 DEF Readable, Chosen, Named
    <3>4. ramfs_files[k].size \in Nat
      <4>1. ramfs_files \in Seq(File)
        BY DEF IInv, TypeOK, File
      <4>2. ramfs_files[k] \in File
        BY <3>3, <4>1
      <4>3. ramfs_files[k].size \in {0, RAMFS_MAX_FILE_SIZE}
        BY <4>2 DEF File
      <4> QED
        BY <4>3, RamFsAssumption
    <3>5. ramfs_files[k].size > 0
      BY <3>3, <3>4, RamFsAssumption
    <3>6. CASE ramfs_files[k].data # NoData
      <4>1. last'.copied = accepted[name]
        BY <3>2, <3>3, <3>5, <3>6 DEF Contents, IInv, HoldsLastWrite
      <4> QED
        BY <1>1, <3>2, <4>1 DEF ReadsWhatWasWritten, fileVars
    <3>7. CASE ramfs_files[k].data = NoData
      <4>1. last'.copied = IF null_for = NoOne THEN Cleared ELSE accepted[null_for]
        BY <3>2, <3>3, <3>7 DEF Contents, IInv, AtNull
      <4>2. CASE null_for = name
        BY <1>1, <3>2, <4>1, <4>2, RamFsAssumption
        DEF ReadsWhatWasWritten, fileVars, NoOne
      <4>3. CASE null_for # name
        <5>1. /\ null_for' # last'.name
              /\ last'.copied = IF null_for' = NoOne THEN Cleared
                                ELSE accepted'[null_for']
          BY <1>1, <3>2, <4>1, <4>3 DEF fileVars
        <5>2. /\ k \in Named(last.name)'
              /\ ramfs_files'[k].size > 0 /\ ramfs_files'[k].data = NoData
          BY <1>1, <3>2, <3>3, <3>5, <3>7 DEF fileVars, Named
        <5> QED
          BY <5>1, <5>2 DEF ReadsWhatWasWritten
      <4> QED
        BY <4>2, <4>3
    <3> QED
      BY <3>6, <3>7
  <2> QED
    BY <2>1, <2>2
<1> QED
  BY <1>1, <1>2, QuietCall

(* A mount, refused or not, leaves the files alone.                        *)
LEMMA MountIInv ==
  ASSUME IInv, NEW path \in Paths, Mount(path)
  PROVE  IInv'
<1>1. UNCHANGED <<fs_true, ramfs_files, at_null, accepted, null_for>>
      /\ last'.op = "mount"
  BY DEF Mount, Call, fileVars
<1>2. mounts' \in Seq(Paths \cup {"r:/"}) /\ Len(mounts') <= MAX_MOUNTS
  <2>1. CASE fs_true
    BY <2>1, MountBound DEF Mount, IInv, TypeOK
  <2>2. CASE ~fs_true
    BY <2>2 DEF Mount, IInv, TypeOK
  <2> QED
    BY <2>1, <2>2
<1>3. TypeOK'
  BY <1>1, <1>2 DEF IInv, TypeOK
<1>4. FirstOfItsName' /\ HoldsLastWrite' /\ AtNull'
  BY <1>1 DEF IInv, FirstOfItsName, HoldsLastWrite, AtNull
<1> QED
  BY <1>1, <1>3, <1>4 DEF IInv, ReadsWhatWasWritten

(* Every step of the program preserves the inductive invariant.            *)
LEMMA NextIInv == IInv /\ [Next]_vars => IInv'
<1> SUFFICES ASSUME IInv, [Next]_vars PROVE IInv'
  OBVIOUS
<1>1. CASE InitRamFs
  BY <1>1, InitRamFsIInv
<1>2. ASSUME NEW path \in Paths, Mount(path) PROVE IInv'
  BY <1>2, MountIInv
<1>3. ASSUME NEW name \in Names, NEW op \in {"create", "write", "read"},
             Unavailable(op, name)
      PROVE  IInv'
  <2>1. last'.copied = Nothing
    BY <1>3 DEF Unavailable, Call
  <2> QED
    BY <1>3, <2>1, QuietCall DEF Unavailable, ReadsWhatWasWritten
<1>4. ASSUME NEW name \in Names, CreateFull(name) PROVE IInv'
  <2>1. last'.copied = Nothing
    BY <1>4 DEF CreateFull, Call
  <2> QED
    BY <1>4, <2>1, QuietCall DEF CreateFull, ReadsWhatWasWritten
<1>5. ASSUME NEW name \in Names, CreateAllocated(name) \/ CreateOutOfMemory(name)
      PROVE  IInv'
  BY <1>5, CreateIInv
<1>6. ASSUME NEW name \in Names, NEW buf \in Buffers, NEW len \in Lengths,
             Write(name, buf, len)
      PROVE  IInv'
  BY <1>6, WriteIInv
<1>7. ASSUME NEW name \in Names, NEW max_len \in Lengths, Read(name, max_len)
      PROVE  IInv'
  BY <1>7, ReadIInv
<1>8. CASE UNCHANGED vars
  BY <1>8
  DEF vars, fileVars, IInv, TypeOK, FirstOfItsName, HoldsLastWrite, AtNull,
      ReadsWhatWasWritten, Named
<1> QED
  BY <1>1, <1>2, <1>3, <1>4, <1>5, <1>6, <1>7, <1>8 DEF Next

-----------------------------------------------------------------------------
(* Whatever calls are made, in whatever order, and whether malloc answers  *)
(* or refuses: the inductive invariant holds.                              *)
THEOREM Invariance == Spec => []IInv
<1> QED
  BY InitIInv, NextIInv, PTL DEF Spec

(* The tables of fs/ramfs.c never outgrow their arrays, although a create  *)
(* takes its slot before it fails and fs_mount is called again by          *)
(* __initramfs without forgetting the mounts.                              *)
THEOREM TypeCorrect == Spec => []TypeOK
<1>1. IInv => TypeOK
  BY DEF IInv
<1> QED
  BY <1>1, Invariance, PTL

(* Whatever creates failed and left a second file of a name behind, no two *)
(* files of one name are ever written.                                     *)
THEOREM OneFilePerName == Spec => []OneFilePerNameWritten
<1>1. IInv => OneFilePerNameWritten
  <2> SUFFICES ASSUME IInv,
                      NEW i \in DOMAIN ramfs_files, NEW j \in DOMAIN ramfs_files,
                      ramfs_files[i].name = ramfs_files[j].name,
                      ramfs_files[i].size > 0, ramfs_files[j].size > 0
               PROVE  i = j
    BY DEF OneFilePerNameWritten
  <2>1. i <= j /\ j <= i
    BY DEF IInv, FirstOfItsName
  <2>2. DOMAIN ramfs_files = 1..Len(ramfs_files)
    BY DEF IInv, TypeOK
  <2> QED
    BY <2>1, <2>2
<1> QED
  BY <1>1, Invariance, PTL

(* A ramfs_read that copies anything copies the buffer of the last         *)
(* ramfs_write to that name that was carried out; if the file has no       *)
(* memory, what was last put at address 0 for another file without memory. *)
THEOREM ReadsReturnTheLastWrite == Spec => []ReadsWhatWasWritten
<1>1. IInv => ReadsWhatWasWritten
  BY DEF IInv
<1> QED
  BY <1>1, Invariance, PTL
=============================================================================
