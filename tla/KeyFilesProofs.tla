---------------------------- MODULE KeyFilesProofs ----------------------------
(***************************************************************************)
(* For any number of runs: type correctness of KeyFiles, that no private   *)
(* key is lost, that no public key is announced before its private half is *)
(* stored, and when the two files in use belong together.                  *)
(***************************************************************************)
EXTENDS KeyFiles, TLAPS

BackingUp == {"private backup", "private copy", "public backup", "public copy", "private"}

\* A backup is not the file in use: the clock is past the second Original.
Stamped == now >= 1 /\ \A r \in Run : pc[r] \in BackingUp => stamp[r] >= 1

\* What a run has found is still there.
FoundIsThere == \A r \in Run : \A k \in found[r] : files[InUse(k)] # NoFile

\* A run writes to the files in use the private key first, and copies of nothing
\* but announced keys to a backup of the public one.
Buffered ==
  \A r \in Run :
    /\ pc[r] = "public copy" /\ buffer[r] \in Run => buffer[r] \in written
    /\ pc[r] \in {"public", "public text"} => r \in written

Replacing == {"private text", "public", "public text"}

TornMeanwhile == \A r \in Run : pc[r] \in Replacing => torn

\* A run that nobody interfered with is alone, and so is its private key.
SoloAlone ==
  \A r \in Run :
    /\ AtWork(r) => solo \in {NoRun, r}
    /\ solo = r /\ pc[r] \in {"public", "public text"} => files[InUse("private")] = r

AloneUnlessCollided ==
  collided \/ \A q, r \in Run : AtWork(q) /\ AtWork(r) => q = r

\* Where the old private key is while it is being replaced.
KeptMeanwhile ==
  collided \/ \A r \in Run :
    /\ pc[r] = "private backup" /\ "private" \notin found[r]
         => files[InUse("private")] = NoFile
    /\ pc[r] = "private copy"
         => files[Backup(r, "private")] = Empty /\ buffer[r] = files[InUse("private")]
    /\ pc[r] \in {"public backup", "public copy", "private"}
         => files[InUse("private")] \in {NoFile, files[Backup(r, "private")]}
    /\ pc[r] = "private text" => files[InUse("private")] = Empty

IInv ==
  /\ TypeOK /\ KeyKept /\ PublishedHasPrivate /\ PairAgrees
  /\ Stamped /\ FoundIsThere /\ Buffered /\ TornMeanwhile
  /\ SoloAlone /\ AloneUnlessCollided /\ KeptMeanwhile

LEMMA Bounds == MaxSecond \in Nat /\ 0 \in 0 .. MaxSecond /\ 1 \in 0 .. MaxSecond
BY BoundIsPositive

LEMMA InitIInv == Init => IInv
<1> SUFFICES ASSUME Init PROVE IInv
  OBVIOUS
<1>1. 1 \in 0 .. MaxSecond /\ Original \in 0 .. MaxSecond
  BY Bounds DEF Original
<1>2. \A k \in Kind, n \in 0 .. MaxSecond : <<k, n>> \in File
  BY DEF File
<1>3. \A k \in Kind, n \in 0 .. MaxSecond : files[<<k, n>>] = NoFile
  BY <1>2 DEF Init
<1>4. TypeOK
  BY <1>1, ContentsDiffer DEF Init, TypeOK, Content
<1>5. KeyKept
  BY DEF Init, KeyKept
<1>6. PublishedHasPrivate /\ PairAgrees
  BY <1>1, <1>3, ContentsDiffer DEF Init, PublishedHasPrivate, PairAgrees, InUse, Kind
<1>7. QED
  BY <1>1, <1>4, <1>5, <1>6 DEF Init, IInv, Stamped, BackingUp, FoundIsThere, Buffered, TornMeanwhile, Replacing,
     SoloAlone, AloneUnlessCollided, KeptMeanwhile, AtWork

LEMMA InUseIsFile == \A k \in Kind : InUse(k) \in File /\ InUse(k) = <<k, 0>>
BY Bounds DEF InUse, Original, File

LEMMA StampedLate ==
  ASSUME TypeOK, Stamped, NEW r \in Run, pc[r] \in BackingUp
  PROVE  stamp[r] \in 0 .. MaxSecond /\ stamp[r] # 0
<1>1. stamp[r] \in 0 .. MaxSecond /\ stamp[r] >= 1
  BY DEF TypeOK, Stamped
<1>2. QED
  BY <1>1, Bounds

\* What a write to a backup leaves alone ...
Writes(f, data) == files' = [files EXCEPT ![f] = data]

LEMMA WriteBackup ==
  ASSUME TypeOK, Stamped, NEW r \in Run, pc[r] \in BackingUp,
         NEW kind \in Kind, NEW data,
         Writes(Backup(r, kind), data)
  PROVE  /\ Backup(r, kind) \in File
         /\ files'[Backup(r, kind)] = data
         /\ files'[InUse("private")] = files[InUse("private")]
         /\ files'[InUse("public")] = files[InUse("public")]
         /\ \A n \in 0 .. MaxSecond : kind # "private" \/ n # stamp[r]
              => files'[<<"private", n>>] = files[<<"private", n>>]
         /\ \A n \in 0 .. MaxSecond : kind # "public" \/ n # stamp[r]
              => files'[<<"public", n>>] = files[<<"public", n>>]
<1>1. stamp[r] \in 0 .. MaxSecond /\ stamp[r] >= 1
  BY DEF TypeOK, Stamped, BackingUp
<1>2. \A k \in Kind, n \in 0 .. MaxSecond : <<k, n>> \in File
  BY DEF File
<1>3. Backup(r, kind) = <<kind, stamp[r]>> /\ Backup(r, kind) \in File
  BY <1>1, <1>2 DEF Backup
<1>4. \A k \in Kind : InUse(k) = <<k, 0>> /\ InUse(k) # Backup(r, kind) /\ InUse(k) \in File
  BY <1>1, <1>2, <1>3, Bounds DEF InUse, Original
<1>5. \A f \in File : f # Backup(r, kind) => files'[f] = files[f]
  BY DEF TypeOK, Writes
<1>6. files'[Backup(r, kind)] = data
  BY <1>3 DEF TypeOK, Writes
<1>7. \A k \in Kind, n \in 0 .. MaxSecond : k # kind \/ n # stamp[r] => <<k, n>> # Backup(r, kind)
  BY <1>3
<1>8. "private" \in Kind /\ "public" \in Kind
  BY DEF Kind
<1>9. QED
  BY <1>2, <1>3, <1>4, <1>5, <1>6, <1>7, <1>8

\* ... and a write to a file in use.
LEMMA WriteInUse ==
  ASSUME TypeOK, NEW kind \in Kind, NEW data,
         Writes(InUse(kind), data)
  PROVE  /\ InUse(kind) \in File
         /\ files'[InUse(kind)] = data
         /\ \A n \in 0 .. MaxSecond : kind # "private" \/ n # 0
              => files'[<<"private", n>>] = files[<<"private", n>>]
         /\ \A n \in 0 .. MaxSecond : kind # "public" \/ n # 0
              => files'[<<"public", n>>] = files[<<"public", n>>]
<1>1. \A k \in Kind, n \in 0 .. MaxSecond : <<k, n>> \in File
  BY DEF File
<1>2. InUse(kind) = <<kind, 0>> /\ InUse(kind) \in File
  BY <1>1, Bounds DEF InUse, Original
<1>3. \A k \in Kind, n \in 0 .. MaxSecond : k # kind \/ n # 0 => <<k, n>> # InUse(kind)
  BY <1>2
<1>4. \A f \in File : f # InUse(kind) => files'[f] = files[f]
  BY DEF TypeOK, Writes
<1>5. files'[InUse(kind)] = data
  BY <1>2 DEF TypeOK, Writes
<1>6. "private" \in Kind /\ "public" \in Kind
  BY DEF Kind
<1>7. QED
  BY <1>1, <1>2, <1>3, <1>4, <1>5, <1>6

LEMMA BeginStep == ASSUME IInv, NEW r \in Run, Begin(r) PROVE IInv'
<1> USE DEF IInv, Begin, AtWork, InUse, Backup
<1>1. TypeOK'
  BY DEF TypeOK
<1>2. PublishedHasPrivate' /\ PairAgrees' /\ Stamped' /\ FoundIsThere' /\ Buffered' /\ TornMeanwhile'
  BY DEF TypeOK, PublishedHasPrivate, PairAgrees, Stamped, BackingUp, FoundIsThere, Buffered, TornMeanwhile, Replacing
<1>3. SoloAlone' /\ AloneUnlessCollided'
  BY DEF TypeOK, SoloAlone, AloneUnlessCollided
<1>4. KeyKept' /\ KeptMeanwhile'
  BY DEF TypeOK, KeyKept, KeptMeanwhile
<1>5. QED
  BY <1>1, <1>2, <1>3, <1>4

LEMMA LookStep == ASSUME IInv, NEW r \in Run, Look(r) PROVE IInv'
<1> USE DEF IInv, Look, Goes, history, AtWork, InUse, Backup
<1>1. TypeOK'
  BY DEF TypeOK
<1>2. PublishedHasPrivate' /\ PairAgrees' /\ FoundIsThere' /\ Buffered' /\ TornMeanwhile'
  BY DEF TypeOK, PublishedHasPrivate, PairAgrees, FoundIsThere, Buffered, TornMeanwhile, Replacing
<1>3. Stamped'
  BY DEF TypeOK, Stamped, BackingUp
<1>4. SoloAlone' /\ AloneUnlessCollided'
  BY DEF TypeOK, SoloAlone, AloneUnlessCollided
<1>5. KeyKept' /\ KeptMeanwhile'
  BY DEF TypeOK, KeyKept, KeptMeanwhile, Kind, AloneUnlessCollided
<1>6. QED
  BY <1>1, <1>2, <1>3, <1>4, <1>5

LEMMA KilledStep == ASSUME IInv, NEW r \in Run, Killed(r) PROVE IInv'
<1> USE DEF IInv, Killed, history, AtWork, InUse, Backup
<1>1. TypeOK'
  BY DEF TypeOK
<1>2. PublishedHasPrivate' /\ PairAgrees' /\ Stamped' /\ FoundIsThere' /\ Buffered' /\ TornMeanwhile'
  BY DEF TypeOK, PublishedHasPrivate, PairAgrees, Stamped, BackingUp, FoundIsThere, Buffered, TornMeanwhile, Replacing
<1>3. SoloAlone' /\ AloneUnlessCollided'
  BY DEF TypeOK, SoloAlone, AloneUnlessCollided
<1>4. KeyKept' /\ KeptMeanwhile'
  BY DEF TypeOK, KeyKept, KeptMeanwhile
<1>5. QED
  BY <1>1, <1>2, <1>3, <1>4

LEMMA RegisterStep == ASSUME IInv, NEW r \in Run, Register(r) PROVE IInv'
<1> USE DEF IInv, Register, Goes, history, AtWork, InUse, Backup
<1>1. TypeOK'
  BY InUseIsFile DEF TypeOK, Kind, InUse
<1>2. PublishedHasPrivate'
  <2>1. Original \in 0 .. MaxSecond
    BY Bounds DEF Original
  <2>2. files[InUse("public")] \in Run => files[InUse("public")] \in written
    BY <2>1 DEF PublishedHasPrivate
  <2>3. QED
    BY <2>2 DEF TypeOK, PublishedHasPrivate
<1>3. PairAgrees' /\ Stamped' /\ FoundIsThere' /\ Buffered' /\ TornMeanwhile'
  BY DEF TypeOK, PairAgrees, Stamped, BackingUp, FoundIsThere, Buffered, TornMeanwhile, Replacing
<1>4. SoloAlone' /\ AloneUnlessCollided'
  BY DEF TypeOK, SoloAlone, AloneUnlessCollided
<1>5. KeyKept' /\ KeptMeanwhile'
  BY DEF TypeOK, KeyKept, KeptMeanwhile
<1>6. QED
  BY <1>1, <1>2, <1>3, <1>4, <1>5

LEMMA SecondStep == ASSUME IInv, Second PROVE IInv'
<1> USE DEF IInv, Second, program, history, AtWork, InUse, Backup
<1>1. now' \in 0 .. MaxSecond /\ now' >= 1
  <2>1. now \in 0 .. MaxSecond /\ now >= 1 /\ now < MaxSecond /\ now' = now + 1
    BY DEF TypeOK, Stamped, BackingUp
  <2>2. QED
    BY <2>1, Bounds
<1>2. TypeOK' /\ Stamped'
  BY <1>1 DEF TypeOK, Stamped, BackingUp
<1>3. QED
  BY <1>2 DEF PublishedHasPrivate, PairAgrees, FoundIsThere, Buffered, TornMeanwhile, Replacing,
     SoloAlone, AloneUnlessCollided, KeyKept, KeptMeanwhile

-----------------------------------------------------------------------------
(* backupExistingKeys *)

LEMMA SkipBackupStep ==
  ASSUME IInv, NEW r \in Run,
         \/ SkipBackup(r, "private", "private backup", "public backup")
         \/ SkipBackup(r, "public", "public backup", "private")
  PROVE  IInv'
<1> USE DEF IInv, SkipBackup, Goes, history, AtWork, InUse, Backup
<1>1. TypeOK'
  BY DEF TypeOK
<1>2. PublishedHasPrivate' /\ PairAgrees'
  BY DEF PublishedHasPrivate, PairAgrees
<1>3. Stamped' /\ FoundIsThere'
  BY DEF TypeOK, Stamped, BackingUp, FoundIsThere
<1>4. Buffered' /\ TornMeanwhile'
  BY DEF TypeOK, Buffered, TornMeanwhile, Replacing
<1>5. SoloAlone'
  BY DEF TypeOK, SoloAlone
<1>6. AloneUnlessCollided'
  BY DEF TypeOK, AloneUnlessCollided
<1>7. KeyKept'
  BY DEF KeyKept
<1>8. KeptMeanwhile'
  BY DEF TypeOK, KeptMeanwhile
<1>9. QED
  BY <1>1, <1>2, <1>3, <1>4, <1>5, <1>6, <1>7, <1>8

\* Either half of a write to a backup leaves alone what it does not write to.
LEMMA BackupFrame ==
  ASSUME IInv, NEW r \in Run, NEW kind \in Kind, NEW data \in Content \ {NoFile},
         NEW to \in BackingUp, pc[r] \in BackingUp, pc' = [pc EXCEPT ![r] = to],
         kind = "public" /\ data \in Run => data \in written,
         Writes(Backup(r, kind), data),
         UNCHANGED <<now, registers, found, stamp, sent, written, solo, torn>>
  PROVE  /\ files' \in [File -> Content]
         /\ PublishedHasPrivate' /\ PairAgrees' /\ Stamped' /\ FoundIsThere'
         /\ TornMeanwhile' /\ SoloAlone'
<1> USE DEF IInv, AtWork
<1>a. TypeOK /\ Stamped
  OBVIOUS
<1>1. /\ files'[InUse("private")] = files[InUse("private")]
      /\ files'[InUse("public")] = files[InUse("public")]
      /\ files'[Backup(r, kind)] = data
      /\ \A n \in 0 .. MaxSecond : kind # "public" \/ n # stamp[r] => files'[<<"public", n>>] = files[<<"public", n>>]
  BY <1>a, WriteBackup
<1>2. files' \in [File -> Content]
  BY DEF TypeOK, Writes
<1>3. PublishedHasPrivate'
  <2>1. ASSUME NEW n \in 0 .. MaxSecond, files'[<<"public", n>>] \in Run
        PROVE  files'[<<"public", n>>] \in written
    <3>1. CASE kind # "public" \/ n # stamp[r]
      BY <1>1, <2>1, <3>1 DEF PublishedHasPrivate
    <3>2. CASE kind = "public" /\ n = stamp[r]
      BY <1>1, <2>1, <3>2 DEF Backup
    <3>3. QED
      BY <3>1, <3>2
  <2>2. QED
    BY <2>1 DEF PublishedHasPrivate
<1>4. PairAgrees' /\ TornMeanwhile'
  BY <1>1 DEF TypeOK, PairAgrees, TornMeanwhile, Replacing, BackingUp, Kind, InUse
<1>5. Stamped'
  BY DEF TypeOK, Stamped
<1>6. FoundIsThere'
  <2>1. \A k \in Kind : files'[InUse(k)] = files[InUse(k)]
    BY <1>1 DEF Kind
  <2>2. QED
    BY <2>1 DEF TypeOK, FoundIsThere
<1>7. SoloAlone'
  BY <1>1 DEF TypeOK, SoloAlone, BackingUp, Kind, InUse
<1>8. QED
  BY <1>2, <1>3, <1>4, <1>5, <1>6, <1>7

LEMMA StartPrivateBackupStep ==
  ASSUME IInv, NEW r \in Run, StartBackup(r, "private", "private backup", "private copy")
  PROVE  IInv'
<1> USE DEF IInv, StartBackup, Goes, Truncate, AtWork
<1>1. /\ "private" \in Kind /\ Empty \in Content \ {NoFile} /\ pc[r] \in BackingUp /\ Empty \notin Run
      /\ TypeOK /\ Stamped /\ Writes(Backup(r, "private"), Empty)
  BY ContentsDiffer DEF Kind, Content, BackingUp, Writes
<1>2. /\ files' \in [File -> Content]
      /\ PublishedHasPrivate' /\ PairAgrees' /\ Stamped' /\ FoundIsThere'
      /\ TornMeanwhile' /\ SoloAlone'
  BY <1>1, BackupFrame DEF BackingUp
<1>3. /\ files'[Backup(r, "private")] = Empty /\ files'[InUse("private")] = files[InUse("private")]
      /\ \A n \in 0 .. MaxSecond : n # stamp[r] => files'[<<"private", n>>] = files[<<"private", n>>]
  <2> HIDE DEF StartBackup, Goes, Truncate, IInv, AtWork
  <2>1. files'[Backup(r, "private")] = Empty
    BY <1>1, WriteBackup
  <2>2. files'[InUse("private")] = files[InUse("private")]
    BY <1>1, WriteBackup
  <2>3. ASSUME NEW n \in 0 .. MaxSecond, n # stamp[r]
        PROVE  files'[<<"private", n>>] = files[<<"private", n>>]
    BY <1>1, <2>3, WriteBackup
  <2>4. QED
    BY <2>1, <2>2, <2>3
<1>4. buffer'[r] = files[InUse("private")] /\ buffer' \in [Run -> Content \ {NoFile}]
  BY <1>1, InUseIsFile DEF TypeOK, FoundIsThere
<1>5. TypeOK'
  BY <1>2, <1>4 DEF TypeOK
<1>6. Buffered' /\ AloneUnlessCollided'
  BY DEF TypeOK, Buffered, AloneUnlessCollided
<1>7. KeyKept'
  <2>1. SUFFICES ASSUME ~collided, files[<<"private", stamp[r]>>] = NoFile, NEW k \in written
                 PROVE  \E n \in 0 .. MaxSecond : files'[<<"private", n>>] = k
    BY DEF KeyKept, Backup
  <2>2. PICK n \in 0 .. MaxSecond : files[<<"private", n>>] = k
    BY <2>1 DEF KeyKept
  <2>3. n # stamp[r]
    BY <2>1, <2>2, ContentsDiffer DEF TypeOK
  <2>4. QED
    BY <1>3, <2>2, <2>3
<1>8. KeptMeanwhile'
  BY <1>3, <1>4 DEF TypeOK, KeptMeanwhile, AloneUnlessCollided, Backup, InUse
<1>9. QED
  BY <1>2, <1>5, <1>6, <1>7, <1>8

LEMMA EndPrivateBackupStep ==
  ASSUME IInv, NEW r \in Run, EndBackup(r, "private", "private copy", "public backup")
  PROVE  IInv'
<1> USE DEF IInv, EndBackup, Goes, Fill, history, AtWork
<1>1. /\ "private" \in Kind /\ buffer[r] \in Content \ {NoFile} /\ pc[r] \in BackingUp
      /\ TypeOK /\ Stamped /\ Writes(Backup(r, "private"), buffer[r])
  BY DEF TypeOK, Kind, BackingUp, Writes
<1>2. /\ files' \in [File -> Content]
      /\ PublishedHasPrivate' /\ PairAgrees' /\ Stamped' /\ FoundIsThere'
      /\ TornMeanwhile' /\ SoloAlone'
  BY <1>1, BackupFrame DEF BackingUp
<1>3. /\ files'[Backup(r, "private")] = buffer[r] /\ files'[InUse("private")] = files[InUse("private")]
      /\ \A n \in 0 .. MaxSecond : n # stamp[r] => files'[<<"private", n>>] = files[<<"private", n>>]
  BY <1>1, WriteBackup
<1>4. TypeOK'
  BY <1>2 DEF TypeOK
<1>5. Buffered' /\ AloneUnlessCollided'
  BY DEF TypeOK, Buffered, AloneUnlessCollided
<1>6. KeyKept'
  <2>1. SUFFICES ASSUME ~collided, NEW k \in written
                 PROVE  \E n \in 0 .. MaxSecond : files'[<<"private", n>>] = k
    BY DEF KeyKept
  <2>2. PICK n \in 0 .. MaxSecond : files[<<"private", n>>] = k
    BY <2>1 DEF KeyKept
  <2>3. files[<<"private", stamp[r]>>] = Empty
    BY <2>1 DEF KeptMeanwhile, Backup
  <2>4. n # stamp[r]
    BY <2>2, <2>3, ContentsDiffer DEF TypeOK
  <2>5. QED
    BY <1>3, <2>2, <2>4
<1>7. KeptMeanwhile'
  BY <1>3 DEF TypeOK, KeptMeanwhile, AloneUnlessCollided, Backup, InUse
<1>8. QED
  BY <1>2, <1>4, <1>5, <1>6, <1>7

LEMMA StartPublicBackupStep ==
  ASSUME IInv, NEW r \in Run, StartBackup(r, "public", "public backup", "public copy")
  PROVE  IInv'
<1> USE DEF IInv, StartBackup, Goes, Truncate, AtWork
<1>1. /\ "public" \in Kind /\ Empty \in Content \ {NoFile} /\ pc[r] \in BackingUp /\ Empty \notin Run
      /\ TypeOK /\ Stamped /\ Writes(Backup(r, "public"), Empty)
  BY ContentsDiffer DEF Kind, Content, BackingUp, Writes
<1>2. /\ files' \in [File -> Content]
      /\ PublishedHasPrivate' /\ PairAgrees' /\ Stamped' /\ FoundIsThere'
      /\ TornMeanwhile' /\ SoloAlone'
  BY <1>1, BackupFrame DEF BackingUp
<1>3. \A n \in 0 .. MaxSecond : files'[<<"private", n>>] = files[<<"private", n>>]
  BY <1>1, WriteBackup DEF Kind
<1>4. /\ buffer'[r] = files[InUse("public")] /\ buffer' \in [Run -> Content \ {NoFile}]
      /\ buffer'[r] \in Run => buffer'[r] \in written
  BY <1>1, InUseIsFile, Bounds DEF TypeOK, FoundIsThere, PublishedHasPrivate
<1>5. TypeOK'
  BY <1>2, <1>4 DEF TypeOK
<1>6. Buffered' /\ AloneUnlessCollided'
  BY <1>4 DEF TypeOK, Buffered, AloneUnlessCollided
<1>7. KeyKept'
  BY <1>3 DEF TypeOK, KeyKept
<1>8. KeptMeanwhile'
  <2>1. files'[InUse("private")] = files[InUse("private")]
    BY <1>3, InUseIsFile, Bounds DEF Kind
  <2>2. \A q \in Run : files'[Backup(q, "private")] = files[Backup(q, "private")]
    BY <1>3 DEF TypeOK, Backup
  <2>3. /\ pc[r] = "public backup" /\ pc'[r] = "public copy"
        /\ \A q \in Run \ {r} : pc'[q] = pc[q] /\ buffer'[q] = buffer[q]
        /\ collided => collided'
        /\ UNCHANGED <<found, stamp>>
    BY DEF TypeOK
  <2> HIDE DEF StartBackup, Goes, Truncate, AtWork
  <2>4. QED
    BY <2>1, <2>2, <2>3 DEF KeptMeanwhile, Backup
<1>9. QED
  BY <1>2, <1>5, <1>6, <1>7, <1>8

LEMMA EndPublicBackupStep ==
  ASSUME IInv, NEW r \in Run, EndBackup(r, "public", "public copy", "private")
  PROVE  IInv'
<1> USE DEF IInv, EndBackup, Goes, Fill, history, AtWork
<1>1. /\ "public" \in Kind /\ buffer[r] \in Content \ {NoFile} /\ pc[r] \in BackingUp
      /\ buffer[r] \in Run => buffer[r] \in written
      /\ TypeOK /\ Stamped /\ Writes(Backup(r, "public"), buffer[r])
  BY DEF TypeOK, Kind, BackingUp, Buffered, Writes
<1>2. /\ files' \in [File -> Content]
      /\ PublishedHasPrivate' /\ PairAgrees' /\ Stamped' /\ FoundIsThere'
      /\ TornMeanwhile' /\ SoloAlone'
  BY <1>1, BackupFrame DEF BackingUp
<1>3. \A n \in 0 .. MaxSecond : files'[<<"private", n>>] = files[<<"private", n>>]
  BY <1>1, WriteBackup DEF Kind
<1>4. TypeOK'
  BY <1>2 DEF TypeOK
<1>5. Buffered' /\ AloneUnlessCollided'
  BY DEF TypeOK, Buffered, AloneUnlessCollided
<1>6. KeyKept'
  BY <1>3 DEF TypeOK, KeyKept
<1>7. KeptMeanwhile'
  <2>1. files'[InUse("private")] = files[InUse("private")]
    BY <1>3, InUseIsFile, Bounds DEF Kind
  <2>2. \A q \in Run : files'[Backup(q, "private")] = files[Backup(q, "private")]
    BY <1>3 DEF TypeOK, Backup
  <2>3. /\ pc[r] = "public copy" /\ pc'[r] = "private"
        /\ \A q \in Run \ {r} : pc'[q] = pc[q] /\ buffer'[q] = buffer[q]
        /\ collided => collided'
        /\ UNCHANGED <<found, stamp>>
    BY DEF TypeOK
  <2> HIDE DEF EndBackup, Goes, Fill, history, AtWork
  <2>4. QED
    BY <2>1, <2>2, <2>3 DEF KeptMeanwhile, Backup
<1>8. QED
  BY <1>2, <1>4, <1>5, <1>6, <1>7

-----------------------------------------------------------------------------
(* GenerateKey *)

LEMMA StartPrivateStep == ASSUME IInv, NEW r \in Run, StartPrivate(r) PROVE IInv'
<1> USE DEF StartPrivate, Goes, AtWork
<1>1. TypeOK /\ Writes(InUse("private"), Empty) /\ "private" \in Kind /\ Empty \notin Run /\ Empty # NoFile
  BY ContentsDiffer DEF IInv, Kind, Writes, Truncate
<1>2. /\ files'[InUse("private")] = Empty
      /\ \A n \in 0 .. MaxSecond : files'[<<"public", n>>] = files[<<"public", n>>]
      /\ \A n \in 0 .. MaxSecond : n # 0 => files'[<<"private", n>>] = files[<<"private", n>>]
  <2> HIDE DEF StartPrivate, Goes, AtWork
  <2>1. QED
    BY <1>1, WriteInUse DEF Kind
<1>3. files'[InUse("public")] = files[InUse("public")]
  BY <1>2, InUseIsFile, Bounds DEF Kind
<1>4. buffer' = [buffer EXCEPT ![r] = r]
  BY DEF Truncate
<1>5. TypeOK'
  BY <1>1, <1>4, ContentsDiffer DEF TypeOK, Writes, Content
<1>6. PublishedHasPrivate'
  BY <1>2 DEF IInv, PublishedHasPrivate
<1>7. PairAgrees' /\ TornMeanwhile'
  BY DEF PairAgrees, TornMeanwhile
<1>8. Stamped' /\ Buffered'
  <2>1. pc'[r] = "private text" /\ \A q \in Run \ {r} : pc'[q] = pc[q]
    BY DEF IInv, TypeOK
  <2>2. \A q \in Run \ {r} : buffer'[q] = buffer[q]
    BY <1>4 DEF IInv, TypeOK
  <2>3. Stamped'
    BY <2>1 DEF IInv, Stamped, BackingUp
  <2>4. Buffered'
    BY <2>1, <2>2 DEF IInv, Buffered
  <2>5. QED
    BY <2>3, <2>4
<1>9. FoundIsThere'
  <2>1. \A k \in Kind : files[InUse(k)] # NoFile => files'[InUse(k)] # NoFile
    BY <1>1, <1>2, <1>3 DEF Kind
  <2>2. found' = found /\ \A q \in Run : found[q] \subseteq Kind
    BY <1>1 DEF TypeOK
  <2>3. QED
    BY <2>1, <2>2 DEF IInv, FoundIsThere
<1>10. SoloAlone' /\ AloneUnlessCollided'
  <2>1. \A q \in Run : solo = q => q = r
    BY ContentsDiffer DEF IInv, SoloAlone
  <2>2. pc'[r] = "private text" /\ \A q \in Run \ {r} : pc'[q] = pc[q]
    BY <1>1 DEF TypeOK
  <2>3. SoloAlone'
    BY <2>1, <2>2 DEF IInv, SoloAlone
  <2>4. AloneUnlessCollided'
    BY <2>2 DEF IInv, AloneUnlessCollided
  <2>5. QED
    BY <2>3, <2>4
<1>11. KeyKept'
  <2>1. SUFFICES ASSUME ~collided, NEW k \in written
                 PROVE  \E n \in 0 .. MaxSecond : files'[<<"private", n>>] = k
    BY DEF KeyKept
  <2>2. PICK n \in 0 .. MaxSecond : files[<<"private", n>>] = k
    BY <2>1 DEF IInv, KeyKept
  <2>3. CASE n # 0
    BY <1>2, <2>2, <2>3
  <2>4. CASE n = 0
    <3>1. files[InUse("private")] = k /\ k # NoFile
      BY <2>2, <2>4, InUseIsFile, ContentsDiffer DEF IInv, TypeOK, Kind
    <3>2. files[<<"private", stamp[r]>>] = k
      BY <2>1, <3>1 DEF IInv, KeptMeanwhile, Backup
    <3>3. stamp[r] \in 0 .. MaxSecond /\ stamp[r] # 0
      BY StampedLate DEF IInv, BackingUp
    <3>4. QED
      BY <1>2, <3>2, <3>3
  <2>5. QED
    BY <2>3, <2>4
<1>12. KeptMeanwhile'
  BY <1>2 DEF IInv, TypeOK, KeptMeanwhile, AloneUnlessCollided
<1>13. QED
  BY <1>5, <1>6, <1>7, <1>8, <1>9, <1>10, <1>11, <1>12 DEF IInv

LEMMA EndPrivateStep == ASSUME IInv, NEW r \in Run, EndPrivate(r) PROVE IInv'
<1> USE DEF EndPrivate, Goes, AtWork
<1>b. buffer[r] = r
  BY DEF IInv, TypeOK
<1>1. TypeOK /\ Writes(InUse("private"), r) /\ "private" \in Kind /\ buffer[r] = r /\ r # NoFile
  BY <1>b, ContentsDiffer DEF IInv, Kind, Writes, Fill
<1>2. /\ files'[InUse("private")] = r
      /\ \A n \in 0 .. MaxSecond : files'[<<"public", n>>] = files[<<"public", n>>]
      /\ \A n \in 0 .. MaxSecond : n # 0 => files'[<<"private", n>>] = files[<<"private", n>>]
  <2> HIDE DEF EndPrivate, Goes, AtWork
  <2>1. QED
    BY <1>1, WriteInUse DEF Kind
<1>3. files'[InUse("public")] = files[InUse("public")]
  BY <1>2, InUseIsFile, Bounds DEF Kind
<1>5. TypeOK'
  BY <1>1 DEF TypeOK, Writes, Content
<1>6. PublishedHasPrivate'
  BY <1>2 DEF IInv, PublishedHasPrivate
<1>7. PairAgrees' /\ TornMeanwhile'
  BY DEF IInv, TypeOK, PairAgrees, TornMeanwhile, Replacing
<1>8. Stamped' /\ Buffered'
  BY DEF IInv, TypeOK, Stamped, BackingUp, Buffered
<1>9. FoundIsThere'
  <2>1. \A k \in Kind : files[InUse(k)] # NoFile => files'[InUse(k)] # NoFile
    BY <1>1, <1>2, <1>3 DEF Kind
  <2>2. found' = found /\ \A q \in Run : found[q] \subseteq Kind
    BY <1>1 DEF TypeOK
  <2>3. QED
    BY <2>1, <2>2 DEF IInv, FoundIsThere
<1>10. SoloAlone' /\ AloneUnlessCollided'
  <2>1. /\ pc[r] = "private text" /\ pc'[r] = "public" /\ \A q \in Run \ {r} : pc'[q] = pc[q]
        /\ solo' = solo /\ collided' = collided
    BY DEF IInv, TypeOK
  <2>2. \A q \in Run \ {r} : solo = q => ~AtWork(r)
    BY ContentsDiffer DEF IInv, SoloAlone
  <2>3. \A q \in Run : AtWork(q)' <=> AtWork(q)
    BY <2>1
  <2> HIDE DEF EndPrivate, Goes, AtWork
  <2>4. \A q \in Run : solo = q => q = r
    BY <2>2, <2>1 DEF AtWork
  <2>5. SoloAlone'
    BY <1>2, <2>1, <2>3, <2>4 DEF IInv, SoloAlone
  <2>6. AloneUnlessCollided'
    BY <2>1, <2>3 DEF IInv, AloneUnlessCollided
  <2>7. QED
    BY <2>5, <2>6
<1>11. KeyKept'
  <2>1. SUFFICES ASSUME ~collided, NEW k \in written'
                 PROVE  \E n \in 0 .. MaxSecond : files'[<<"private", n>>] = k
    BY DEF KeyKept
  <2>2. CASE k = r
    BY <1>2, <2>2, InUseIsFile, Bounds DEF Kind
  <2>3. CASE k \in written
    <3>1. PICK n \in 0 .. MaxSecond : files[<<"private", n>>] = k
      BY <2>1, <2>3 DEF IInv, KeyKept
    <3>2. files[<<"private", 0>>] = Empty
      BY <2>1, InUseIsFile DEF IInv, KeptMeanwhile, Kind
    <3>3. n # 0
      BY <2>3, <3>1, <3>2, ContentsDiffer DEF IInv, TypeOK
    <3>4. QED
      BY <1>2, <3>1, <3>3
  <2>4. QED
    BY <2>2, <2>3
<1>12. KeptMeanwhile'
  BY <1>2 DEF IInv, TypeOK, KeptMeanwhile, AloneUnlessCollided
<1>13. QED
  BY <1>5, <1>6, <1>7, <1>8, <1>9, <1>10, <1>11, <1>12 DEF IInv

LEMMA StartPublicStep == ASSUME IInv, NEW r \in Run, StartPublic(r) PROVE IInv'
<1> USE DEF StartPublic, Goes, history, AtWork
<1>1. TypeOK /\ Writes(InUse("public"), Empty) /\ "public" \in Kind /\ Empty \notin Run /\ Empty # NoFile
  BY ContentsDiffer DEF IInv, Kind, Writes, Truncate
<1>2. /\ files'[InUse("public")] = Empty
      /\ \A n \in 0 .. MaxSecond : files'[<<"private", n>>] = files[<<"private", n>>]
      /\ \A n \in 0 .. MaxSecond : n # 0 => files'[<<"public", n>>] = files[<<"public", n>>]
  <2> HIDE DEF StartPublic, Goes, history, AtWork
  <2>1. QED
    BY <1>1, WriteInUse DEF Kind
<1>3. files'[InUse("private")] = files[InUse("private")]
  BY <1>2, InUseIsFile, Bounds DEF Kind
<1>4. buffer' = [buffer EXCEPT ![r] = r]
  BY DEF Truncate
<1>5. TypeOK'
  BY <1>1, <1>4, ContentsDiffer DEF TypeOK, Writes, Content
<1>6. PublishedHasPrivate'
  BY <1>1, <1>2, InUseIsFile DEF IInv, PublishedHasPrivate, Kind
<1>7. PairAgrees' /\ TornMeanwhile'
  BY DEF IInv, TypeOK, PairAgrees, TornMeanwhile, Replacing
<1>8. Stamped' /\ Buffered'
  BY <1>4 DEF IInv, TypeOK, Stamped, BackingUp, Buffered
<1>9. FoundIsThere'
  <2>1. \A k \in Kind : files[InUse(k)] # NoFile => files'[InUse(k)] # NoFile
    BY <1>1, <1>2, <1>3 DEF Kind
  <2>2. found' = found /\ \A q \in Run : found[q] \subseteq Kind
    BY <1>1 DEF TypeOK
  <2>3. QED
    BY <2>1, <2>2 DEF IInv, FoundIsThere
<1>10. SoloAlone' /\ AloneUnlessCollided'
  BY <1>3 DEF IInv, TypeOK, SoloAlone, AloneUnlessCollided
<1>11. KeyKept'
  BY <1>2 DEF IInv, KeyKept
<1>12. KeptMeanwhile'
  BY <1>3 DEF IInv, TypeOK, KeptMeanwhile, AloneUnlessCollided
<1>13. QED
  BY <1>5, <1>6, <1>7, <1>8, <1>9, <1>10, <1>11, <1>12 DEF IInv

LEMMA EndPublicStep == ASSUME IInv, NEW r \in Run, EndPublic(r) PROVE IInv'
<1> USE DEF EndPublic, Goes, AtWork
<1>b. buffer[r] = r
  BY DEF IInv, TypeOK
<1>1. TypeOK /\ Writes(InUse("public"), r) /\ "public" \in Kind /\ buffer[r] = r /\ r # NoFile /\ r \in written
  BY <1>b, ContentsDiffer DEF IInv, Kind, Writes, Fill, Buffered
<1>2. /\ files'[InUse("public")] = r
      /\ \A n \in 0 .. MaxSecond : files'[<<"private", n>>] = files[<<"private", n>>]
      /\ \A n \in 0 .. MaxSecond : n # 0 => files'[<<"public", n>>] = files[<<"public", n>>]
  <2> HIDE DEF EndPublic, Goes, AtWork
  <2>1. QED
    BY <1>1, WriteInUse DEF Kind
<1>3. files'[InUse("private")] = files[InUse("private")]
  BY <1>2, InUseIsFile, Bounds DEF Kind
<1>4. pc'[r] \in {"read", "done"} /\ \A q \in Run \ {r} : pc'[q] = pc[q]
  BY <1>1 DEF TypeOK
<1>5. TypeOK'
  BY <1>1 DEF TypeOK, Writes, Content
<1>6. PublishedHasPrivate'
  BY <1>1, <1>2, InUseIsFile DEF IInv, PublishedHasPrivate, Kind
<1>7. PairAgrees' /\ TornMeanwhile'
  <2>1. torn
    BY DEF IInv, TornMeanwhile, Replacing
  <2>2. CASE solo # r
    BY <2>1, <2>2, <1>4 DEF PairAgrees, TornMeanwhile
  <2>3. CASE solo = r
    <3>1. files[InUse("private")] = r
      BY <2>3 DEF IInv, SoloAlone
    <3>2. \A q \in Run : q # r => ~AtWork(q)
      BY <2>3, ContentsDiffer DEF IInv, SoloAlone
    <3>3. QED
      BY <3>1, <3>2, <1>2, <1>3, <1>4 DEF PairAgrees, TornMeanwhile, Replacing
  <2>4. QED
    BY <2>2, <2>3
<1>8. Stamped' /\ Buffered'
  BY <1>4 DEF IInv, TypeOK, Stamped, BackingUp, Buffered
<1>9. FoundIsThere'
  <2>1. \A k \in Kind : files[InUse(k)] # NoFile => files'[InUse(k)] # NoFile
    BY <1>1, <1>2, <1>3 DEF Kind
  <2>2. found' = found /\ \A q \in Run : found[q] \subseteq Kind
    BY <1>1 DEF TypeOK
  <2>3. QED
    BY <2>1, <2>2 DEF IInv, FoundIsThere
<1>10. SoloAlone' /\ AloneUnlessCollided'
  BY <1>3, <1>4 DEF IInv, SoloAlone, AloneUnlessCollided
<1>11. KeyKept'
  BY <1>2 DEF IInv, KeyKept
<1>12. KeptMeanwhile'
  <2>1. CASE collided
    BY <2>1 DEF KeptMeanwhile
  <2>2. CASE ~collided
    BY <2>2, <1>4 DEF IInv, KeptMeanwhile, AloneUnlessCollided
  <2>3. QED
    BY <2>1, <2>2
<1>13. QED
  BY <1>5, <1>6, <1>7, <1>8, <1>9, <1>10, <1>11, <1>12 DEF IInv

-----------------------------------------------------------------------------
LEMMA NextIInv == IInv /\ [Next]_vars => IInv'
<1> SUFFICES ASSUME IInv, [Next]_vars PROVE IInv'
  OBVIOUS
<1>1. ASSUME NEW r \in Run, Backups(r) PROVE IInv'
  BY <1>1, SkipBackupStep, StartPrivateBackupStep, EndPrivateBackupStep,
     StartPublicBackupStep, EndPublicBackupStep DEF Backups
<1>2. ASSUME NEW r \in Run, Generate(r) PROVE IInv'
  BY <1>2, StartPrivateStep, EndPrivateStep, StartPublicStep, EndPublicStep DEF Generate
<1>3. CASE UNCHANGED vars
  BY <1>3 DEF vars, program, history, IInv, TypeOK, KeyKept, PublishedHasPrivate, PairAgrees,
     Stamped, FoundIsThere, Buffered, TornMeanwhile, Replacing, SoloAlone, AloneUnlessCollided,
     KeptMeanwhile, AtWork, InUse, Backup
<1>4. QED
  BY <1>1, <1>2, <1>3, BeginStep, LookStep, KilledStep, RegisterStep, SecondStep DEF Next

LEMMA Invariance == Spec => []IInv
BY InitIInv, NextIInv, PTL DEF Spec

\* Every variable has its type, and a generator writes its own key (KeyFiles.TypeOK).
THEOREM TypeCorrect == Spec => []TypeOK
<1>1. IInv => TypeOK
  BY DEF IInv
<1>2. QED
  BY <1>1, Invariance, PTL

\* No private key is lost, however many runs there are and wherever they are
\* killed, unless two of them were at work at a time or share a backup's name
\* (keygen.go:39-41, 80-105).
THEOREM NoKeyLost == Spec => []KeyKept
<1>1. IInv => KeyKept
  BY DEF IInv
<1>2. QED
  BY <1>1, Invariance, PTL

\* No public key is announced before its private half is stored, not even by
\* runs that overlap (keygen.go:64-71).
THEOREM PrivateHalfFirst == Spec => []PublishedHasPrivate
<1>1. IInv => PublishedHasPrivate
  BY DEF IInv
<1>2. QED
  BY <1>1, Invariance, PTL

\* The two files in use belong together whenever the last replacement was
\* completed by a run that had been alone since it began (keygen.go:64-71).
THEOREM PairStaysTogether == Spec => []PairAgrees
<1>1. IInv => PairAgrees
  BY DEF IInv
<1>2. QED
  BY <1>1, Invariance, PTL
=============================================================================
