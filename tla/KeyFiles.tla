------------------------------- MODULE KeyFiles -------------------------------
(***************************************************************************)
(* The agent's key pair on disk: runs of `amaru -genkey` and of `amaru     *)
(* -register`, one after the other or at the same time, each of which may  *)
(* be killed between any two of its file operations, or fail in one.       *)
(*                                                                         *)
(* A run r also names the key it generates.  os.WriteFile truncates the    *)
(* file it opens and then writes it: two steps.  Backups are named by the  *)
(* second in which a run looked at its clock.                              *)
(***************************************************************************)
EXTENDS Naturals

CONSTANTS
  Run,
  NoFile, Empty,  \* the contents of a file that is not there, or has been truncated
  NoRun,
  MaxSecond       \* bound on the clock

ASSUME ContentsDiffer ==
  NoFile \notin Run /\ Empty \notin Run /\ NoFile # Empty /\ NoRun \notin Run
ASSUME BoundIsPositive == MaxSecond \in Nat \ {0}

Kind == {"private", "public"}
Original == 0
File == Kind \X (0 .. MaxSecond)

VARIABLES
  files,    \* [File -> contents]; <<kind, Original>> is the file in use
  now,      \* the clock, in seconds
  pc,       \* [Run -> where the run is]
  registers,\* runs of -register
  found,    \* [Run -> the kinds of file it has found]
  stamp,    \* [Run -> the second it names its backups by]
  buffer,   \* [Run -> what it will write to the file it has truncated]
  sent,     \* [Run -> what it registered as its public key]
  written,  \* keys that have been in the private key file
  solo,     \* the run that began while no other was at work, until one does
  collided, \* two runs were at work at a time, or named a backup alike
  torn      \* the replacement of the pair is under way or was interrupted

program == <<pc, registers, found, stamp, buffer, sent>>
history == <<written, solo, collided, torn>>
vars    == <<files, now, program, history>>

Init ==
  /\ files = [f \in File |-> NoFile] /\ now = 1
  /\ pc = [r \in Run |-> "idle"] /\ registers = {}
  /\ found = [r \in Run |-> {}] /\ stamp = [r \in Run |-> Original]
  /\ buffer = [r \in Run |-> Empty] /\ sent = [r \in Run |-> NoFile]
  /\ written = {} /\ solo = NoRun /\ collided = FALSE /\ torn = FALSE

AtWork(r) == pc[r] \notin {"idle", "done", "killed"}
InUse(kind) == <<kind, Original>>
Backup(r, kind) == <<kind, stamp[r]>>

Goes(r, from, to) ==
  /\ pc[r] = from
  /\ pc' = [pc EXCEPT ![r] = to]

-----------------------------------------------------------------------------
\* A run begins.  -register generates a pair only if there is no public key.
Begin(r) ==
  /\ pc[r] = "idle"
  /\ registers' \in {registers, registers \cup {r}}
  /\ pc' = [pc EXCEPT ![r] =
       IF r \in registers' /\ files[InUse("public")] # NoFile THEN "read" ELSE "look"]
  /\ solo' = IF \E q \in Run : AtWork(q) THEN NoRun ELSE r
  /\ collided' = (collided \/ \E q \in Run : AtWork(q))
  /\ UNCHANGED <<files, now, found, stamp, buffer, sent, written, torn>>

\* A look that backs nothing up unless both files are there.
LookForBoth(r) ==
  /\ Goes(r, "look", "private backup")
  /\ found' = [found EXCEPT ![r] =
       IF \A k \in Kind : files[InUse(k)] # NoFile THEN Kind ELSE {}]
  /\ stamp' = [stamp EXCEPT ![r] = now]
  /\ UNCHANGED <<files, now, registers, buffer, sent, history>>

\* backupExistingKeys: which files are there, and what time it is.
Look(r) ==
  /\ Goes(r, "look", "private backup")
  /\ found' = [found EXCEPT ![r] = {k \in Kind : files[InUse(k)] # NoFile}]
  /\ stamp' = [stamp EXCEPT ![r] = now]
  /\ UNCHANGED <<files, now, registers, buffer, sent, history>>

\* os.WriteFile, first half: file f is created or truncated.
Truncate(r, f, data) ==
  /\ files' = [files EXCEPT ![f] = Empty]
  /\ buffer' = [buffer EXCEPT ![r] = data]

\* Second half.
Fill(r, f) == files' = [files EXCEPT ![f] = buffer[r]]

\* copyFile: nothing to copy ...
SkipBackup(r, kind, at, to) ==
  /\ kind \notin found[r]
  /\ Goes(r, at, to)
  /\ UNCHANGED <<files, now, registers, found, stamp, buffer, sent, history>>

\* ... or the file is read and its backup created; the name may be taken.
StartBackup(r, kind, at, to) ==
  /\ kind \in found[r]
  /\ Goes(r, at, to)
  /\ Truncate(r, Backup(r, kind), files[InUse(kind)])
  /\ collided' = (collided \/ files[Backup(r, kind)] # NoFile)
  /\ UNCHANGED <<now, registers, found, stamp, sent, written, solo, torn>>

EndBackup(r, kind, at, to) ==
  /\ Goes(r, at, to)
  /\ Fill(r, Backup(r, kind))
  /\ UNCHANGED <<now, registers, found, stamp, buffer, sent, history>>

Backups(r) ==
  \/ SkipBackup(r, "private", "private backup", "public backup")
  \/ StartBackup(r, "private", "private backup", "private copy")
  \/ EndBackup(r, "private", "private copy", "public backup")
  \/ SkipBackup(r, "public", "public backup", "private")
  \/ StartBackup(r, "public", "public backup", "public copy")
  \/ EndBackup(r, "public", "public copy", "private")

\* A generator that announces its public key before the private one is stored.
StartPrivateLate(r) ==
  /\ Goes(r, "private", "private text")
  /\ files' = [files EXCEPT ![InUse("private")] = Empty, ![InUse("public")] = r]
  /\ buffer' = [buffer EXCEPT ![r] = r]
  /\ torn' = TRUE
  /\ UNCHANGED <<now, registers, found, stamp, sent, written, solo, collided>>

\* A generator that stores the private key it has found once more.
StartPrivateAgain(r) ==
  /\ Goes(r, "private", "private text")
  /\ Truncate(r, InUse("private"),
              IF "private" \in found[r] THEN files[InUse("private")] ELSE r)
  /\ torn' = TRUE
  /\ UNCHANGED <<now, registers, found, stamp, sent, written, solo, collided>>

\* GenerateKey: the new private key replaces the old ...
StartPrivate(r) ==
  /\ Goes(r, "private", "private text")
  /\ Truncate(r, InUse("private"), r)
  /\ torn' = TRUE
  /\ UNCHANGED <<now, registers, found, stamp, sent, written, solo, collided>>

EndPrivate(r) ==
  /\ Goes(r, "private text", "public")
  /\ Fill(r, InUse("private"))
  /\ written' = written \cup {r}
  /\ UNCHANGED <<now, registers, found, stamp, buffer, sent, solo, collided, torn>>

\* ... and then the public one.
StartPublic(r) ==
  /\ Goes(r, "public", "public text")
  /\ Truncate(r, InUse("public"), r)
  /\ UNCHANGED <<now, registers, found, stamp, sent, history>>

\* A generator that keeps a public key that is there.
EndPublicOnce(r) ==
  /\ Goes(r, "public text", IF r \in registers THEN "read" ELSE "done")
  /\ IF "public" \in found[r] THEN UNCHANGED files ELSE Fill(r, InUse("public"))
  /\ torn' = (torn /\ solo # r)
  /\ UNCHANGED <<now, registers, found, stamp, buffer, sent, written, solo, collided>>

\* The pair is whole again if no other run has interfered.
EndPublic(r) ==
  /\ Goes(r, "public text", IF r \in registers THEN "read" ELSE "done")
  /\ Fill(r, InUse("public"))
  /\ torn' = (torn /\ solo # r)
  /\ UNCHANGED <<now, registers, found, stamp, buffer, sent, written, solo, collided>>

\* RegisterWithBackend: the public key file is read and sent.
Register(r) ==
  /\ Goes(r, "read", "done")
  /\ sent' = [sent EXCEPT ![r] = files[InUse("public")]]
  /\ UNCHANGED <<files, now, registers, found, stamp, buffer, history>>

\* The run is killed, or a file operation fails and it exits.
Killed(r) ==
  /\ AtWork(r)
  /\ pc' = [pc EXCEPT ![r] = "killed"]
  /\ UNCHANGED <<files, now, registers, found, stamp, buffer, sent, history>>

Second ==
  /\ now < MaxSecond
  /\ now' = now + 1
  /\ UNCHANGED <<files, program, history>>

Generate(r) == StartPrivate(r) \/ EndPrivate(r) \/ StartPublic(r) \/ EndPublic(r)

Next ==
  \/ \E r \in Run :
       Begin(r) \/ Look(r) \/ Backups(r) \/ Generate(r) \/ Register(r) \/ Killed(r)
  \/ Second

Spec == Init /\ [][Next]_vars

-----------------------------------------------------------------------------
(* Properties *)

Content == Run \cup {NoFile, Empty}

\* Every variable has its type, and what a generator is writing to a file in use
\* is its own key and no other's (keygen.go:64-69).
TypeOK ==
  /\ files \in [File -> Content]
  /\ now \in 0 .. MaxSecond
  /\ pc \in [Run -> {"idle", "look", "private backup", "private copy", "public backup",
                     "public copy", "private", "private text", "public",
                     "public text", "read", "done", "killed"}]
  /\ registers \subseteq Run /\ written \subseteq Run
  /\ found \in [Run -> SUBSET Kind]
  /\ stamp \in [Run -> 0 .. MaxSecond]
  /\ buffer \in [Run -> Content \ {NoFile}]
  /\ \A r \in Run : pc[r] \in {"private text", "public text"} => buffer[r] = r
  /\ sent \in [Run -> Content]
  /\ solo \in Run \cup {NoRun}
  /\ collided \in BOOLEAN /\ torn \in BOOLEAN

\* No private key is ever lost, whenever runs are killed, as long as they do not
\* overlap and do not share a second: it is in use or in a backup
\* (keygen.go:39-41, 80-105).
KeyKept ==
  collided \/ \A k \in written : \E n \in 0 .. MaxSecond : files[<<"private", n>>] = k

\* A public key is on disk, in a backup or with the backend only if its private
\* half was stored first, whenever runs are killed (keygen.go:64-71).
PublishedHasPrivate ==
  /\ \A n \in 0 .. MaxSecond :
       files[<<"public", n>>] \in Run => files[<<"public", n>>] \in written
  /\ \A r \in Run : sent[r] \in Run => sent[r] \in written

\* Once a run that nobody interfered with has replaced the pair, the two files
\* belong together, and what -register sends is the key the agent will use,
\* until the next replacement begins, whatever earlier runs have left behind.
PairAgrees ==
  ~torn => files[InUse("private")] = files[InUse("public")]
=============================================================================
