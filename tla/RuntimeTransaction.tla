------------------------- MODULE RuntimeTransaction -------------------------
(***************************************************************************)
(* The journalled replacement of one runtime pack (runtime_transaction.rs) *)
(* as the archive installer drives it (runtime_archive.rs) and as startup  *)
(* recovers it (lib.rs).  The packs of the three backends have directories,*)
(* journals and markers of their own, so one backend is modelled.          *)
(*                                                                         *)
(* Every call that changes the file system is a step; the process may die  *)
(* between any two of them.  todo is the rest of the function that runs:   *)
(* the names of the file operations still to do, up to the next decision.  *)
(***************************************************************************)
EXTENDS Naturals, Sequences

CONSTANTS
    Transactions,   \* the uuid suffixes of installs
    Packs,          \* pack contents, told apart by the digest of the manifest
    NoTransaction, NoPack,
    Worlds,         \* the conditions the application may find itself under
    MaxCrashes, MaxErrors

(* A world says with which values of `defer` installs are made, which of   *)
(* them, whether files change behind the application's back and in which   *)
(* modes a file operation may fail.                                        *)
ASSUME PackAssumption ==
    /\ NoTransaction \notin Transactions /\ NoPack \notin Packs
    /\ Worlds \subseteq [defer : SUBSET BOOLEAN, installs : SUBSET Transactions,
                         damage : BOOLEAN, errors : SUBSET {"install", "recovery"}]
    /\ MaxCrashes \in Nat /\ MaxErrors \in Nat

VARIABLES
    stable,     \* the directory <backend>
    staging,    \* .staging-<backend>-<uuid>, per transaction
    backup,     \* .backup-<backend>-<uuid>, per transaction
    journal,    \* .transactions/<backend>.json
    marker,     \* does .repair-required-<backend> exist?
    mode,       \* what the application is doing
    local,      \* the journal in memory
    todo,       \* file operations left until the next decision
    world,      \* the conditions of this behaviour
    used,       \* transactions begun
    crashes, errors

disk == <<stable, staging, backup, journal, marker>>
bounds == <<world, used, crashes, errors>>
vars == <<disk, mode, local, todo, bounds>>

(***************************************************************************)
(* Directories and journals                                                *)
(***************************************************************************)
Absent == [pack |-> NoPack, intact |-> FALSE]
Directories == [pack : Packs, intact : BOOLEAN] \union {Absent}
Damaged(d) == [d EXCEPT !.intact = FALSE]

Phases == {"prepared", "deferred", "backed-up", "promoted"}
NoJournal == [txn |-> NoTransaction, pack |-> NoPack, phase |-> "none"]
Journals == [txn : Transactions, pack : Packs, phase : Phases] \union {NoJournal}

(* validate: manifest, inventory and digests of every declared file.       *)
Intact(d) == d.intact
(* validate_new_candidate: and it is the pack the journal was written for. *)
IsCandidate(d, j) == d.intact /\ d.pack = j.pack

(***************************************************************************)
(* What the functions still have to do                                     *)
(***************************************************************************)
Apply == <<"check", "back up", "promote", "promoted", "verify">>
Commit == <<"drop backup", "drop journal", "clear marker">>
\* The journal is removed before the backup is back.
EagerRollBack == <<"quarantine", "drop journal", "restore", "fail">>
RollBack == <<"quarantine", "restore", "drop journal", "fail">>
KeepPrepared == <<"drop staging", "drop backup", "drop journal">>
KeepPromoted == <<"drop staging">> \o Commit
RestoreBackup == <<"quarantine", "restore", "drop staging", "drop journal", "clear marker">>

(* A failed install removes its staging directory; a failed recovery marks *)
(* the backend and puts the journal aside.                                 *)
Failure(m) == IF m = "install" THEN <<"abandon">> ELSE <<"mark", "isolate">>

(* The last resort of a recovery.                                          *)
FallBack(j) == IF Intact(backup[j.txn]) THEN RestoreBackup ELSE Failure("recovery")

Operations ==
    Phases \union {"check", "back up", "promote", "verify", "reverify", "quarantine", "restore",
                   "drop staging", "drop backup", "drop journal", "clear marker", "fail",
                   "abandon", "mark", "isolate"}

Init ==
    /\ stable \in Directories
    /\ staging = [t \in Transactions |-> Absent] /\ backup = [t \in Transactions |-> Absent]
    /\ journal = NoJournal /\ marker = FALSE
    /\ mode = "running" /\ local = NoJournal /\ todo = <<>>
    /\ world \in Worlds /\ used = {} /\ crashes = 0 /\ errors = 0

(***************************************************************************)
(* install_verified_archive: extract, verify and probe, then replace       *)
(***************************************************************************)
AlreadyInstalled(p) ==
    /\ mode = "running" /\ stable = [pack |-> p, intact |-> TRUE]
    /\ marker' = FALSE
    /\ UNCHANGED <<stable, staging, backup, journal, mode, local, todo, bounds>>

Install(t, p, defer) ==
    /\ mode = "running" /\ t \in world.installs \ used /\ defer \in world.defer
    /\ stable # [pack |-> p, intact |-> TRUE]
    /\ used' = used \union {t}
    /\ staging' = [staging EXCEPT ![t] = [pack |-> p, intact |-> TRUE]]
    /\ local' = [txn |-> t, pack |-> p, phase |-> "prepared"]
    /\ mode' = "install"
    /\ todo' = <<"prepared">> \o (IF defer THEN <<"deferred">> ELSE Apply)
    /\ UNCHANGED <<stable, backup, journal, marker, world, crashes, errors>>

(***************************************************************************)
(* File operations                                                         *)
(***************************************************************************)
Operation == Head(todo)
Doing(op) == todo # <<>> /\ Operation = op
Move == todo' = Tail(todo)
Stay == UNCHANGED <<mode, bounds>>

(* write_journal: a temporary file, synced, then renamed over the journal. *)
WriteJournal(phase) ==
    /\ Doing(phase)
    /\ local' = [local EXCEPT !.phase = phase]
    /\ journal' = local'
    /\ Move /\ Stay
    /\ UNCHANGED <<stable, staging, backup, marker>>

CheckStaging ==
    /\ Doing("check")
    /\ todo' = IF IsCandidate(staging[local.txn], local) THEN Tail(todo) ELSE Failure(mode)
    /\ Stay /\ UNCHANGED <<disk, local>>

BackUp ==
    /\ Doing("back up")
    /\ IF stable = Absent
       THEN Move /\ UNCHANGED <<stable, backup>>
       ELSE /\ backup' = [backup EXCEPT ![local.txn] = stable]
            /\ stable' = Absent
            /\ todo' = <<"backed-up">> \o Tail(todo)
    /\ Stay /\ UNCHANGED <<staging, journal, marker, local>>

(* The promoted files need not be what was verified: the final validation  *)
(* exists for that.                                                        *)
Promote ==
    /\ Doing("promote")
    /\ stable' \in {staging[local.txn]} \union (IF world.damage THEN {Damaged(staging[local.txn])} ELSE {})
    /\ staging' = [staging EXCEPT ![local.txn] = Absent]
    /\ Move /\ Stay
    /\ UNCHANGED <<backup, journal, marker, local>>

Verify ==
    /\ Doing("verify")
    /\ todo' = IF IsCandidate(stable, local) THEN Commit ELSE RollBack
    /\ Stay /\ UNCHANGED <<disk, local>>

\* Waiting for the candidate to become valid.
ReverifyForEver ==
    /\ Doing("reverify")
    /\ todo' = IF IsCandidate(stable, local) THEN Commit ELSE todo
    /\ Stay /\ UNCHANGED <<disk, local>>

Reverify ==
    /\ Doing("reverify")
    /\ todo' = IF IsCandidate(stable, local) THEN Commit ELSE <<"quarantine">> \o FallBack(local)
    /\ Stay /\ UNCHANGED <<disk, local>>

(* The quarantined directory is renamed, then removed; nothing reads it.   *)
Quarantine ==
    /\ Doing("quarantine")
    /\ stable' = Absent
    /\ Move /\ Stay
    /\ UNCHANGED <<staging, backup, journal, marker, local>>

Restore ==
    /\ Doing("restore")
    /\ stable' = IF backup[local.txn] = Absent THEN stable ELSE backup[local.txn]
    /\ backup' = [backup EXCEPT ![local.txn] = Absent]
    /\ Move /\ Stay
    /\ UNCHANGED <<staging, journal, marker, local>>

DropStaging ==
    /\ Doing("drop staging") \/ Doing("abandon")
    /\ staging' = [staging EXCEPT ![local.txn] = Absent]
    /\ Move /\ Stay
    /\ UNCHANGED <<stable, backup, journal, marker, local>>

DropBackup ==
    /\ Doing("drop backup")
    /\ backup' = [backup EXCEPT ![local.txn] = Absent]
    /\ Move /\ Stay
    /\ UNCHANGED <<stable, staging, journal, marker, local>>

(* remove_journal, and the rename of a failed journal to a name nobody     *)
(* reads; that rename fails, without effect, when there is no journal.     *)
DropJournal ==
    /\ Doing("drop journal") \/ Doing("isolate")
    /\ journal' = NoJournal
    /\ Move /\ Stay
    /\ UNCHANGED <<stable, staging, backup, marker, local>>

SetMarker ==
    /\ \/ Doing("mark") /\ marker' = TRUE
       \/ Doing("clear marker") /\ marker' = FALSE
    /\ Move /\ Stay
    /\ UNCHANGED <<stable, staging, backup, journal, local>>

Fail ==
    /\ Doing("fail")
    /\ todo' = Failure(mode)
    /\ Stay /\ UNCHANGED <<disk, local>>

Return ==
    /\ mode \in {"install", "recovery"} /\ todo = <<>>
    /\ mode' = "running" /\ local' = NoJournal
    /\ UNCHANGED <<disk, todo, bounds>>

(***************************************************************************)
(* Startup: recover_transactions                                           *)
(***************************************************************************)
StartClean ==
    /\ mode = "down" /\ journal = NoJournal
    /\ mode' = "running"
    /\ UNCHANGED <<disk, local, todo, bounds>>

(* recover_journal: the phase and the candidates decide.                   *)
Plan(j) ==
    CASE j.phase = "deferred" -> Apply
      [] j.phase = "prepared" /\ Intact(stable) -> KeepPrepared
      [] j.phase = "promoted" /\ IsCandidate(stable, j) -> KeepPromoted
      [] /\ \/ j.phase = "prepared" /\ ~Intact(stable)
            \/ j.phase = "backed-up"
         /\ IsCandidate(staging[j.txn], j) -> <<"quarantine", "promote", "reverify">>
      [] OTHER -> FallBack(j)

StartRecovery ==
    /\ mode = "down" /\ journal # NoJournal
    /\ mode' = "recovery" /\ local' = journal
    /\ todo' = Plan(journal)
    /\ UNCHANGED <<disk, bounds>>

(***************************************************************************)
(* The world                                                               *)
(***************************************************************************)
Quit ==
    /\ mode = "running" /\ mode' = "down"
    /\ UNCHANGED <<disk, local, todo, bounds>>

(* What an operation that is cut short may leave behind: a directory is    *)
(* removed file by file, a quarantined one is first renamed.               *)
Interrupted ==
    \/ UNCHANGED disk
    \/ /\ Doing("quarantine")
       /\ stable' = Absent /\ UNCHANGED <<staging, backup, journal, marker>>
    \/ /\ Doing("drop backup") /\ backup[local.txn] # Absent
       /\ backup' = [backup EXCEPT ![local.txn] = Damaged(backup[local.txn])]
       /\ UNCHANGED <<stable, staging, journal, marker>>
    \/ /\ Doing("drop staging") \/ Doing("abandon")
       /\ staging[local.txn] # Absent
       /\ staging' = [staging EXCEPT ![local.txn] = Damaged(staging[local.txn])]
       /\ UNCHANGED <<stable, backup, journal, marker>>

Crash ==
    /\ mode # "down" /\ crashes < MaxCrashes
    /\ crashes' = crashes + 1
    /\ mode' = "down" /\ local' = NoJournal /\ todo' = <<>>
    /\ Interrupted
    /\ UNCHANGED <<world, used, errors>>

(* An I/O error ends the function.  The installer ignores the failure to   *)
(* remove its staging directory, startup the failure to isolate a journal. *)
IoError ==
    /\ mode \in world.errors /\ errors < MaxErrors
    /\ todo # <<>> /\ Operation \notin {"check", "verify", "reverify", "fail"}
    /\ errors' = errors + 1
    /\ todo' = IF Operation \in {"abandon", "mark", "isolate"} THEN <<>> ELSE Failure(mode)
    /\ Interrupted
    /\ UNCHANGED <<mode, local, world, used, crashes>>

(* The files of a pack that waits for a restart change.                    *)
Tamper(t) ==
    /\ world.damage /\ mode \in {"running", "down"}
    /\ Intact(staging[t])
    /\ staging' = [staging EXCEPT ![t] = Damaged(staging[t])]
    /\ UNCHANGED <<stable, backup, journal, marker, mode, local, todo, bounds>>

Operate ==
    \/ \E phase \in Phases : WriteJournal(phase)
    \/ CheckStaging \/ BackUp \/ Promote \/ Verify \/ Reverify
    \/ Quarantine \/ Restore \/ DropStaging \/ DropBackup \/ DropJournal
    \/ SetMarker \/ Fail \/ Return

Next ==
    \/ \E p \in Packs : AlreadyInstalled(p)
    \/ \E t \in Transactions, p \in Packs, defer \in BOOLEAN : Install(t, p, defer)
    \/ Operate
    \/ StartClean \/ StartRecovery \/ Quit
    \/ Crash \/ IoError
    \/ \E t \in Transactions : Tamper(t)

Spec == Init /\ [][Next]_vars

(* The process runs on, and the user starts the application again.         *)
FairSpec == Spec /\ WF_vars(Operate) /\ WF_vars(StartClean \/ StartRecovery)

-----------------------------------------------------------------------------
TypeOK ==
    /\ stable \in Directories /\ journal \in Journals /\ local \in Journals
    /\ staging \in [Transactions -> Directories] /\ backup \in [Transactions -> Directories]
    /\ marker \in BOOLEAN /\ world \in Worlds /\ used \subseteq Transactions
    /\ mode \in {"running", "install", "recovery", "down"}
    /\ todo \in Seq(Operations)
    /\ (todo # <<>> => mode \in {"install", "recovery"})
    /\ (local # NoJournal <=> mode \in {"install", "recovery"})
    /\ crashes \in 0..MaxCrashes /\ errors \in 0..MaxErrors

(* A copy of the pack that works, or one that the next recovery restores.  *)
Recoverable == Intact(stable) \/ (journal # NoJournal /\ Intact(backup[journal.txn]))

(* No install, crash or recovery costs the user a pack that worked         *)
(* ("a failed install or repair must never break the current CPU runtime").*)
PackSurvives == [][Recoverable => Recoverable']_vars

(* While the application runs, a pack that works is in its place and not   *)
(* in a backup: replacements that failed have been undone.  Undoing stops  *)
(* at a file operation that fails, and the next start goes on with it.     *)
BackupRestored ==
    mode = "running" /\ errors = 0 /\ journal # NoJournal => ~Intact(backup[journal.txn])

(* Startup "keeps a valid stable candidate".                               *)
KeepsValidStable ==
    [][mode = "recovery" /\ IsCandidate(stable, local) => stable' = stable]_vars

(* Recovery comes to an end, and so does every start of the application.   *)
StartupEnds == mode = "down" ~> mode = "running"
=============================================================================
