---------------------------- MODULE RuntimeInstall ----------------------------
(***************************************************************************)
(* Installing and selecting runtime packs: install_runtime_pack and the    *)
(* installer behind it, the choice of a backend and the start of the       *)
(* application.                                                            *)
(*                                                                         *)
(* The user's window, the tasks of the install commands and the worker     *)
(* that has a pack loaded run side by side; the application is closed or   *)
(* crashes at any time.  How a directory is replaced is the subject of     *)
(* RuntimeTransaction: here it is done, or leaves it as it was, or leaves  *)
(* the rest to the next start.                                             *)
(***************************************************************************)
EXTENDS RuntimeSelection, Naturals, FiniteSets

CONSTANTS
    Calls,                             \* invocations of install_runtime_pack
    Size,                              \* chunks in an archive
    MaxSwitches, MaxCrashes, MaxFaults \* bounds

ASSUME InstallAssumption ==
    Size \in Nat \ {0} /\ None \notin Calls
    /\ MaxSwitches \in Nat /\ MaxCrashes \in Nat /\ MaxFaults \in Nat

VARIABLES
    app,        \* where the setup of the application is
    pack,       \* the stable directory of a backend
    journal,    \* its transaction: deferred, or interrupted after the first rename
    repair,     \* backends with a .repair-required marker
    part,       \* the downloaded part of its archive
    devices,    \* backends the machine has a device for
    host,       \* RuntimeHostState
    loaded,     \* the pack the worker has loaded
    active,     \* InstallCoordinator.active
    cancelled,  \* calls whose token was cancelled
    calls,      \* the install commands
    replaced,   \* calls that changed a directory or left a journal
    window,     \* useNativeRuntime: the backend it applied, and a switch
    switches, crashes, faults

disk == <<pack, journal, repair, part, devices>>
installer == <<active, cancelled, calls, replaced>>
bounds == <<switches, crashes, faults>>
vars == <<selections, app, disk, host, loaded, installer, window, bounds>>

\* "absent" was never there, "away" is what a replacement took out of its place.
Packs == {"absent", "away", "old", "new", "damaged"}
Valid == {"old", "new"}
NoPart == [chunks |-> 0, good |-> TRUE]
Whole == [chunks |-> Size, good |-> TRUE]
NoCall == [at |-> "none", backend |-> Cpu, defer |-> FALSE, worker |-> FALSE, outcome |-> "none"]
InWindow(step, applied, target) ==
    [step |-> step, applied |-> applied, target |-> target, back |-> FALSE, chosen |-> FALSE]
NoWindow == InWindow("idle", None, None)

\* An operation goes wrong, as often as the bound allows.
Goes(ok) == IF ok THEN UNCHANGED faults ELSE faults < MaxFaults /\ faults' = faults + 1

\* runtime_directory_ready, and the status "ready" of the window's inventory.
Ready(b) == pack[b] \in Valid /\ b \in devices
Missing(b) == pack[b] \in {"absent", "away"}
Away(b) == IF pack[b] = "absent" THEN "absent" ELSE "away"
Listed(b) == Ready(b) /\ b \notin repair /\ journal[b] = "none"
Running == app = "running"

\* The packs and the selection as earlier sessions left them.
Init ==
    /\ saved \in {[Default EXCEPT !.active = b] : b \in Backends} /\ selection = saved
    /\ app = "off" /\ host = "none" /\ loaded = None
    /\ pack \in [Backends -> Packs \ {"away", "new"}]
    /\ journal = [b \in Backends |-> "none"] /\ repair = {}
    /\ part = [b \in Backends |-> NoPart]
    /\ devices \in {D \in SUBSET Backends : Cpu \in D}
    /\ active = None /\ cancelled = {} /\ calls = [c \in Calls |-> NoCall] /\ replaced = {}
    /\ window = NoWindow /\ switches = 0 /\ crashes = 0 /\ faults = 0

(***************************************************************************)
(* The start of the application                                            *)
(***************************************************************************)
\* recover_transactions: a valid pack whose replacement had not begun is kept; a
\* deferred replacement is made; one that was interrupted is undone, or finished
\* when a crash left the staged files.  When nothing valid is left the journal is
\* isolated and the pack marked.
Kept(b) == journal[b] = "undo" /\ pack[b] \in Valid
Recovered(b, ok) ==
    CASE journal[b] = "none" \/ Kept(b) -> {pack[b]}
      [] journal[b] # "none" /\ ~Kept(b) /\ ~ok -> {pack[b], Away(b)}
      [] journal[b] = "deferred" /\ ok -> {"new"}
      [] journal[b] = "undo" /\ pack[b] = "away" /\ ok -> {"away", "old", "new"}
      [] OTHER -> {pack[b], "new"}
Recover(ok) ==
    /\ app = "off"
    /\ Goes(ok)
    /\ pack' \in {p \in [Backends -> Packs] : \A b \in Backends : p[b] \in Recovered(b, ok)}
    /\ repair' = {b \in Backends : \/ journal[b] # "none" /\ (~ok \/ pack'[b] \notin Valid)
                                   \/ b \in repair /\ (journal[b] = "none" \/ Kept(b))}
    /\ journal' = [b \in Backends |-> "none"]
    /\ app' = "bootstrap"
    /\ UNCHANGED <<selections, part, devices, host, loaded, installer, window, switches, crashes>>

\* bootstrap_cpu, with or without a CPU pack bundled with the installation, and
\* the opening of the selection.
Bootstrap(bundled, ok) ==
    /\ app = "bootstrap"
    /\ Goes(ok)
    /\ pack' = IF bundled /\ ok THEN [pack EXCEPT ![Cpu] = "new"] ELSE pack
    /\ repair' = IF bundled /\ ok THEN repair \ {Cpu} ELSE repair
    /\ host' = IF pack'[Cpu] \in Valid THEN "ready" ELSE "recovery"
    /\ Open
    /\ app' = "select"
    /\ UNCHANGED <<journal, part, devices, loaded, installer, window, switches, crashes>>

\* consume_pending; a selection that cannot be saved ends the setup.
Applied(b) == IF Listed(b) THEN b ELSE IF Listed(Cpu) THEN Cpu ELSE None
Select(ok) ==
    /\ app = "select"
    /\ Goes(ok)
    /\ ok \/ selection.pending # None
    /\ ConsumePending(selection.pending \in Backends /\ Ready(selection.pending), ok)
    /\ app' = IF ok THEN "running" ELSE "off"
    /\ host' = IF ok THEN host ELSE "none"
    /\ window' = IF ok THEN InWindow("idle", Applied(selection'.active), None) ELSE NoWindow
    /\ UNCHANGED <<disk, loaded, installer, switches, crashes>>

\* The process ends, and whatever it was doing with it.
Crash ==
    /\ app # "off" /\ crashes < MaxCrashes
    /\ crashes' = crashes + 1
    /\ app' = "off" /\ host' = "none" /\ loaded' = None /\ window' = NoWindow
    /\ active' = None
    /\ calls' = [c \in Calls |-> IF calls[c].at = "none" THEN NoCall
                                 ELSE [NoCall EXCEPT !.at = "ended", !.outcome = "gone"]]
    /\ cancelled' = {} /\ replaced' = {}
    /\ UNCHANGED <<selections, disk, switches, faults>>

\* Somebody changes the files of a pack.
Damage(b) ==
    /\ pack[b] = "old" /\ Goes(FALSE)
    /\ pack' = [pack EXCEPT ![b] = "damaged"]
    /\ UNCHANGED <<selections, app, journal, repair, part, devices, host, loaded, installer, window,
                   switches, crashes>>

(***************************************************************************)
(* install_runtime_pack                                                    *)
(***************************************************************************)
CallStep(c, at) ==
    /\ Running /\ calls[c].at = at
    /\ UNCHANGED <<app, devices, window, switches, crashes>>
Goto(c, at) == calls' = [calls EXCEPT ![c].at = at]
End(c, outcome) ==
    calls' = [calls EXCEPT ![c] = [NoCall EXCEPT !.at = "ended", !.backend = calls[c].backend,
                                                 !.outcome = outcome]]

\* The window offers to install what is missing, needs repair or is pending, and
\* a pack whose probe went wrong.
Offered(b) == b \in repair \/ pack[b] \notin Valid \/ journal[b] # "none"

\* The command looks at the worker and at the selection, decides whether the
\* replacement is for the next start, and asks the coordinator.
ShouldDefer(b) == host = "ready" /\ selection.active = b
Begin(c, b) ==
    /\ CallStep(c, "none") /\ Goes(Offered(b))
    /\ calls' = [calls EXCEPT ![c] =
           IF active = None
           THEN [NoCall EXCEPT !.at = "fetch", !.backend = b, !.defer = ShouldDefer(b),
                               !.worker = host = "ready"]
           ELSE [NoCall EXCEPT !.at = "ended", !.backend = b, !.outcome = "busy"]]
    /\ active' = IF active = None THEN c ELSE active
    /\ UNCHANGED <<selections, pack, journal, repair, part, host, loaded, cancelled, replaced>>
\* An early return that forgets the coordinator.
LeaveBusy(c, outcome) == UNCHANGED active /\ End(c, outcome)

\* InstallCoordinator::finish, on the way out of install.
Leave(c, outcome) == active' = None /\ End(c, outcome)
Failed(c) == Leave(c, "failed")

\* fetch_manifest.
Fetch(c, ok) ==
    /\ CallStep(c, "fetch") /\ Goes(ok)
    /\ IF ok THEN Goto(c, "download") /\ UNCHANGED active ELSE Failed(c)
    /\ UNCHANGED <<selections, pack, journal, repair, part, host, loaded, cancelled, replaced>>

\* The start of download_verified_archive: a complete part is checked, a shorter
\* one is kept when the server can resume.
Keep(b, p) == part' = [part EXCEPT ![b] = p]
Withdrawn(c) == c \in cancelled /\ Keep(calls[c].backend, NoPart) /\ Leave(c, "cancelled")
Resume(c, resumes) ==
    /\ CallStep(c, "download")
    /\ LET b == calls[c].backend IN
       \/ Withdrawn(c)
       \/ /\ c \notin cancelled
          /\ IF part[b] = Whole
             THEN Goto(c, "verify") /\ UNCHANGED part
             ELSE /\ Keep(b, IF part[b].chunks = Size \/ ~resumes THEN NoPart ELSE part[b])
                  /\ Goto(c, "stream")
          /\ UNCHANGED active
    /\ UNCHANGED <<selections, pack, journal, repair, host, loaded, cancelled, replaced, faults>>
\* The body may not exceed the size in the catalogue.
Room(b) == part[b].chunks < Size

\* A chunk of the body, which the server may have got wrong, or a broken
\* connection, which leaves the part for the next time.
Chunk(c, kind) ==
    /\ CallStep(c, "stream")
    /\ Goes(kind = "good" \/ c \in cancelled)
    /\ LET b == calls[c].backend IN
       \/ Withdrawn(c)
       \/ /\ c \notin cancelled
          /\ CASE kind = "broken" -> Failed(c) /\ UNCHANGED part
               [] kind = "long" -> Failed(c) /\ Keep(b, NoPart)
               [] OTHER -> /\ Room(b)
                           /\ Keep(b, [chunks |-> part[b].chunks + 1,
                                       good |-> part[b].good /\ kind = "good"])
                           /\ UNCHANGED <<active, calls>>
    /\ UNCHANGED <<selections, pack, journal, repair, host, loaded, cancelled, replaced>>

\* The end of the body: the size and the digest are checked.
Streamed(c) ==
    /\ CallStep(c, "stream")
    /\ LET b == calls[c].backend IN
       /\ part[b].chunks = Size
       /\ IF part[b].good THEN Goto(c, "verify") /\ UNCHANGED <<active, part>>
                          ELSE Failed(c) /\ Keep(b, NoPart)
    /\ UNCHANGED <<selections, pack, journal, repair, host, loaded, cancelled, replaced, faults>>

\* The last look at the token.
Verify(c) ==
    /\ CallStep(c, "verify")
    /\ \/ Withdrawn(c)
       \/ c \notin cancelled /\ Goto(c, "replace") /\ UNCHANGED <<active, part>>
    /\ UNCHANGED <<selections, pack, journal, repair, host, loaded, cancelled, replaced, faults>>
\* A check of the existing pack that does not read its files.
LooksInstalled(c, b) ==
    /\ ~Missing(b)
    /\ repair' = repair \ {b}
    /\ UNCHANGED <<pack, journal, replaced, faults>> /\ Goto(c, "finish")

\* install_verified_archive_with_mode_and_probe: nothing to do, a deferred
\* replacement, one in place, or a failure before it, at the first rename (which
\* the files of a loaded pack may refuse), at the second or after both, when the
\* final validation puts back what was there.
AlreadyInstalled(c, b) ==
    /\ pack[b] = "new"
    /\ repair' = repair \ {b}
    /\ UNCHANGED <<pack, journal, replaced, faults>> /\ Goto(c, "finish")
Defer(c, b) ==
    /\ pack[b] # "new" /\ calls[c].defer
    /\ journal' = [journal EXCEPT ![b] = "deferred"] /\ replaced' = replaced \union {c}
    /\ UNCHANGED <<pack, repair, faults>> /\ Goto(c, "finish")
InPlace(c, b) ==
    /\ pack[b] # "new" /\ ~calls[c].defer
    /\ pack' = [pack EXCEPT ![b] = "new"] /\ journal' = [journal EXCEPT ![b] = "none"]
    /\ repair' = repair \ {b} /\ replaced' = replaced \union {c}
    /\ UNCHANGED faults /\ Goto(c, "finish")
NotExtracted(c, b) ==
    /\ Goes(FALSE) /\ UNCHANGED <<pack, journal, repair, replaced>> /\ Goto(c, "failing")
NotRenamed(c, b) ==
    /\ pack[b] # "new" /\ ~calls[c].defer
    /\ Goes(loaded = b)
    /\ \E left \in {pack[b], Away(b)} : pack' = [pack EXCEPT ![b] = IF loaded = b THEN @ ELSE left]
    /\ journal' = [journal EXCEPT ![b] = "undo"] /\ replaced' = replaced \union {c}
    /\ UNCHANGED repair /\ Goto(c, "failing")
NotValid(c, b) ==
    /\ pack[b] # "new" /\ ~calls[c].defer
    /\ Goes(FALSE)
    /\ journal' = [journal EXCEPT ![b] = "none"] /\ replaced' = replaced \union {c}
    /\ UNCHANGED <<pack, repair>> /\ Goto(c, "failing")
Replace(c) ==
    /\ CallStep(c, "replace")
    /\ LET b == calls[c].backend IN
       \/ AlreadyInstalled(c, b) \/ Defer(c, b) \/ InPlace(c, b)
       \/ NotExtracted(c, b) \/ NotRenamed(c, b) \/ NotValid(c, b)
    /\ UNCHANGED <<selections, part, host, loaded, active, cancelled>>

\* The installer returns: the archive is removed after a success only.
Finish(c) ==
    /\ CallStep(c, IF calls[c].at = "failing" THEN "failing" ELSE "finish")
    /\ IF calls[c].at = "failing"
       THEN Failed(c) /\ UNCHANGED part
       ELSE Keep(calls[c].backend, NoPart) /\ active' = None /\ Goto(c, "probe")
    /\ UNCHANGED <<selections, pack, journal, repair, host, loaded, cancelled, replaced, faults>>
\* A probe that does not look at the stable directory.
ProbeStaging(b, ok) == ok /\ b \in devices

FinalProbe(b, ok) == ok /\ Ready(b)
NeedsWorker(call) == ~call.worker /\ call.backend = Cpu

\* The rest of the command, when the coordinator is free again: the stable
\* directory is probed, and the selection or the host is told.
Probe(c, ok) ==
    /\ CallStep(c, "probe") /\ Goes(ok)
    /\ LET call == calls[c] IN
       \/ ~FinalProbe(call.backend, ok) /\ End(c, "failed")
       \/ FinalProbe(call.backend, ok) /\ call.defer /\ Goto(c, "defer")
       \/ FinalProbe(call.backend, ok) /\ ~call.defer /\ NeedsWorker(call) /\ Goto(c, "spawn")
       \/ FinalProbe(call.backend, ok) /\ ~call.defer /\ ~NeedsWorker(call) /\ End(c, "installed")
    /\ UNCHANGED <<selections, pack, journal, repair, part, host, loaded, active, cancelled, replaced>>

TellSelection(c, ok) ==
    /\ CallStep(c, "defer") /\ Goes(ok)
    /\ RequestActivation(calls[c].backend, ok)
    /\ End(c, IF ok THEN "restart" ELSE "failed")
    /\ UNCHANGED <<pack, journal, repair, part, host, loaded, active, cancelled, replaced>>

\* A worker is spawned, and the recovered CPU becomes the selection, whatever it
\* was.
SelectCpu(c, ok) ==
    /\ Running /\ calls[c].at = "spawn" /\ Goes(ok)
    /\ SetActive(Cpu, ok) \/ (~ok /\ UNCHANGED selections)
    /\ IF ok THEN Goto(c, "activate") ELSE End(c, "failed")
    /\ window' = [window EXCEPT !.chosen = FALSE]
    /\ UNCHANGED <<app, disk, host, loaded, active, cancelled, replaced, switches, crashes>>

\* RuntimeHost::activate.
Activate(c) ==
    /\ CallStep(c, "activate")
    /\ End(c, IF host = "ready" THEN "failed" ELSE "installed")
    /\ host' = "ready"
    /\ UNCHANGED <<selections, pack, journal, repair, part, loaded, active, cancelled, replaced, faults>>

(***************************************************************************)
(* The window                                                              *)
(***************************************************************************)
CancelInstall ==
    /\ Running /\ active # None
    /\ cancelled' = cancelled \union {active}
    /\ UNCHANGED <<selections, app, disk, host, loaded, active, calls, replaced, window, bounds>>

WindowStep(step) ==
    /\ Running /\ window.step = step
    /\ UNCHANGED <<app, disk, host, installer, crashes>>

\* refreshRuntimePacks, after an install.
Refresh ==
    /\ WindowStep("idle") /\ \E c \in Calls : calls[c].outcome \in {"installed", "restart"}
    /\ window' = InWindow("idle", Applied(selection.active), None)
    /\ UNCHANGED <<selections, loaded, switches, faults>>

\* A model is loaded with the backend that is applied; of a damaged pack the
\* library may still be there.
Loadable(b) == host = "ready" /\ pack[b] \in Valid
Loads(b, ok) == (ok => host = "ready" /\ ~Missing(b)) /\ loaded' = IF ok THEN b ELSE None
LoadApplied(ok) ==
    /\ WindowStep("idle") /\ window.applied # None /\ switches < MaxSwitches
    /\ switches' = switches + 1
    /\ Loads(window.applied, ok)
    /\ UNCHANGED <<selections, window, faults>>

\* applyConfiguration: the model, if there is one, is unloaded and loaded with the
\* other pack, and only then the choice is saved; a failure goes back to the pack
\* before.
Switch(b, model) ==
    /\ WindowStep("idle") /\ Listed(b) /\ switches < MaxSwitches
    /\ loaded # None => model
    /\ switches' = switches + 1
    /\ window' = [window EXCEPT !.step = IF model THEN "load" ELSE "save", !.target = b,
                                !.back = loaded # None /\ window.applied # None]
    /\ loaded' = None
    /\ UNCHANGED <<selections, faults>>

Load(ok) ==
    /\ WindowStep("load") /\ Goes(ok \/ ~Loadable(window.target))
    /\ Loads(window.target, ok)
    /\ window' = [window EXCEPT !.step = IF ok THEN "save" ELSE IF window.back THEN "reload" ELSE "idle"]
    /\ UNCHANGED <<selections, switches>>
\* A switch that does not hear of the failure.
SaveAnyway(ok) ==
    /\ WindowStep("save") /\ Goes(ok)
    /\ SetActive(window.target, ok)
    /\ window' = [InWindow("idle", window.target, None) EXCEPT !.chosen = TRUE]
    /\ UNCHANGED <<loaded, switches>>

Save(ok) ==
    /\ WindowStep("save") /\ Goes(ok)
    /\ SetActive(window.target, ok)
    /\ window' = IF ok THEN [InWindow("idle", window.target, None) EXCEPT !.chosen = TRUE]
                 ELSE [window EXCEPT !.step = IF window.back THEN "reload" ELSE "idle",
                                     !.chosen = FALSE]
    /\ UNCHANGED <<loaded, switches>>

Reload(ok) ==
    /\ WindowStep("reload") /\ Goes(ok \/ ~Loadable(window.applied))
    /\ Loads(window.applied, ok)
    /\ window' = [window EXCEPT !.step = IF ok THEN "resave" ELSE "idle"]
    /\ UNCHANGED <<selections, switches>>

Resave(ok) ==
    /\ WindowStep("resave") /\ Goes(ok)
    /\ SetActive(window.applied, ok)
    /\ window' = IF ok THEN [InWindow("idle", window.applied, None) EXCEPT !.chosen = TRUE]
                 ELSE [window EXCEPT !.step = "idle"]
    /\ UNCHANGED <<loaded, switches>>

-----------------------------------------------------------------------------
Setup == \E ok, bundled \in BOOLEAN : Recover(ok) \/ Bootstrap(bundled, ok) \/ Select(ok)
Install(c) ==
    \/ \E ok \in BOOLEAN : Fetch(c, ok) \/ Resume(c, ok) \/ Probe(c, ok)
                           \/ TellSelection(c, ok) \/ SelectCpu(c, ok)
    \/ \E kind \in {"good", "bad", "long", "broken"} : Chunk(c, kind)
    \/ Streamed(c) \/ Verify(c) \/ Replace(c) \/ Finish(c) \/ Activate(c)
Window ==
    \/ CancelInstall \/ Refresh
    \/ \E b \in Backends, model \in BOOLEAN : Switch(b, model)
    \/ \E ok \in BOOLEAN : LoadApplied(ok) \/ Load(ok) \/ Save(ok) \/ Reload(ok) \/ Resave(ok)
Commands == \E c \in Calls, b \in Backends : Begin(c, b) \/ Damage(b)

Next == Setup \/ Crash \/ Window \/ Commands \/ \E c \in Calls : Install(c)

Spec == Init /\ [][Next]_vars

(***************************************************************************)
(* Properties                                                              *)
(***************************************************************************)
InstallTypeOK ==
    /\ selection \in Selection /\ saved \in Selection
    /\ app \in {"off", "bootstrap", "select", "running"}
    /\ pack \in [Backends -> Packs] /\ journal \in [Backends -> {"none", "deferred", "undo"}]
    /\ repair \subseteq Backends /\ devices \subseteq Backends
    /\ part \in [Backends -> [chunks : 0..Size, good : BOOLEAN]]
    /\ host \in {"none", "ready", "recovery"} /\ loaded \in Backends \union {None}
    /\ active \in Calls \union {None} /\ cancelled \subseteq Calls /\ replaced \subseteq Calls
    /\ calls \in [Calls -> [at : {"none", "fetch", "download", "stream", "verify", "replace", "finish",
                                  "failing", "probe", "defer", "spawn", "activate", "ended"},
                            backend : Backends, defer : BOOLEAN, worker : BOOLEAN,
                            outcome : {"none", "busy", "cancelled", "failed", "installed", "restart", "gone"}]]
    /\ window \in [step : {"idle", "load", "save", "reload", "resave"},
                   applied : Backends \union {None}, target : Backends \union {None},
                   back : BOOLEAN, chosen : BOOLEAN]
    /\ switches \in 0..MaxSwitches /\ crashes \in 0..MaxCrashes /\ faults \in 0..MaxFaults

\* Between begin and finish a call is alone, and the archive it checked is the
\* archive it extracts: nobody writes, resumes or removes it in between.
Inside(c) == calls[c].at \in {"fetch", "download", "stream", "verify", "replace", "finish", "failing"}
ArchiveIsChecked ==
    \A c \in Calls :
        /\ Inside(c) <=> active = c
        /\ calls[c].at \in {"verify", "replace"} => part[calls[c].backend] = Whole

\* Installing the CPU brings an application without a worker back to work.
CpuInstallRecovers ==
    \A c \in Calls : calls[c].outcome = "installed" /\ calls[c].backend = Cpu => host = "ready"

\* A call that was refused or cancelled left the packs alone, and what was
\* reported as installed is there, now or at the next start, unless a later
\* install of the same pack went wrong; a CPU pack that is installed is at work.
OutcomeIsTrue ==
    /\ CpuInstallRecovers
    /\ \A c \in Calls :
           /\ calls[c].outcome \in {"busy", "cancelled"} => c \notin replaced
           /\ calls[c].outcome \in {"installed", "restart"} =>
                  \/ pack[calls[c].backend] = "new"
                  \/ calls[c].outcome = "restart" /\ journal[calls[c].backend] = "deferred"
                  \/ \E d \in replaced \ {c} : calls[d].backend = calls[c].backend /\ calls[d].outcome # "installed"

\* The next start is asked to try a pack only when the machine has its device
\* and the pack was there and passed its probe; afterwards only a replacement
\* that failed can have taken it away, whatever else was installed meanwhile.
PendingWasProbed ==
    saved.pending # None => saved.pending \in devices /\ pack[saved.pending] # "absent"

\* What a switch settled on, or went back to after a failure, is what a restart
\* finds; only after a save that failed for good may the next save of anything
\* else write the backend the window never took.
ChoiceIsSaved == window.step = "idle" /\ window.chosen => saved.active = window.applied

(***************************************************************************)
(* What the design says and the code does not do                           *)
(***************************************************************************)
\* The design: after an "Archive or probe failure: staging is removed and stable
\* pack is unchanged".  An install that is reported as failed leaves no
\* replacement behind for the next start.
FailureLeavesNothing ==
    \A c \in Calls : calls[c].outcome = "failed" => journal[calls[c].backend] # "deferred"
================================================================================
