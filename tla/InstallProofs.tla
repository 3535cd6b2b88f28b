----------------------------- MODULE InstallProofs -----------------------------
(***************************************************************************)
(* Installing and selecting packs, for any number of install commands,     *)
(* backends, failures, crashes and switches: one command at a time is      *)
(* inside the coordinator, what a command reported is on the disk, the     *)
(* next start is only asked to try what was probed, and the window's       *)
(* choice is the saved one.                                                *)
(***************************************************************************)
EXTENDS RuntimeInstall, TLAPS

\* A command past the replacement of the directory, which went well.
Late == {"finish", "probe", "defer", "spawn", "activate"}
Arrived(c) == calls[c].at \in Late \/ calls[c].outcome \in {"installed", "restart"}

\* A replacement of the command's waits for the next start.
Postponed(c) ==
    calls[c].outcome = "restart" \/ (calls[c].at \in Late /\ calls[c].defer)

\* A command that changed the directory, or its journal, and then failed.
Spoilt(c) == c \in replaced /\ (calls[c].at = "failing" \/ calls[c].outcome = "failed")

\* What the command installed is there, or waits for the next start, or another
\* command has spoilt it.
Delivered(c) ==
    \/ pack[calls[c].backend] = "new"
    \/ Postponed(c) /\ journal[calls[c].backend] = "deferred"
    \/ \E d \in Calls \ {c} : calls[d].backend = calls[c].backend /\ Spoilt(d)

\* What the place of a command says of the rest.
CallOK(c) ==
    /\ calls[c].outcome # "none" <=> calls[c].at = "ended"
    /\ Inside(c) <=> active = c
    /\ calls[c].at \in {"verify", "replace"} => part[calls[c].backend] = Whole
    /\ c \in replaced => \/ calls[c].at \in Late \union {"failing"}
                         \/ calls[c].outcome \in {"installed", "restart", "failed"}
    /\ Arrived(c) => Delivered(c)
    /\ calls[c].at = "defer" =>
           /\ calls[c].defer /\ calls[c].backend \in devices
           /\ pack[calls[c].backend] # "absent"
    /\ calls[c].at \in {"spawn", "activate"} => ~calls[c].defer /\ calls[c].backend = Cpu
    /\ calls[c].worker => host = "ready"
    /\ calls[c].outcome = "installed" /\ calls[c].backend = Cpu => host = "ready"

\* Without a running application no command is under way, and none has reported.
Resting(c) == calls[c].at \in {"none", "ended"} /\ ~Arrived(c) /\ ~calls[c].worker
SetupOK ==
    ~Running => active = None /\ window = NoWindow /\ \A c \in Calls : Resting(c)

\* What the window goes back to is a backend, and what it chose is the choice of
\* the store and of the disk.
WindowOK ==
    /\ window.step # "idle" => window.target \in Backends
    /\ window.back => window.applied \in Backends
    /\ window.step \in {"reload", "resave"} => window.back
    /\ window.chosen => selection.active = window.applied /\ saved.active = window.applied

InstallInv ==
    /\ InstallTypeOK
    /\ \A c \in Calls : CallOK(c)
    /\ SetupOK
    /\ WindowOK
    /\ PendingWasProbed

-----------------------------------------------------------------------------
(* Types *)

Places == {"none", "fetch", "download", "stream", "verify", "replace", "finish",
           "failing", "probe", "defer", "spawn", "activate", "ended"}
Outcomes == {"none", "busy", "cancelled", "failed", "installed", "restart", "gone"}
CallRecord == [at : Places, backend : Backends, defer : BOOLEAN, worker : BOOLEAN,
               outcome : Outcomes]
PartRecord == [chunks : 0..Size, good : BOOLEAN]
WindowRecord == [step : {"idle", "load", "save", "reload", "resave"},
                 applied : Backends \union {None}, target : Backends \union {None},
                 back : BOOLEAN, chosen : BOOLEAN]

Others(c) == \A d \in Calls \ {c} : calls'[d] = calls[d]

\* A command goes on to its next place, and nothing else is said of it.
LEMMA GoesOn ==
    ASSUME InstallTypeOK, NEW c \in Calls, NEW at \in Places, Goto(c, at)
    PROVE  /\ calls' \in [Calls -> CallRecord] /\ Others(c)
           /\ calls'[c].at = at /\ calls'[c].backend = calls[c].backend
           /\ calls'[c].defer = calls[c].defer /\ calls'[c].worker = calls[c].worker
           /\ calls'[c].outcome = calls[c].outcome
<1>1. calls \in [Calls -> CallRecord] /\ calls' = [calls EXCEPT ![c].at = at]
  BY DEF InstallTypeOK, Goto, CallRecord, Places, Outcomes
<1>2. calls' \in [Calls -> CallRecord]
  BY <1>1 DEF CallRecord
<1>3. Others(c)
  BY <1>1 DEF Others
<1> QED
  BY <1>1, <1>2, <1>3 DEF CallRecord

\* A command ends: only its backend and its outcome are remembered.
LEMMA ComesToEnd ==
    ASSUME InstallTypeOK, NEW c \in Calls, NEW outcome \in Outcomes, End(c, outcome)
    PROVE  /\ calls' \in [Calls -> CallRecord] /\ Others(c)
           /\ calls'[c].at = "ended" /\ calls'[c].backend = calls[c].backend
           /\ ~calls'[c].defer /\ ~calls'[c].worker /\ calls'[c].outcome = outcome
BY DEF InstallTypeOK, End, NoCall, CallRecord, Places, Outcomes, Others

LEMMA Parts ==
    ASSUME InstallTypeOK
    PROVE  /\ NoPart \in PartRecord /\ Whole \in PartRecord
           /\ \A b \in Backends, p \in PartRecord : Keep(b, p) => part' \in [Backends -> PartRecord]
BY InstallAssumption DEF InstallTypeOK, PartRecord, NoPart, Whole, Keep

LEMMA FaultsCounted ==
    ASSUME InstallTypeOK, NEW ok \in BOOLEAN, Goes(ok)
    PROVE  faults' \in 0..MaxFaults
BY InstallAssumption DEF InstallTypeOK, Goes

LEMMA SelectionTyped ==
    ASSUME InstallTypeOK, NEW b \in Backends, NEW ok \in BOOLEAN,
           RequestActivation(b, ok) \/ SetActive(b, ok)
    PROVE  selection' \in Selection /\ saved' \in Selection
<1>1. ASSUME NEW new \in Selection, Store(new, ok)
      PROVE  selection' \in Selection /\ saved' \in Selection
  BY <1>1 DEF InstallTypeOK, Store
<1>2. [active |-> b, pending |-> None, failed |-> FALSE] \in Selection
  BY DEF Selection
<1>3. [selection EXCEPT !.pending = b, !.failed = FALSE] \in Selection
  BY DEF InstallTypeOK, Selection
<1> QED
  BY <1>1, <1>2, <1>3 DEF RequestActivation, SetActive

LEMMA Unmoved ==
    ASSUME InstallTypeOK
    PROVE  /\ UNCHANGED calls => calls' \in [Calls -> CallRecord]
           /\ calls \in [Calls -> CallRecord]
           /\ UNCHANGED part => part' \in [Backends -> PartRecord]
           /\ UNCHANGED faults => faults' \in 0..MaxFaults
BY DEF InstallTypeOK, CallRecord, PartRecord, Places, Outcomes

\* The types of the steps of a command.
LEMMA CommandTyped ==
    ASSUME InstallTypeOK, NEW c \in Calls, Install(c)
    PROVE  InstallTypeOK'
<1> USE DEF CallStep, InstallTypeOK
<1>a. calls[c].backend \in Backends
  OBVIOUS
<1>1. ASSUME NEW ok \in BOOLEAN, Fetch(c, ok) PROVE InstallTypeOK'
  <2>1. calls' \in [Calls -> CallRecord]
    BY <1>1, GoesOn, ComesToEnd DEF Fetch, Failed, Leave, Places, Outcomes
  <2> QED
    BY <1>1, <2>1, FaultsCounted DEF Fetch, Failed, Leave, disk, bounds, selections, CallRecord, Places, Outcomes
<1>2. ASSUME NEW ok \in BOOLEAN, Resume(c, ok) PROVE InstallTypeOK'
  <2>1. calls' \in [Calls -> CallRecord]
    BY <1>2, GoesOn, ComesToEnd DEF Resume, Withdrawn, Leave, Places, Outcomes
  <2>2. part' \in [Backends -> PartRecord]
    BY <1>2, <1>a, Parts, Unmoved DEF Resume, Withdrawn, PartRecord
  <2> QED
    BY <1>2, <2>1, <2>2 DEF Resume, Withdrawn, Leave, selections, CallRecord, PartRecord, Places, Outcomes
<1>3. ASSUME NEW kind \in {"good", "bad", "long", "broken"}, Chunk(c, kind) PROVE InstallTypeOK'
  <2>1. calls' \in [Calls -> CallRecord]
    BY <1>3, ComesToEnd, Unmoved DEF Chunk, Withdrawn, Failed, Leave, Outcomes
  <2>2. Room(calls[c].backend) =>
           [chunks |-> part[calls[c].backend].chunks + 1,
            good |-> part[calls[c].backend].good /\ kind = "good"] \in PartRecord
    BY <1>a, InstallAssumption DEF Room, PartRecord
  <2>3. part' \in [Backends -> PartRecord]
    BY <1>3, <1>a, <2>2, Parts, Unmoved DEF Chunk, Withdrawn
  <2>4. faults' \in 0..MaxFaults
    BY <1>3, FaultsCounted DEF Chunk
  <2> QED
    BY <1>3, <2>1, <2>3, <2>4 DEF Chunk, Withdrawn, Failed, Leave, selections, CallRecord, PartRecord, Places, Outcomes
<1>4. CASE Streamed(c)
  <2>1. calls' \in [Calls -> CallRecord]
    BY <1>4, GoesOn, ComesToEnd DEF Streamed, Failed, Leave, Places, Outcomes
  <2>2. part' \in [Backends -> PartRecord]
    BY <1>4, <1>a, Parts, Unmoved DEF Streamed
  <2> QED
    BY <1>4, <2>1, <2>2 DEF Streamed, Failed, Leave, selections, CallRecord, PartRecord, Places, Outcomes
<1>5. CASE Verify(c)
  <2>1. calls' \in [Calls -> CallRecord]
    BY <1>5, GoesOn, ComesToEnd DEF Verify, Withdrawn, Leave, Places, Outcomes
  <2>2. part' \in [Backends -> PartRecord]
    BY <1>5, <1>a, Parts, Unmoved DEF Verify, Withdrawn
  <2> QED
    BY <1>5, <2>1, <2>2 DEF Verify, Withdrawn, Leave, selections, CallRecord, PartRecord, Places, Outcomes
<1>6. CASE Replace(c)
  <2> DEFINE b == calls[c].backend
  <2>1. calls' \in [Calls -> CallRecord]
    BY <1>6, GoesOn DEF Replace, AlreadyInstalled, Defer, InPlace, NotExtracted, NotRenamed, NotValid, Places
  <2>2. faults' \in 0..MaxFaults
    BY <1>6, FaultsCounted, Unmoved
    DEF Replace, AlreadyInstalled, Defer, InPlace, NotExtracted, NotRenamed, NotValid
  <2>3. repair' \subseteq Backends /\ replaced' \subseteq Calls
    BY <1>6
    DEF Replace, AlreadyInstalled, Defer, InPlace, NotExtracted, NotRenamed, NotValid
  <2>5. pack' \in [Backends -> Packs]
    <3>1. ASSUME NEW p \in Packs, pack' = [pack EXCEPT ![b] = p]
          PROVE  pack' \in [Backends -> Packs]
      BY <3>1
    <3>2. "new" \in Packs /\ pack[b] \in Packs /\ Away(b) \in Packs
      BY <1>a DEF Packs, Away
    <3>3. CASE NotRenamed(c, b)
      BY <1>a, <3>1, <3>2, <3>3 DEF NotRenamed
    <3> QED
      BY <1>6, <3>1, <3>2, <3>3 DEF Replace, AlreadyInstalled, Defer, InPlace, NotExtracted, NotValid
  <2>4. journal' \in [Backends -> {"none", "deferred", "undo"}]
    BY <1>6, <1>a
    DEF Replace, AlreadyInstalled, Defer, InPlace, NotExtracted, NotRenamed, NotValid
  <2> QED
    BY <1>6, <2>1, <2>2, <2>3, <2>4, <2>5 DEF Replace, selections, CallRecord, Places, Outcomes
<1>7. CASE Finish(c)
  <2>1. calls' \in [Calls -> CallRecord]
    BY <1>7, GoesOn, ComesToEnd DEF Finish, Failed, Leave, Places, Outcomes
  <2>2. part' \in [Backends -> PartRecord]
    BY <1>7, <1>a, Parts, Unmoved DEF Finish
  <2> QED
    BY <1>7, <2>1, <2>2 DEF Finish, Failed, Leave, selections, CallRecord, PartRecord, Places, Outcomes
<1>8. ASSUME NEW ok \in BOOLEAN, Probe(c, ok) PROVE InstallTypeOK'
  <2>1. calls' \in [Calls -> CallRecord]
    BY <1>8, GoesOn, ComesToEnd DEF Probe, Places, Outcomes
  <2> QED
    BY <1>8, <2>1, FaultsCounted DEF Probe, selections, CallRecord, Places, Outcomes
<1>9. ASSUME NEW ok \in BOOLEAN, TellSelection(c, ok) PROVE InstallTypeOK'
  <2>1. calls' \in [Calls -> CallRecord]
    BY <1>9, ComesToEnd DEF TellSelection, Outcomes
  <2> QED
    BY <1>9, <1>a, <2>1, SelectionTyped, FaultsCounted DEF TellSelection, CallRecord, Places, Outcomes
<1>10. ASSUME NEW ok \in BOOLEAN, SelectCpu(c, ok) PROVE InstallTypeOK'
  <2>1. calls' \in [Calls -> CallRecord]
    BY <1>10, GoesOn, ComesToEnd DEF SelectCpu, Places, Outcomes
  <2>2. selection' \in Selection /\ saved' \in Selection
    BY <1>10, SelectionTyped, BackendsAssumption DEF SelectCpu, selections
  <2> QED
    BY <1>10, <2>1, <2>2, FaultsCounted DEF SelectCpu, disk, CallRecord, Places, Outcomes
<1>11. CASE Activate(c)
  <2>1. calls' \in [Calls -> CallRecord]
    BY <1>11, ComesToEnd DEF Activate, Outcomes
  <2> QED
    BY <1>11, <2>1 DEF Activate, selections, CallRecord, Places, Outcomes
<1> QED
  BY <1>1, <1>2, <1>3, <1>4, <1>5, <1>6, <1>7, <1>8, <1>9, <1>10, <1>11 DEF Install

\* The types of the other steps.
LEMMA SetupTyped == ASSUME InstallTypeOK, Setup \/ Crash PROVE InstallTypeOK'
<1> USE DEF InstallTypeOK
<1>1. ASSUME NEW ok \in BOOLEAN, Recover(ok) PROVE InstallTypeOK'
  BY <1>1, FaultsCounted DEF Recover, selections, installer
<1>2. ASSUME NEW ok \in BOOLEAN, NEW bundled \in BOOLEAN, Bootstrap(bundled, ok) PROVE InstallTypeOK'
  <2>1. pack' \in [Backends -> Packs] /\ repair' \subseteq Backends
    BY <1>2, BackendsAssumption DEF Bootstrap, Packs
  <2> QED
    BY <1>2, <2>1, FaultsCounted DEF Bootstrap, Open, installer
<1>3. ASSUME NEW ok \in BOOLEAN, Select(ok) PROVE InstallTypeOK'
  <2>1. selection' \in Selection /\ saved' \in Selection
    <3>1. CASE selection.pending = None
      BY <1>3, <3>1 DEF Select, ConsumePending, selections
    <3>2. CASE selection.pending # None
      <4> DEFINE ready == selection.pending \in Backends /\ Ready(selection.pending)
                 new == [active |-> IF ready THEN selection.pending ELSE Cpu, pending |-> None,
                         failed |-> ~ready]
      <4>1. new \in Selection
        BY <3>2, BackendsAssumption DEF Selection
      <4>2. Store(new, ok)
        BY <1>3, <3>2 DEF Select, ConsumePending
      <4> QED
        BY <4>1, <4>2 DEF Store
    <3> QED
      BY <3>1, <3>2
  <2>2. window' \in WindowRecord
    <3>1. Applied(selection'.active) \in Backends \union {None}
      BY <2>1, BackendsAssumption DEF Applied, Selection
    <3> QED
      BY <1>3, <3>1 DEF Select, InWindow, NoWindow, WindowRecord
  <2> QED
    BY <1>3, <2>1, <2>2, FaultsCounted DEF Select, disk, installer, WindowRecord
<1>4. CASE Crash
  <2>1. calls' \in [Calls -> CallRecord]
    BY <1>4, BackendsAssumption DEF Crash, CallRecord, NoCall, Places, Outcomes
  <2> QED
    BY <1>4, <2>1, InstallAssumption
    DEF Crash, selections, disk, NoWindow, InWindow, CallRecord, Places, Outcomes
<1> QED
  BY <1>1, <1>2, <1>3, <1>4 DEF Setup

LEMMA CommandsTyped == ASSUME InstallTypeOK, Commands PROVE InstallTypeOK'
<1> USE DEF InstallTypeOK
<1>1. ASSUME NEW c \in Calls, NEW b \in Backends, Begin(c, b) PROVE InstallTypeOK'
  <2>1. calls' \in [Calls -> CallRecord]
    <3> DEFINE inside == [NoCall EXCEPT !.at = "fetch", !.backend = b, !.defer = ShouldDefer(b),
                                        !.worker = host = "ready"]
               refused == [NoCall EXCEPT !.at = "ended", !.backend = b, !.outcome = "busy"]
    <3>1. inside \in CallRecord /\ refused \in CallRecord
      BY DEF CallRecord, NoCall, ShouldDefer, Places, Outcomes
    <3>2. calls' = [calls EXCEPT ![c] = IF active = None THEN inside ELSE refused]
      BY <1>1 DEF Begin
    <3> HIDE DEF inside, refused
    <3> QED
      BY <3>1, <3>2, Unmoved
  <2>2. faults' \in 0..MaxFaults
    BY <1>1, FaultsCounted DEF Begin, Offered
  <2> QED
    BY <1>1, <2>1, <2>2 DEF Begin, CallStep, selections, CallRecord, Places, Outcomes
<1>2. ASSUME NEW b \in Backends, Damage(b) PROVE InstallTypeOK'
  <2>1. pack' \in [Backends -> Packs]
    BY <1>2 DEF Damage, Packs
  <2>2. faults' \in 0..MaxFaults
    BY <1>2, FaultsCounted DEF Damage
  <2> QED
    BY <1>2, <2>1, <2>2 DEF Damage, selections, installer
<1> QED
  BY <1>1, <1>2 DEF Commands

LEMMA WindowTyped == ASSUME InstallTypeOK, WindowOK, Window PROVE InstallTypeOK'
<1> USE DEF InstallTypeOK, WindowStep
<1>1. CASE CancelInstall
  BY <1>1 DEF CancelInstall, selections, disk, bounds
<1>2. CASE Refresh
  <2>1. Applied(selection.active) \in Backends \union {None}
    BY BackendsAssumption DEF Applied, Selection
  <2> QED
    BY <1>2, <2>1 DEF Refresh, InWindow, selections, disk, installer
<1>3. ASSUME NEW b \in Backends, NEW model \in BOOLEAN, Switch(b, model) PROVE InstallTypeOK'
  <2>1. window' \in WindowRecord
    BY <1>3 DEF Switch, WindowRecord
  <2>2. switches' \in 0..MaxSwitches
    BY <1>3, InstallAssumption DEF Switch
  <2> QED
    BY <1>3, <2>1, <2>2 DEF Switch, WindowRecord, selections, disk, installer
<1>4. ASSUME NEW ok \in BOOLEAN, LoadApplied(ok) PROVE InstallTypeOK'
  <2>1. switches' \in 0..MaxSwitches
    BY <1>4, InstallAssumption DEF LoadApplied
  <2> QED
    BY <1>4, <2>1 DEF LoadApplied, Loads, selections, disk, installer
<1>5. ASSUME NEW ok \in BOOLEAN, Load(ok) PROVE InstallTypeOK'
  <2>1. window' \in WindowRecord
    BY <1>5 DEF Load, WindowRecord
  <2> QED
    BY <1>5, <2>1, FaultsCounted DEF Load, Loads, Loadable, WindowRecord, WindowOK, selections, disk, installer
<1>6. ASSUME NEW ok \in BOOLEAN, Save(ok) PROVE InstallTypeOK'
  <2>1. window.target \in Backends
    BY <1>6 DEF Save, WindowOK
  <2>2. window' \in WindowRecord
    BY <1>6, <2>1 DEF Save, WindowRecord, InWindow
  <2> QED
    BY <1>6, <2>1, <2>2, SelectionTyped, FaultsCounted DEF Save, WindowRecord, disk, installer
<1>7. ASSUME NEW ok \in BOOLEAN, Reload(ok) PROVE InstallTypeOK'
  <2>1. window' \in WindowRecord
    BY <1>7 DEF Reload, WindowRecord
  <2>2. window.applied \in Backends
    BY <1>7 DEF Reload, WindowOK
  <2> QED
    BY <1>7, <2>1, <2>2, FaultsCounted DEF Reload, Loads, Loadable, WindowRecord, selections, disk, installer
<1>8. ASSUME NEW ok \in BOOLEAN, Resave(ok) PROVE InstallTypeOK'
  <2>1. window.applied \in Backends
    BY <1>8 DEF Resave, WindowOK
  <2>2. window' \in WindowRecord
    BY <1>8, <2>1 DEF Resave, WindowRecord, InWindow
  <2> QED
    BY <1>8, <2>1, <2>2, SelectionTyped, FaultsCounted DEF Resave, WindowRecord, disk, installer
<1> QED
  BY <1>1, <1>2, <1>3, <1>4, <1>5, <1>6, <1>7, <1>8 DEF Window

LEMMA TypesKept == ASSUME InstallTypeOK, WindowOK, [Next]_vars PROVE InstallTypeOK'
<1>1. CASE UNCHANGED vars
  BY <1>1 DEF InstallTypeOK, vars, selections, disk, installer, bounds
<1> QED
  BY <1>1, CommandTyped, SetupTyped, CommandsTyped, WindowTyped DEF Next

-----------------------------------------------------------------------------
(* One command moves *)

\* What a step of a command leaves to the other commands: their records, the
\* archive they checked, and the packs they installed unless it spoils them.
Leaves(c) ==
    /\ Others(c) /\ UNCHANGED devices
    /\ replaced' \ {c} = replaced \ {c}
    /\ Spoilt(c) => Spoilt(c)' /\ calls'[c].backend = calls[c].backend
    /\ active' = active \/ (active = c /\ active' = None) \/ (active = None /\ active' = c)
    /\ active = c \/ UNCHANGED part
    /\ host = "ready" => host' = "ready"
    /\ \A b \in Backends :
          /\ pack[b] # "absent" => pack'[b] # "absent"
          /\ pack[b] = "new" => pack'[b] = "new"
          /\ journal[b] = "deferred" =>
                \/ journal'[b] = "deferred" \/ pack'[b] = "new"
                \/ calls'[c].backend = b /\ Spoilt(c)'

LEMMA OthersStayOK ==
    ASSUME InstallInv, InstallTypeOK', NEW c \in Calls, Leaves(c), CallOK(c)'
    PROVE  \A d \in Calls : CallOK(d)'
<1> SUFFICES ASSUME NEW d \in Calls \ {c} PROVE CallOK(d)'
  BY DEF Leaves
<1>a. /\ CallOK(d) /\ CallOK(c) /\ calls'[d] = calls[d] /\ calls[d].backend \in Backends
      /\ active \in Calls \union {None}
  BY DEF InstallInv, InstallTypeOK, Leaves, Others
<1>1. Inside(d)' <=> active' = d
  BY <1>a, InstallAssumption DEF CallOK, Inside, Leaves
<1>2. calls'[d].at \in {"verify", "replace"} => part'[calls'[d].backend] = Whole
  BY <1>a DEF CallOK, Inside, Leaves
<1>3. Arrived(d)' => Delivered(d)'
  <2> SUFFICES ASSUME Arrived(d), Delivered(d) PROVE Delivered(d)'
    BY <1>a DEF CallOK, Arrived
  <2>1. CASE pack[calls[d].backend] = "new"
    BY <1>a, <2>1 DEF Leaves, Delivered
  <2>2. CASE Postponed(d) /\ journal[calls[d].backend] = "deferred"
    BY <1>a, <2>2 DEF Leaves, Delivered, Postponed
  <2>3. ASSUME NEW e \in Calls \ {d}, calls[e].backend = calls[d].backend, Spoilt(e)
        PROVE  Delivered(d)'
    <3>1. Spoilt(e)' /\ calls'[e].backend = calls[e].backend
      BY <2>3 DEF Leaves, Others, Spoilt
    <3> QED
      BY <1>a, <2>3, <3>1 DEF Delivered
  <2> QED
    BY <2>1, <2>2, <2>3 DEF Delivered
<1>4. d \in replaced' <=> d \in replaced
  BY DEF Leaves
<1> QED
  BY <1>a, <1>1, <1>2, <1>3, <1>4 DEF CallOK, Leaves, Arrived

\* A command that leaves the files alone.
LEMMA DiskLeft ==
    ASSUME NEW c \in Calls, Others(c), UNCHANGED <<devices, pack, journal, replaced, host>>,
           Spoilt(c) => Spoilt(c)' /\ calls'[c].backend = calls[c].backend,
           active' = active \/ (active = c /\ active' = None) \/ (active = None /\ active' = c),
           active = c \/ UNCHANGED part
    PROVE  Leaves(c)
BY DEF Leaves

\* A command gives up before the replacement.
LEMMA GivesUp ==
    ASSUME InstallInv, InstallTypeOK', NEW c \in Calls, NEW outcome \in {"failed", "cancelled"},
           Leave(c, outcome), active = c,
           calls[c].at \in {"fetch", "download", "stream", "verify"} \/
              (calls[c].at = "failing" /\ outcome = "failed"),
           UNCHANGED <<devices, pack, journal, replaced, host>>
    PROVE  \A d \in Calls : CallOK(d)'
<1>1. /\ Others(c) /\ calls'[c].at = "ended" /\ calls'[c].backend = calls[c].backend
      /\ ~calls'[c].defer /\ ~calls'[c].worker /\ calls'[c].outcome = outcome /\ active' = None
  BY ComesToEnd DEF InstallInv, Leave, Outcomes
<1>2. CallOK(c)
  BY DEF InstallInv
<1>3. Leaves(c)
  <2>1. Spoilt(c) => Spoilt(c)'
    BY <1>1, <1>2 DEF Spoilt, CallOK
  <2> QED
    BY <1>1, <2>1, DiskLeft
<1>4. CallOK(c)'
  BY <1>1, <1>2, InstallAssumption DEF CallOK, Inside, Arrived, Late, Leave
<1> QED
  BY <1>3, <1>4, OthersStayOK

\* A command goes on inside the coordinator, and leaves the packs alone.
LEMMA GoesAhead ==
    ASSUME InstallInv, InstallTypeOK', NEW c \in Calls,
           NEW at \in {"download", "stream", "verify", "replace"}, Goto(c, at),
           active = c, UNCHANGED <<active, devices, pack, journal, replaced, host>>,
           calls[c].at \in {"fetch", "download", "stream", "verify"},
           at \in {"verify", "replace"} => part'[calls[c].backend] = Whole
    PROVE  \A d \in Calls : CallOK(d)'
<1>1. /\ Others(c) /\ calls'[c].at = at /\ calls'[c].backend = calls[c].backend
      /\ calls'[c].worker = calls[c].worker /\ calls'[c].outcome = calls[c].outcome
  BY GoesOn DEF InstallInv, Places
<1>2. CallOK(c)
  BY DEF InstallInv
<1>3. Leaves(c)
  <2>1. ~Spoilt(c)
    BY <1>2 DEF Spoilt, CallOK
  <2> QED
    BY <1>1, <2>1, DiskLeft
<1>4. CallOK(c)'
  BY <1>1, <1>2 DEF CallOK, Inside, Arrived, Late
<1> QED
  BY <1>3, <1>4, OthersStayOK

LEMMA DownloadKept ==
    ASSUME InstallInv, InstallTypeOK', NEW c \in Calls,
           \/ \E ok \in BOOLEAN : Fetch(c, ok) \/ Resume(c, ok)
           \/ \E kind \in {"good", "bad", "long", "broken"} : Chunk(c, kind)
           \/ Streamed(c) \/ Verify(c)
    PROVE  \A d \in Calls : CallOK(d)'
<1> DEFINE b == calls[c].backend
<1>a. CallOK(c) /\ b \in Backends /\ part \in [Backends -> PartRecord]
  BY DEF InstallInv, InstallTypeOK, PartRecord
<1>1. ASSUME NEW ok \in BOOLEAN, Fetch(c, ok) PROVE \A d \in Calls : CallOK(d)'
  BY <1>a, <1>1, GoesAhead, GivesUp DEF Fetch, CallStep, CallOK, Inside, Failed
<1>2. ASSUME NEW ok \in BOOLEAN, Resume(c, ok) PROVE \A d \in Calls : CallOK(d)'
  <2>1. CASE Withdrawn(c)
    BY <1>a, <1>2, <2>1, GivesUp DEF Resume, CallStep, CallOK, Inside, Withdrawn
  <2>2. CASE c \notin cancelled
    BY <1>a, <1>2, <2>2, GoesAhead DEF Resume, CallStep, CallOK, Inside, Withdrawn
  <2> QED
    BY <1>2, <2>1, <2>2 DEF Resume
<1>3. ASSUME NEW kind \in {"good", "bad", "long", "broken"}, Chunk(c, kind)
      PROVE \A d \in Calls : CallOK(d)'
  <2>1. CASE Withdrawn(c)
    BY <1>a, <1>3, <2>1, GivesUp DEF Chunk, CallStep, CallOK, Inside, Withdrawn
  <2>2. CASE c \notin cancelled /\ kind \in {"broken", "long"}
    BY <1>a, <1>3, <2>2, GivesUp DEF Chunk, CallStep, CallOK, Inside, Withdrawn, Failed
  <2>3. CASE c \notin cancelled /\ kind \in {"good", "bad"}
    <3>1. UNCHANGED <<active, calls, devices, pack, journal, replaced, host>> /\ active = c
          /\ calls[c].at = "stream"
      BY <1>a, <1>3, <2>3 DEF Chunk, CallStep, CallOK, Inside, Withdrawn
    <3>2. Leaves(c)
      BY <3>1, DiskLeft DEF Others, Spoilt
    <3>3. CallOK(c)'
      BY <1>a, <3>1 DEF CallOK, Inside, Arrived, Late
    <3> QED
      BY <3>2, <3>3, OthersStayOK
  <2> QED
    BY <1>3, <2>1, <2>2, <2>3 DEF Chunk
<1>4. CASE Streamed(c)
  <2>1. CASE part[b].good
    <3>1. part[b] = Whole
      BY <1>a, <1>4, <2>1 DEF Streamed, Whole, PartRecord
    <3> QED
      BY <1>a, <1>4, <2>1, <3>1, GoesAhead DEF Streamed, CallStep, CallOK, Inside
  <2>2. CASE ~part[b].good
    BY <1>a, <1>4, <2>2, GivesUp DEF Streamed, CallStep, CallOK, Inside, Failed
  <2> QED
    BY <2>1, <2>2
<1>5. CASE Verify(c)
  <2>1. CASE Withdrawn(c)
    BY <1>a, <1>5, <2>1, GivesUp DEF Verify, CallStep, CallOK, Inside, Withdrawn
  <2>2. CASE c \notin cancelled
    BY <1>a, <1>5, <2>2, GoesAhead DEF Verify, CallStep, CallOK, Inside, Withdrawn
  <2> QED
    BY <1>5, <2>1, <2>2 DEF Verify
<1> QED
  BY <1>1, <1>2, <1>3, <1>4, <1>5

\* The replacement of the directory.
LEMMA ReplaceKept ==
    ASSUME InstallInv, InstallTypeOK', NEW c \in Calls, Replace(c)
    PROVE  \A d \in Calls : CallOK(d)'
<1> DEFINE b == calls[c].backend
<1>a. /\ CallOK(c) /\ b \in Backends /\ calls[c].at = "replace" /\ active = c
      /\ pack \in [Backends -> Packs] /\ journal \in [Backends -> {"none", "deferred", "undo"}]
      /\ c \notin replaced /\ calls[c].outcome = "none"
  BY DEF InstallInv, InstallTypeOK, Replace, CallStep, CallOK, Inside, Late
<1>b. UNCHANGED <<active, devices, host, part>>
  BY DEF Replace, CallStep
<1>1. ASSUME Goto(c, "finish"), replaced' \ {c} = replaced \ {c},
             pack'[b] = "new" \/ (calls[c].defer /\ journal'[b] = "deferred"),
             \A a \in Backends :
                /\ pack[a] # "absent" => pack'[a] # "absent"
                /\ pack[a] = "new" => pack'[a] = "new"
                /\ journal[a] = "deferred" => journal'[a] = "deferred" \/ pack'[a] = "new"
      PROVE  \A d \in Calls : CallOK(d)'
  <2>1. /\ Others(c) /\ calls'[c].at = "finish" /\ calls'[c].backend = b
        /\ calls'[c].defer = calls[c].defer
        /\ calls'[c].worker = calls[c].worker /\ calls'[c].outcome = "none"
    BY <1>a, <1>1, GoesOn DEF InstallInv, Places
  <2>2. Leaves(c)
    BY <1>a, <1>b, <1>1, <2>1 DEF Leaves, Spoilt
  <2>3. CallOK(c)'
    BY <1>a, <1>b, <1>1, <2>1 DEF CallOK, Inside, Arrived, Late, Delivered, Postponed
  <2> QED
    BY <2>2, <2>3, OthersStayOK
<1>2. ASSUME Goto(c, "failing"), replaced' \ {c} = replaced \ {c},
             \A a \in Backends :
                /\ pack[a] # "absent" => pack'[a] # "absent"
                /\ pack[a] = "new" => pack'[a] = "new"
                /\ journal'[a] = journal[a] \/ (a = b /\ c \in replaced')
      PROVE  \A d \in Calls : CallOK(d)'
  <2>1. /\ Others(c) /\ calls'[c].at = "failing" /\ calls'[c].backend = b
        /\ calls'[c].worker = calls[c].worker /\ calls'[c].outcome = "none"
    BY <1>a, <1>2, GoesOn DEF InstallInv, Places
  <2>2. Leaves(c)
    BY <1>a, <1>b, <1>2, <2>1 DEF Leaves, Spoilt
  <2>3. CallOK(c)'
    BY <1>a, <1>b, <1>2, <2>1 DEF CallOK, Inside, Arrived, Late
  <2> QED
    BY <2>2, <2>3, OthersStayOK
<1>3. CASE AlreadyInstalled(c, b)
  BY <1>a, <1>1, <1>3 DEF AlreadyInstalled
<1>4. CASE Defer(c, b)
  BY <1>a, <1>1, <1>4 DEF Defer
<1>5. CASE InPlace(c, b)
  BY <1>a, <1>1, <1>5 DEF InPlace
<1>6. CASE NotExtracted(c, b)
  BY <1>a, <1>2, <1>6 DEF NotExtracted
<1>7. CASE NotRenamed(c, b)
  <2>1. PICK left \in {pack[b], Away(b)} :
           pack' = [pack EXCEPT ![b] = IF loaded = b THEN @ ELSE left]
    BY <1>7 DEF NotRenamed
  <2>2. \A a \in Backends : /\ pack[a] # "absent" => pack'[a] # "absent"
                            /\ pack[a] = "new" => pack'[a] = "new"
    BY <1>a, <1>7, <2>1 DEF NotRenamed, Away
  <2> QED
    BY <1>a, <1>2, <1>7, <2>2 DEF NotRenamed
<1>8. CASE NotValid(c, b)
  BY <1>a, <1>2, <1>8 DEF NotValid
<1> QED
  BY <1>3, <1>4, <1>5, <1>6, <1>7, <1>8 DEF Replace

\* What follows when the coordinator is free again.
LEMMA FinishKept ==
    ASSUME InstallInv, InstallTypeOK', NEW c \in Calls,
           \/ Finish(c) \/ Activate(c)
           \/ \E ok \in BOOLEAN : Probe(c, ok) \/ TellSelection(c, ok) \/ SelectCpu(c, ok)
    PROVE  \A d \in Calls : CallOK(d)'
<1> DEFINE b == calls[c].backend
<1>a. CallOK(c) /\ b \in Backends /\ calls \in [Calls -> CallRecord]
  BY Unmoved DEF InstallInv, CallRecord
<1>1. CASE Finish(c) /\ calls[c].at = "failing"
  BY <1>a, <1>1, GivesUp DEF Finish, CallStep, CallOK, Inside, Failed
<1>2. CASE Finish(c) /\ calls[c].at # "failing"
  <2>1. /\ calls[c].at = "finish" /\ active = c /\ active' = None
        /\ UNCHANGED <<devices, pack, journal, replaced, host>> /\ Goto(c, "probe")
    BY <1>a, <1>2 DEF Finish, CallStep, CallOK, Inside
  <2>2. /\ Others(c) /\ calls'[c].at = "probe" /\ calls'[c].backend = b
        /\ calls'[c].defer = calls[c].defer
        /\ calls'[c].worker = calls[c].worker /\ calls'[c].outcome = calls[c].outcome
    BY <2>1, GoesOn DEF InstallInv, Places
  <2>3. Leaves(c)
    BY <1>a, <2>1, <2>2, DiskLeft DEF Spoilt, CallOK
  <2>4. CallOK(c)'
    BY <1>a, <2>1, <2>2, InstallAssumption
    DEF CallOK, Inside, Arrived, Late, Delivered, Postponed, Spoilt, Others
  <2> QED
    BY <2>3, <2>4, OthersStayOK
<1>3. ASSUME NEW outcome \in {"failed", "installed", "restart"}, End(c, outcome),
             calls[c].at \in {"probe", "defer", "spawn", "activate"},
             UNCHANGED <<devices, pack, journal, replaced, part, active>>,
             host' = host \/ host' = "ready",
             outcome = "installed" => ~calls[c].defer /\ (b = Cpu => host' = "ready"),
             outcome = "restart" => calls[c].at = "defer"
      PROVE  \A d \in Calls : CallOK(d)'
  <2>1. /\ Others(c) /\ calls'[c].at = "ended" /\ calls'[c].backend = b
        /\ ~calls'[c].defer /\ ~calls'[c].worker /\ calls'[c].outcome = outcome
    BY <1>3, ComesToEnd DEF InstallInv, Outcomes
  <2>2. Leaves(c)
    BY <1>a, <1>3, <2>1 DEF Leaves, Spoilt, CallOK
  <2>3. Arrived(c)' => Delivered(c)'
    BY <1>a, <1>3, <2>1 DEF CallOK, Arrived, Late, Delivered, Postponed, Spoilt, Others
  <2>4. CallOK(c)'
    BY <1>a, <1>3, <2>1, <2>3 DEF CallOK, Inside, Late, Arrived
  <2> QED
    BY <2>2, <2>4, OthersStayOK
<1>4. ASSUME NEW at \in {"defer", "spawn", "activate"}, Goto(c, at),
             calls[c].at \in {"probe", "spawn"},
             UNCHANGED <<devices, pack, journal, replaced, part, active, host>>,
             at = "defer" => calls[c].defer /\ b \in devices /\ pack[b] # "absent",
             at \in {"spawn", "activate"} => ~calls[c].defer /\ b = Cpu
      PROVE  \A d \in Calls : CallOK(d)'
  <2>1. /\ Others(c) /\ calls'[c].at = at /\ calls'[c].backend = b
        /\ calls'[c].defer = calls[c].defer
        /\ calls'[c].worker = calls[c].worker /\ calls'[c].outcome = calls[c].outcome
    BY <1>4, GoesOn DEF InstallInv, Places
  <2>2. Leaves(c)
    BY <1>a, <1>4, <2>1 DEF Leaves, Spoilt, CallOK
  <2>3. Arrived(c)' => Delivered(c)'
    BY <1>a, <1>4, <2>1 DEF CallOK, Arrived, Late, Delivered, Postponed, Spoilt, Others
  <2>4. CallOK(c)'
    BY <1>a, <1>4, <2>1, <2>3 DEF CallOK, Inside, Late, Arrived
  <2> QED
    BY <2>2, <2>4, OthersStayOK
<1>5. ASSUME NEW ok \in BOOLEAN, Probe(c, ok) PROVE \A d \in Calls : CallOK(d)'
  <2>1. /\ calls[c].at = "probe"
        /\ UNCHANGED <<devices, pack, journal, replaced, part, active, host>>
    BY <1>5 DEF Probe, CallStep
  <2>2. CASE ~FinalProbe(b, ok)
    <3>1. End(c, "failed")
      BY <1>5, <2>2 DEF Probe
    <3> QED
      BY <1>3, <2>1, <3>1
  <2>3. CASE FinalProbe(b, ok) /\ calls[c].defer
    <3>1. Goto(c, "defer")
      BY <1>5, <2>3 DEF Probe
    <3>2. b \in devices /\ pack[b] # "absent"
      BY <2>3 DEF FinalProbe, Ready, Valid
    <3> QED
      BY <1>4, <2>1, <2>3, <3>1, <3>2
  <2>4. CASE FinalProbe(b, ok) /\ ~calls[c].defer /\ NeedsWorker(calls[c])
    BY <1>4, <1>5, <2>1, <2>4 DEF Probe, NeedsWorker
  <2>5. CASE FinalProbe(b, ok) /\ ~calls[c].defer /\ ~NeedsWorker(calls[c])
    BY <1>a, <1>3, <1>5, <2>1, <2>5 DEF Probe, NeedsWorker, CallOK
  <2> QED
    BY <2>2, <2>3, <2>4, <2>5
<1>6. ASSUME NEW ok \in BOOLEAN, TellSelection(c, ok) PROVE \A d \in Calls : CallOK(d)'
  BY <1>3, <1>6 DEF TellSelection, CallStep
<1>7. ASSUME NEW ok \in BOOLEAN, SelectCpu(c, ok) PROVE \A d \in Calls : CallOK(d)'
  BY <1>a, <1>3, <1>4, <1>7 DEF SelectCpu, disk, CallOK
<1>8. CASE Activate(c)
  BY <1>a, <1>3, <1>8 DEF Activate, CallStep, CallOK
<1> QED
  BY <1>1, <1>2, <1>5, <1>6, <1>7, <1>8

\* The steps that are not a command's.
LEMMA RestingOK ==
    ASSUME \A c \in Calls : Resting(c)' /\ active' = None /\ c \notin replaced',
           NEW d \in Calls, calls'[d].outcome # "none" <=> calls'[d].at = "ended"
    PROVE  CallOK(d)'
BY InstallAssumption DEF Resting, CallOK, Inside, Arrived

LEMMA SetupKept ==
    ASSUME InstallInv, InstallTypeOK', Setup \/ Crash
    PROVE  SetupOK' /\ \A d \in Calls : CallOK(d)'
<1>a. /\ SetupOK /\ \A c \in Calls : CallOK(c)
      /\ calls \in [Calls -> CallRecord] /\ journal \in [Backends -> {"none", "deferred", "undo"}]
  BY Unmoved DEF InstallInv, InstallTypeOK
<1>1. CASE Crash
  <2>1. \A c \in Calls : calls'[c] = IF calls[c].at = "none" THEN NoCall
                                     ELSE [NoCall EXCEPT !.at = "ended", !.outcome = "gone"]
    BY <1>1 DEF Crash
  <2> DEFINE gone == [NoCall EXCEPT !.at = "ended", !.outcome = "gone"]
  <2>a. /\ NoCall.at = "none" /\ NoCall.outcome = "none" /\ ~NoCall.worker
        /\ gone.at = "ended" /\ gone.outcome = "gone" /\ ~gone.worker
    BY DEF NoCall
  <2>b. \A c \in Calls : calls'[c] = NoCall \/ calls'[c] = gone
    BY <2>1
  <2> HIDE DEF gone
  <2>2. \A c \in Calls : Resting(c)'
    BY <2>a, <2>b DEF Resting, Arrived, Late
  <2>3. \A c \in Calls : calls'[c].outcome # "none" <=> calls'[c].at = "ended"
    BY <2>a, <2>b
  <2>4. active' = None /\ window' = NoWindow /\ replaced' = {}
    BY <1>1 DEF Crash
  <2> QED
    BY <2>2, <2>3, <2>4, RestingOK DEF SetupOK
<1>2. ASSUME UNCHANGED <<calls, active, replaced>>, app # "running",
             window' = NoWindow \/ app' = "running"
      PROVE  SetupOK' /\ \A d \in Calls : CallOK(d)'
  <2>1. active = None /\ active' = None /\ \A c \in Calls : Resting(c)
    BY <1>a, <1>2 DEF SetupOK, Running
  <2>2. \A c \in Calls : Resting(c)'
    BY <1>2, <2>1 DEF Resting, Arrived
  <2>3. SetupOK'
    BY <1>2, <2>1, <2>2 DEF SetupOK, Running
  <2>4. ASSUME NEW d \in Calls PROVE CallOK(d)'
    BY <1>a, <1>2, <2>1, InstallAssumption
    DEF CallOK, Resting, Inside, Arrived, Late
  <2> QED
    BY <2>3, <2>4
<1>3. ASSUME NEW ok \in BOOLEAN, Recover(ok) PROVE SetupOK' /\ \A d \in Calls : CallOK(d)'
  BY <1>a, <1>2, <1>3 DEF Recover, installer, SetupOK, Running
<1>4. ASSUME NEW ok \in BOOLEAN, NEW bundled \in BOOLEAN, Bootstrap(bundled, ok)
      PROVE SetupOK' /\ \A d \in Calls : CallOK(d)'
  BY <1>a, <1>2, <1>4 DEF Bootstrap, installer, SetupOK, Running
<1>5. ASSUME NEW ok \in BOOLEAN, Select(ok) PROVE SetupOK' /\ \A d \in Calls : CallOK(d)'
  BY <1>a, <1>2, <1>5 DEF Select, installer, SetupOK, Running
<1> QED
  BY <1>1, <1>3, <1>4, <1>5 DEF Setup

\* The window, and whoever damages a pack, leaves the commands alone.
LEMMA ApartKept ==
    ASSUME InstallInv, UNCHANGED <<calls, active, replaced, part, devices, host, journal, app>>,
           \A b \in Backends : /\ pack[b] # "absent" => pack'[b] # "absent"
                               /\ pack[b] = "new" => pack'[b] = "new",
           ~Running => window' = NoWindow
    PROVE  SetupOK' /\ \A d \in Calls : CallOK(d)'
<1>1. SetupOK'
  BY DEF InstallInv, SetupOK, Running, Resting, Arrived
<1>2. ASSUME NEW d \in Calls PROVE CallOK(d)'
  <2>1. CallOK(d) /\ calls[d].backend \in Backends
    BY DEF InstallInv, InstallTypeOK
  <2>2. Delivered(d) => Delivered(d)'
    BY <2>1 DEF Delivered, Postponed, Spoilt
  <2> QED
    BY <2>1, <2>2 DEF CallOK, Inside, Arrived
<1> QED
  BY <1>1, <1>2

LEMMA WindowApart == ASSUME InstallInv, Window PROVE SetupOK' /\ \A d \in Calls : CallOK(d)'
<1>1. UNCHANGED <<calls, active, replaced, part, devices, host, journal, app, pack>> /\ Running
  <2>1. CASE CancelInstall \/ Refresh
    BY <2>1 DEF CancelInstall, Refresh, WindowStep, disk, installer
  <2>2. ASSUME NEW b \in Backends, NEW model \in BOOLEAN, Switch(b, model)
        PROVE  UNCHANGED <<calls, active, replaced, part, devices, host, journal, app, pack>> /\ Running
    BY <2>2 DEF Switch, WindowStep, disk, installer
  <2>3. ASSUME NEW ok \in BOOLEAN,
               LoadApplied(ok) \/ Load(ok) \/ Save(ok) \/ Reload(ok) \/ Resave(ok)
        PROVE  UNCHANGED <<calls, active, replaced, part, devices, host, journal, app, pack>> /\ Running
    BY <2>3 DEF LoadApplied, Load, Save, Reload, Resave, WindowStep, disk, installer
  <2> QED
    BY <2>1, <2>2, <2>3 DEF Window
<1> QED
  BY <1>1, ApartKept

LEMMA CommandsKept ==
    ASSUME InstallInv, InstallTypeOK', Commands
    PROVE  SetupOK' /\ \A d \in Calls : CallOK(d)'
<1>1. ASSUME NEW c \in Calls, NEW b \in Backends, Begin(c, b)
      PROVE  SetupOK' /\ \A d \in Calls : CallOK(d)'
  <2>1. /\ CallOK(c) /\ calls[c].at = "none" /\ Running /\ app' = app
        /\ UNCHANGED <<devices, pack, journal, replaced, part, host>>
        /\ calls \in [Calls -> CallRecord]
    BY <1>1, Unmoved DEF Begin, CallStep, InstallInv
  <2>2. ~Spoilt(c)
    BY <2>1 DEF CallOK, Spoilt
  <2>3. Others(c)
    BY <1>1, <2>1 DEF Begin, Others
  <2>4. CASE active = None
    <3>1. /\ calls'[c].at = "fetch" /\ calls'[c].outcome = "none" /\ active' = c
          /\ calls'[c].worker => host = "ready"
      BY <1>1, <2>1, <2>4 DEF Begin, NoCall
    <3>2. Leaves(c)
      BY <2>1, <2>2, <2>3, <2>4, <3>1, DiskLeft
    <3>3. CallOK(c)'
      BY <2>1, <3>1 DEF CallOK, Inside, Arrived, Late
    <3> QED
      BY <2>1, <3>2, <3>3, OthersStayOK DEF SetupOK, Running
  <2>5. CASE active # None
    <3>1. /\ calls'[c].at = "ended" /\ calls'[c].outcome = "busy" /\ active' = active
          /\ ~calls'[c].worker
      BY <1>1, <2>1, <2>5 DEF Begin, NoCall
    <3>2. Leaves(c)
      BY <2>1, <2>2, <2>3, <3>1, DiskLeft
    <3>3. CallOK(c)'
      BY <2>1, <3>1 DEF CallOK, Inside, Arrived, Late
    <3> QED
      BY <2>1, <3>2, <3>3, OthersStayOK DEF SetupOK, Running
  <2> QED
    BY <2>4, <2>5
<1>2. ASSUME NEW b \in Backends, Damage(b) PROVE SetupOK' /\ \A d \in Calls : CallOK(d)'
  <2>1. \A a \in Backends : /\ pack[a] # "absent" => pack'[a] # "absent"
                            /\ pack[a] = "new" => pack'[a] = "new"
    BY <1>2 DEF Damage, InstallInv, InstallTypeOK
  <2> QED
    BY <1>2, <2>1, ApartKept DEF Damage, installer, InstallInv, SetupOK
<1> QED
  BY <1>1, <1>2 DEF Commands

LEMMA InstallKept ==
    ASSUME InstallInv, InstallTypeOK', NEW c \in Calls, Install(c)
    PROVE  SetupOK' /\ \A d \in Calls : CallOK(d)'
<1>1. Running /\ app' = app
  BY DEF Install, Fetch, Resume, Probe, TellSelection, SelectCpu, Chunk, Streamed, Verify,
         Replace, Finish, Activate, CallStep
<1>2. \A d \in Calls : CallOK(d)'
  BY DownloadKept, ReplaceKept, FinishKept DEF Install
<1> QED
  BY <1>1, <1>2 DEF SetupOK, Running

-----------------------------------------------------------------------------
(* The window and the selection *)

LEMMA WindowKept ==
    ASSUME InstallInv, InstallTypeOK', [Next]_vars PROVE WindowOK'
<1> USE DEF WindowOK
<1>a. WindowOK /\ window \in WindowRecord
  BY DEF InstallInv, InstallTypeOK, WindowRecord
<1>1. ASSUME UNCHANGED window, selection'.active = selection.active,
             saved' = saved \/ saved'.active = selection.active \/ ~window.chosen
      PROVE  WindowOK'
  BY <1>a, <1>1
<1>2. CASE Setup \/ Crash
  <2>1. ~Running => window = NoWindow
    BY DEF InstallInv, SetupOK
  <2>2. ASSUME ~window'.chosen, window'.step = "idle", ~window'.back PROVE WindowOK'
    BY <2>2
  <2>3. ASSUME window' = NoWindow PROVE WindowOK'
    BY <2>2, <2>3 DEF NoWindow, InWindow
  <2>4. ASSUME NEW ok \in BOOLEAN, Recover(ok) PROVE WindowOK'
    BY <2>1, <2>3, <2>4 DEF Recover, Running
  <2>5. ASSUME NEW ok \in BOOLEAN, NEW bundled \in BOOLEAN, Bootstrap(bundled, ok) PROVE WindowOK'
    BY <2>1, <2>3, <2>5 DEF Bootstrap, Running
  <2>6. ASSUME NEW ok \in BOOLEAN, Select(ok) PROVE WindowOK'
    BY <2>2, <2>3, <2>6 DEF Select, InWindow
  <2>7. CASE Crash
    BY <2>3, <2>7 DEF Crash
  <2> QED
    BY <1>2, <2>4, <2>5, <2>6, <2>7 DEF Setup
<1>3. ASSUME NEW c \in Calls, Install(c) PROVE WindowOK'
  <2>1. ASSUME NEW ok \in BOOLEAN, TellSelection(c, ok) PROVE WindowOK'
    <3>1. UNCHANGED window /\ selection'.active = selection.active
          /\ (saved' = saved \/ saved'.active = selection.active)
      BY <2>1 DEF TellSelection, CallStep, RequestActivation, Store, InstallInv, InstallTypeOK, Selection
    <3> QED
      BY <1>1, <3>1
  <2>2. ASSUME NEW ok \in BOOLEAN, SelectCpu(c, ok) PROVE WindowOK'
    BY <1>a, <2>2 DEF SelectCpu, WindowRecord
  <2>3. CASE UNCHANGED <<window, selections>>
    BY <1>1, <2>3 DEF selections
  <2> QED
    BY <1>3, <2>1, <2>2, <2>3
    DEF Install, Fetch, Resume, Probe, Chunk, Streamed, Verify, Replace, Finish, Activate, CallStep
<1>4. CASE Commands
  BY <1>1, <1>4 DEF Commands, Begin, Damage, CallStep, selections
<1>5. CASE CancelInstall \/ Refresh
  BY <1>1, <1>5 DEF CancelInstall, Refresh, InWindow, selections
<1>6. ASSUME NEW b \in Backends, NEW model \in BOOLEAN, Switch(b, model) PROVE WindowOK'
  BY <1>a, <1>6 DEF Switch, WindowStep, WindowRecord, selections
<1>7. ASSUME NEW ok \in BOOLEAN, LoadApplied(ok) PROVE WindowOK'
  BY <1>1, <1>7 DEF LoadApplied, selections
<1>8. ASSUME NEW ok \in BOOLEAN, Load(ok) PROVE WindowOK'
  BY <1>a, <1>8 DEF Load, WindowStep, WindowRecord, selections
<1>9. ASSUME NEW ok \in BOOLEAN, Save(ok) PROVE WindowOK'
  BY <1>a, <1>9 DEF Save, WindowStep, WindowRecord, InWindow, SetActive, Store
<1>10. ASSUME NEW ok \in BOOLEAN, Reload(ok) PROVE WindowOK'
  BY <1>a, <1>10 DEF Reload, WindowStep, WindowRecord, selections
<1>11. ASSUME NEW ok \in BOOLEAN, Resave(ok) PROVE WindowOK'
  BY <1>a, <1>11 DEF Resave, WindowStep, WindowRecord, InWindow, SetActive, Store
<1>12. CASE UNCHANGED vars
  BY <1>1, <1>12 DEF vars, selections
<1> QED
  BY <1>2, <1>3, <1>4, <1>5, <1>6, <1>7, <1>8, <1>9, <1>10, <1>11, <1>12 DEF Next, Window

\* What was there once is there, or was taken away by a replacement.
LEMMA PacksStay ==
    ASSUME InstallInv, InstallTypeOK', [Next]_vars
    PROVE  devices' = devices /\ \A b \in Backends : pack[b] # "absent" => pack'[b] # "absent"
<1>a. pack \in [Backends -> Packs]
  BY DEF InstallInv, InstallTypeOK
<1> DEFINE Stay == devices' = devices /\ \A b \in Backends : pack[b] # "absent" => pack'[b] # "absent"
<1>1. CASE UNCHANGED <<pack, devices>>
  BY <1>1
<1>2. ASSUME NEW ok \in BOOLEAN, Recover(ok) PROVE Stay
  BY <1>2 DEF Recover, Recovered, Away
<1>3. ASSUME NEW ok \in BOOLEAN, NEW bundled \in BOOLEAN, Bootstrap(bundled, ok) PROVE Stay
  BY <1>a, <1>3 DEF Bootstrap
<1>4. ASSUME NEW ok \in BOOLEAN, Select(ok) PROVE Stay
  BY <1>1, <1>4 DEF Select, disk
<1>5. CASE Crash \/ Window
  BY <1>1, <1>5 DEF Crash, Window, CancelInstall, Refresh, Switch, LoadApplied, Load, Save,
     Reload, Resave, WindowStep, disk
<1>6. ASSUME NEW c \in Calls, Replace(c) PROVE Stay
  <2>1. CASE NotRenamed(c, calls[c].backend)
    BY <1>a, <1>6, <2>1 DEF Replace, CallStep, NotRenamed, Away
  <2> QED
    BY <1>a, <1>6, <2>1
    DEF Replace, CallStep, AlreadyInstalled, Defer, InPlace, NotExtracted, NotValid
<1>7. ASSUME NEW c \in Calls, Install(c) PROVE Stay
  BY <1>1, <1>6, <1>7
  DEF Install, Fetch, Resume, Probe, TellSelection, SelectCpu, Chunk, Streamed, Verify, Finish,
      Activate, CallStep, disk
<1>8. CASE Commands
  BY <1>a, <1>1, <1>8 DEF Commands, Begin, Damage, CallStep
<1>9. CASE UNCHANGED vars
  BY <1>1, <1>9 DEF vars, disk
<1> QED
  BY <1>2, <1>3, <1>4, <1>5, <1>7, <1>8, <1>9 DEF Next, Setup

LEMMA PendingKept ==
    ASSUME InstallInv, InstallTypeOK', [Next]_vars PROVE PendingWasProbed'
<1>a. /\ devices' = devices /\ \A b \in Backends : pack[b] # "absent" => pack'[b] # "absent"
      /\ PendingWasProbed /\ selection \in Selection /\ saved \in Selection
  BY PacksStay DEF InstallInv, InstallTypeOK
<1>1. ASSUME saved'.pending \in {saved.pending, None} PROVE PendingWasProbed'
  BY <1>a, <1>1 DEF PendingWasProbed, Selection
<1>2. ASSUME NEW c \in Calls, NEW ok \in BOOLEAN, TellSelection(c, ok) PROVE PendingWasProbed'
  <2>1. calls[c].backend \in devices /\ pack[calls[c].backend] # "absent" /\ calls[c].backend \in Backends
    BY <1>2 DEF TellSelection, CallStep, InstallInv, InstallTypeOK, CallOK
  <2>2. saved'.pending = calls[c].backend \/ saved' = saved
    BY <1>a, <1>2 DEF TellSelection, RequestActivation, Store, Selection
  <2> QED
    BY <1>a, <1>1, <2>1, <2>2 DEF PendingWasProbed
<1>3. ASSUME NEW b \in Backends, NEW ok \in BOOLEAN, SetActive(b, ok) PROVE PendingWasProbed'
  BY <1>1, <1>3 DEF SetActive, Store
<1>4. CASE UNCHANGED saved
  BY <1>1, <1>4
<1>5. ASSUME NEW ok \in BOOLEAN, Select(ok) PROVE PendingWasProbed'
  BY <1>1, <1>5 DEF Select, ConsumePending, Store, selections
<1>6. ASSUME NEW ok \in BOOLEAN, Save(ok) \/ Resave(ok) PROVE PendingWasProbed'
  <2>1. window.step # "idle" /\ (Save(ok) \/ window.back)
    BY <1>6 DEF Save, Resave, WindowStep, InstallInv, WindowOK
  <2> QED
    BY <1>3, <1>6, <2>1 DEF Save, Resave, WindowStep, InstallInv, WindowOK
<1>7. ASSUME NEW c \in Calls, Install(c) PROVE PendingWasProbed'
  <2>1. ASSUME NEW ok \in BOOLEAN, SelectCpu(c, ok) PROVE PendingWasProbed'
    BY <1>3, <1>4, <2>1, BackendsAssumption DEF SelectCpu, selections
  <2> QED
    BY <1>2, <1>4, <1>7, <2>1
    DEF Install, Fetch, Resume, Probe, Chunk, Streamed, Verify, Replace, Finish,
        Activate, CallStep, selections
<1>8. CASE Crash \/ Commands
  BY <1>4, <1>8 DEF Crash, Commands, Begin, Damage, selections
<1>9. CASE Setup
  BY <1>4, <1>5, <1>9 DEF Setup, Recover, Bootstrap, Open, selections
<1>10. CASE Window
  BY <1>4, <1>6, <1>10 DEF Window, CancelInstall, Refresh, Switch, LoadApplied, Load, Reload, selections
<1>11. CASE UNCHANGED vars
  BY <1>4, <1>11 DEF vars, selections
<1> QED
  BY <1>7, <1>8, <1>9, <1>10, <1>11 DEF Next

-----------------------------------------------------------------------------
(* The theorems *)

(* The inductive invariant of installing and selecting: what the place of   *)
(* every command says of the coordinator, of the archive, of the packs and  *)
(* of the host, and what the window would go back to.                       *)
THEOREM InstallInvariant == Spec => []InstallInv
<1>1. Init => InstallInv
  <2> SUFFICES ASSUME Init PROVE InstallInv
    OBVIOUS
  <2>1. InstallTypeOK
    <3>1. calls \in [Calls -> CallRecord]
      BY BackendsAssumption DEF Init, CallRecord, NoCall, Places, Outcomes
    <3>2. part \in [Backends -> PartRecord]
      BY InstallAssumption DEF Init, PartRecord, NoPart
    <3>3. selection \in Selection /\ saved \in Selection
      BY BackendsAssumption DEF Init, Selection, Default
    <3>4. window \in WindowRecord
      BY DEF Init, NoWindow, InWindow, WindowRecord
    <3> QED
      BY <3>1, <3>2, <3>3, <3>4, InstallAssumption
      DEF Init, InstallTypeOK, CallRecord, PartRecord, WindowRecord, Places, Outcomes, Packs
  <2>2. \A c \in Calls : Resting(c) /\ CallOK(c)
    BY InstallAssumption DEF Init, NoCall, Resting, CallOK, Arrived, Late, Inside
  <2>3. SetupOK /\ WindowOK
    BY <2>2 DEF Init, SetupOK, WindowOK, NoWindow, InWindow
  <2>4. PendingWasProbed
    BY DEF Init, PendingWasProbed, Default
  <2> QED
    BY <2>1, <2>2, <2>3, <2>4 DEF InstallInv
<1>2. InstallInv /\ [Next]_vars => InstallInv'
  <2> SUFFICES ASSUME InstallInv, [Next]_vars PROVE InstallInv'
    OBVIOUS
  <2>1. InstallTypeOK'
    BY TypesKept DEF InstallInv
  <2>3. SetupOK' /\ \A d \in Calls : CallOK(d)'
    <3>1. CASE Next
      BY <2>1, <3>1, SetupKept, WindowApart, CommandsKept, InstallKept DEF Next
    <3>2. CASE UNCHANGED vars
      BY <3>2 DEF vars, disk, installer, InstallInv, SetupOK, Running, Resting, CallOK, Inside,
         Arrived, Delivered, Postponed, Spoilt
    <3> QED
      BY <3>1, <3>2
  <2> QED
    BY <2>1, <2>3, WindowKept, PendingKept DEF InstallInv
<1> QED
  BY <1>1, <1>2, PTL DEF Spec

(* Every variable keeps its type, and the part of an archive never grows    *)
(* beyond the size the catalogue gives.                                     *)
THEOREM InstallTypeCorrect == Spec => []InstallTypeOK
BY InstallInvariant, PTL DEF InstallInv

(* However many commands are issued, one at a time is inside the            *)
(* coordinator, and from the check of its archive to its extraction nobody  *)
(* else touches the file.                                                   *)
THEOREM ArchiveAlwaysChecked == Spec => []ArchiveIsChecked
<1>1. InstallInv => ArchiveIsChecked
  BY DEF InstallInv, CallOK, ArchiveIsChecked
<1> QED
  BY <1>1, InstallInvariant, PTL

(* What a command reported is so: refused or cancelled, it changed no pack; *)
(* installed, its pack is there or waits for the next start, unless another *)
(* command spoilt it; and a CPU pack reported as installed is at work.      *)
THEOREM OutcomeAlwaysTrue == Spec => []OutcomeIsTrue
<1>1. InstallInv => OutcomeIsTrue
  <2> SUFFICES ASSUME InstallInv PROVE OutcomeIsTrue
    OBVIOUS
  <2>1. CpuInstallRecovers
    BY DEF InstallInv, CallOK, CpuInstallRecovers
  <2>2. ASSUME NEW c \in Calls
        PROVE  /\ calls[c].outcome \in {"busy", "cancelled"} => c \notin replaced
               /\ calls[c].outcome \in {"installed", "restart"} =>
                      \/ pack[calls[c].backend] = "new"
                      \/ calls[c].outcome = "restart" /\ journal[calls[c].backend] = "deferred"
                      \/ \E d \in replaced \ {c} : calls[d].backend = calls[c].backend
                                                   /\ calls[d].outcome # "installed"
    <3>1. CallOK(c) /\ \A d \in Calls : CallOK(d)
      BY DEF InstallInv
    <3>2. calls[c].outcome \in {"busy", "cancelled"} => c \notin replaced
      BY <3>1 DEF CallOK, Late
    <3>3. ASSUME calls[c].outcome \in {"installed", "restart"}, Delivered(c)
          PROVE  \/ pack[calls[c].backend] = "new"
                 \/ calls[c].outcome = "restart" /\ journal[calls[c].backend] = "deferred"
                 \/ \E d \in replaced \ {c} : calls[d].backend = calls[c].backend
                                              /\ calls[d].outcome # "installed"
      BY <3>1, <3>3 DEF Delivered, Postponed, Spoilt, CallOK, Late
    <3> QED
      BY <3>1, <3>2, <3>3 DEF CallOK, Arrived
  <2> QED
    BY <2>1, <2>2 DEF OutcomeIsTrue
<1> QED
  BY <1>1, InstallInvariant, PTL

(* The next start is asked to try a pack only if it was there, for a device *)
(* the machine has, when the final probe looked.                            *)
THEOREM PendingAlwaysProbed == Spec => []PendingWasProbed
BY InstallInvariant, PTL DEF InstallInv

(* The backend the window settled on, or went back to, is the one a restart *)
(* finds, whatever saves failed and whatever was installed meanwhile.       *)
THEOREM ChoiceAlwaysSaved == Spec => []ChoiceIsSaved
<1>1. InstallInv => ChoiceIsSaved
  BY DEF InstallInv, WindowOK, ChoiceIsSaved
<1> QED
  BY <1>1, InstallInvariant, PTL
================================================================================
