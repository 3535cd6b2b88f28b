--------------------------- MODULE RuntimeSelection ---------------------------
(***************************************************************************)
(* RuntimeSelectionStore: which backend the application uses, and which    *)
(* one it is to try at its next start.  Every change is made in memory and *)
(* then saved, a save replaces the file as a whole, and a save that fails  *)
(* leaves the change in memory.                                            *)
(***************************************************************************)
CONSTANTS Backends, Cpu, None

ASSUME BackendsAssumption == Cpu \in Backends /\ None \notin Backends

VARIABLES
    selection,   \* RuntimeSelectionStore.state
    saved        \* runtime-selection.json

selections == <<selection, saved>>

Selection == [active : Backends, pending : Backends \union {None}, failed : BOOLEAN]
Default == [active |-> Cpu, pending |-> None, failed |-> FALSE]

Store(new, ok) == selection' = new /\ saved' = IF ok THEN new ELSE saved

RequestActivation(b, ok) ==
    Store([selection EXCEPT !.pending = b, !.failed = FALSE], ok)

SetActive(b, ok) == Store([active |-> b, pending |-> None, failed |-> FALSE], ok)

\* open: the file as the last save left it.
Open == selection' = saved /\ UNCHANGED saved

\* consume_pending, with what the probe of the pending backend says.
ConsumePending(ready, ok) ==
    IF selection.pending = None
    THEN UNCHANGED selections
    ELSE Store([active |-> IF ready THEN selection.pending ELSE Cpu, pending |-> None,
                failed |-> ~ready], ok)
================================================================================
