------------------------------ MODULE MCPack ------------------------------
(* The worlds a pack is replaced in.                                       *)
EXTENDS RuntimeTransaction

CONSTANTS t1, t2

World(d, ts, damaging, ms) ==
    [defer |-> d, installs |-> ts, damage |-> damaging, errors |-> ms]

\* Immediate replacements whose files may be damaged.
Damaging == World({FALSE}, {t1, t2}, TRUE, {})
\* Replacements of both kinds whose files stay as they are.
Deferring == World(BOOLEAN, {t1, t2}, FALSE, {})
\* A replacement whose file operations may fail.
Failing == World({FALSE}, {t1}, TRUE, {"install"})
\* Replacements of both kinds whose files may be damaged.
DeferringAndDamaging == World(BOOLEAN, {t1}, TRUE, {})

\* One such replacement whose files stay as they are.
DeferringOnce == World(BOOLEAN, {t1}, FALSE, {})

Survivable == {Damaging, Deferring, Failing}
Harmful == {DeferringAndDamaging}
Undisturbed == {DeferringOnce}
===========================================================================
