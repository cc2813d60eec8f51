---------------------------- MODULE AtomicConfig ----------------------------
(***************************************************************************)
(* What modules/config.c promises: one persistent configuration that is    *)
(* replaced as a whole.  Power may fail at any time; then the device comes *)
(* back with the configuration it had, or with the one it was saving.      *)
(***************************************************************************)
CONSTANTS Config,    \* the configurations
          Default,   \* the built-in one
          None       \* no configuration

VARIABLES disk,      \* the persistent configuration
          ram        \* the one in use, None while the power is off

vars == <<disk, ram>>

Init == disk = None /\ ram = None

\* Start from the stored configuration, or from the built-in one.
Boot == /\ ram = None
        /\ ram' = IF disk = None THEN Default ELSE disk
        /\ UNCHANGED disk

\* A change is accepted only when the last one has been stored.
Change(cfg) == ram # None /\ ram = disk /\ ram' = cfg /\ UNCHANGED disk

Commit == ram # None /\ disk' = ram /\ UNCHANGED ram

PowerLoss == ram # None /\ ram' = None /\ disk' \in {disk, ram}

Next == Boot \/ (\E cfg \in Config : Change(cfg)) \/ Commit \/ PowerLoss

Spec == Init /\ [][Next]_vars
=============================================================================
