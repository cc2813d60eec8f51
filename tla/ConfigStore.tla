---------------------------- MODULE ConfigStore ----------------------------
(***************************************************************************)
(* modules/config.c: the configuration in flash.  Two sectors hold copies, *)
(* a third holds a flag that says which copy counts.  CFG_Save writes the  *)
(* other copy and then turns the flag over.  Each flash call is a step of  *)
(* its own, because the power may fail during it.                          *)
(*                                                                         *)
(* A copy is a whole configuration, or NoHolder (anything without the      *)
(* CFG_HOLDER word in front: blank, or from another firmware), or Mixed (a *)
(* torn copy whose first word, CFG_HOLDER, is there already: CFG_Load      *)
(* would take it for a configuration).                                     *)
(***************************************************************************)
EXTENDS Integers

CONSTANTS Config, Default, None,
          NoHolder, Mixed,
          FlagByte           \* the values the flag byte may read as

ASSUME ConfigAssumption ==
  /\ Default \in Config
  /\ None \notin Config /\ NoHolder \notin Config /\ Mixed \notin Config
  /\ NoHolder # Mixed /\ NoHolder # None /\ Mixed # None
  /\ FlagByte \subseteq 0 .. 255 /\ {0, 1, 255} \subseteq FlagByte

VARIABLES sec,        \* the copies in sectors CFG_LOCATION + 0 and + 1
          flag,       \* the flag byte in sector CFG_LOCATION + 3
          sysCfg,     \* the configuration in RAM
          saveFlag,   \* the flag as CFG_Save read it and will write it
          pc          \* the next flash call, "idle" between handlers, "off"

vars == <<sec, flag, sysCfg, saveFlag, pc>>

Copy == Config \cup {NoHolder, Mixed}

\* The copy CFG_Load would read.
Selected == IF flag = 0 THEN sec[0] ELSE sec[1]

\* Variant: the copy that counts is the one overwritten.
SameTarget(f) == IF f = 0 THEN 0 ELSE 1

\* The copy a save writes, given the flag it read.
Target(f) == IF f = 0 THEN 1 ELSE 0

\* The flash may hold anything without our holder when the device first starts.
Init == /\ sec = [s \in {0, 1} |-> NoHolder]
        /\ flag \in FlagByte
        /\ sysCfg = NoHolder
        /\ saveFlag = 0
        /\ pc = "off"

\* The first step of CFG_Save: read the flag.
BeginSave == saveFlag' = flag /\ pc' = "eraseCfg"

\* CFG_Load, once at boot: a copy without the holder is replaced by the built-in
\* configuration, which is saved.
CFG_Load == /\ pc = "off"
            /\ IF Selected = NoHolder
               THEN sysCfg' = Default /\ BeginSave
               ELSE sysCfg' = Selected /\ pc' = "idle" /\ saveFlag' = flag
            /\ UNCHANGED <<sec, flag>>

\* A handler changes sysCfg and calls CFG_Save: the three setters of the web
\* server, the Wi-Fi and softAP passwords it delays, and esp-touch.
Change(cfg) == /\ pc = "idle"
               /\ sysCfg' = cfg
               /\ BeginSave
               /\ UNCHANGED <<sec, flag>>

EraseCfg == /\ pc = "eraseCfg"
            /\ sec' = [sec EXCEPT ![Target(saveFlag)] = NoHolder]
            /\ pc' = "writeCfg"
            /\ UNCHANGED <<flag, sysCfg, saveFlag>>

\* Variant: the flag is turned over before the copy is written.
WriteCfgLate == /\ pc = "writeCfg"
                /\ saveFlag' = IF saveFlag = 0 THEN 1 ELSE 0
                /\ pc' = "eraseFlag"
                /\ UNCHANGED <<sec, flag, sysCfg>>

\* Writing the copy; then the flag to write is computed.
WriteCfg == /\ pc = "writeCfg"
            /\ sec' = [sec EXCEPT ![Target(saveFlag)] = sysCfg]
            /\ saveFlag' = IF saveFlag = 0 THEN 1 ELSE 0
            /\ pc' = "eraseFlag"
            /\ UNCHANGED <<flag, sysCfg>>

EraseFlag == /\ pc = "eraseFlag"
             /\ flag' = 255
             /\ pc' = "writeFlag"
             /\ UNCHANGED <<sec, sysCfg, saveFlag>>

WriteFlag == /\ pc = "writeFlag"
             /\ flag' = saveFlag
             /\ pc' = "idle"
             /\ UNCHANGED <<sec, sysCfg, saveFlag>>

\* Programming only clears bits of the erased byte: an interrupted write of 1
\* leaves an odd value, one of 0 may leave any.
PartlyWritten(f) == {b \in FlagByte : f = 1 => b % 2 = 1}

\* Power fails, possibly during the flash call that pc names.  sysCfg and
\* saveFlag lie in RAM; the next start zeroes them.
PowerLoss ==
  /\ pc # "off"
  /\ pc' = "off" /\ sysCfg' = NoHolder /\ saveFlag' = 0
  /\ \/ pc \in {"eraseCfg", "writeCfg"} /\ UNCHANGED flag
        /\ \E torn \in {NoHolder, Mixed} : sec' = [sec EXCEPT ![Target(saveFlag)] = torn]
     \/ pc = "eraseFlag" /\ flag' \in FlagByte /\ UNCHANGED sec
     \/ pc = "writeFlag" /\ flag' \in PartlyWritten(saveFlag) /\ UNCHANGED sec
     \/ UNCHANGED <<sec, flag>>

Next == \/ CFG_Load
        \/ \E cfg \in Config : Change(cfg)
        \/ EraseCfg \/ WriteCfg \/ EraseFlag \/ WriteFlag
        \/ PowerLoss

Spec == Init /\ [][Next]_vars

-----------------------------------------------------------------------------

TypeOK == /\ sec \in [{0, 1} -> Copy]
          /\ flag \in FlagByte
          /\ sysCfg \in Copy
          /\ saveFlag \in FlagByte
          /\ pc \in {"off", "idle", "eraseCfg", "writeCfg", "eraseFlag", "writeFlag"}

\* The copy that counts is never a torn one whose holder word is already there:
\* wherever power fails, CFG_Load accepts only whole configurations
\* (config.c:48-64 and 73-80).
SelectedIntact == Selected # Mixed

\* The stored configuration is replaced as a whole: after a power failure the
\* device starts with the last stored configuration or with the one being
\* stored, and a handler never finds an earlier change unsaved (config.c:43-138).
Store == INSTANCE AtomicConfig
           WITH disk <- IF Selected = NoHolder THEN None ELSE Selected,
                ram  <- IF pc = "off" THEN None ELSE sysCfg
AtomicStore == Store!Spec
=============================================================================
