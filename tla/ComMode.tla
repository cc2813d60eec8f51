------------------------------ MODULE ComMode ------------------------------
(***************************************************************************)
(* What ESP-TOUCH and the web server share: the stored settings, the       *)
(* station configuration that the SDK holds, and the communication mode,   *)
(* which user_set_com_mode (user/user_main.c) puts into force.  In mesh    *)
(* mode that is a timer (mesh/mesh_demo.c) which waits for ESP-TOUCH to be *)
(* over, names the router to the mesh library and enables it.              *)
(*                                                                         *)
(* A Wi-Fi setting is its name alone.  A name is copied into a zeroed      *)
(* structure over the name that is there, so that a short name leaves the  *)
(* end of a long one behind: the result is Garbled.  It is saved by        *)
(* printing it with itself as the format, and set from the saved text: a   *)
(* name with a '%', or one that fills its field and runs on into the       *)
(* password, may become another, Misprint.                                 *)
(***************************************************************************)
EXTENDS Integers

CONSTANTS Ssids,       \* names of Wi-Fi networks
          Long,        \* those longer than the others
          Formats,     \* those with a '%', and those of all 32 characters
          MaxPollers   \* bound: times the mode is put into force

Garbled == "garbled"
Misprint == "misprint"
NoName == "no name"
Names == Ssids \cup {Garbled, Misprint}

ASSUME ComModeAssumption ==
  /\ Long \subseteq Ssids /\ Formats \subseteq Ssids
  /\ {Garbled, Misprint, NoName, "NULL"} \cap Ssids = {}
  /\ MaxPollers \in Nat /\ MaxPollers >= 2

VARIABLES
  comMode, sta_ssid, isMeshEnable,  \* sysCfg, the part stored in flash that matters here
  station,            \* the station configuration of the SDK, kept in flash as well
  link,               \* the station: "down", "joining" the network it is set to, "up"
  opmode,             \* "STA" or "STAAP"
  esptouch_running,
  pollers,            \* timers of user_uart.c that poll, one per user_uart_init
  wait_timer,         \* the pointer: NULL, to a timer, or to a timer already freed
  waits,              \* timers allocated by knk_mesh_init that wait still
  router,             \* the router the mesh library knows
  mesh,               \* "off", "enabling", "up", "disabled"
  meshRefused,        \* the mesh library refused a setting: the attempt was given up
  freedTwice

stored   == <<comMode, sta_ssid, isMeshEnable>>
radio    == <<station, link, opmode>>
meshVars == <<wait_timer, waits, router, mesh, meshRefused, freedTwice>>
modeVars == <<stored, radio, esptouch_running, pollers, meshVars>>

ModeTypeOK ==
  /\ comMode \in {"SOFTAP", "STA", "MESH"}
  /\ sta_ssid \in Names /\ station \in Names /\ router \in Names \cup {NoName}
  /\ {isMeshEnable, esptouch_running, meshRefused, freedTwice} \subseteq BOOLEAN
  /\ link \in {"down", "joining", "up"} /\ opmode \in {"STA", "STAAP"}
  /\ pollers \in 0 .. MaxPollers
  /\ wait_timer \in {"NULL", "waiting", "freed"} /\ waits \in 0 .. MaxPollers
  /\ mesh \in {"off", "enabling", "up", "disabled"}

Overlay(old, new) ==
  IF old \in Long \cup {Garbled} /\ new \notin Long THEN Garbled ELSE new

\* The names that CFG_saveStaCfg may make of one: what a conversion without an
\* argument prints is undefined.
Printed(ssid) == IF ssid \in Ssids \ Formats THEN {ssid} ELSE {ssid, Misprint}

CFG_saveStaCfg(ssid) == sta_ssid' \in Printed(ssid)

\* user_init: any settings in flash; esptouch_init finds no wait_timer to free.
ModeInit ==
  /\ comMode \in {"SOFTAP", "STA", "MESH"} /\ isMeshEnable \in BOOLEAN
  /\ sta_ssid \in Ssids /\ station \in Ssids
  /\ link = "down" /\ opmode = "STA" /\ esptouch_running = TRUE /\ pollers = 0
  /\ wait_timer = "NULL" /\ waits = 0 /\ router = NoName /\ mesh = "off"
  /\ meshRefused = FALSE /\ freedTwice = FALSE

\* The settings in flash survive a start, RAM does not.
ModeRestart ==
  /\ link' = "down" /\ opmode' = "STA" /\ esptouch_running' = TRUE /\ pollers' = 0
  /\ wait_timer' = "NULL" /\ waits' = 0 /\ router' = NoName /\ mesh' = "off"
  /\ meshRefused' = FALSE /\ freedTwice' = FALSE
  /\ UNCHANGED <<stored, station>>

-----------------------------------------------------------------------------
knk_mesh_init(times) ==
  /\ wait_timer' = "waiting"
  /\ waits' = waits + times
  /\ UNCHANGED freedTwice

\* The pointer keeps its value when its timer is freed.
knk_mesh_deinit(times) ==
  /\ waits' = IF wait_timer = "waiting" THEN waits - 1 ELSE waits
  /\ wait_timer' = IF wait_timer = "NULL" THEN "NULL" ELSE "freed"
  /\ freedTwice' = \/ freedTwice
                   \/ wait_timer = "freed"
                   \/ wait_timer = "waiting" /\ times > 1

WIFI_Connect(ssid) == station' = ssid /\ link' = "joining" /\ opmode' = "STA"

user_set_softap_config == opmode' = "STAAP"

\* Variant: mesh mode frees its timer as well before it waits anew.
user_set_com_modeAnew(times, ssid, before) ==
  /\ pollers' = pollers + times
  /\ \/ /\ comMode = "MESH"
        /\ wait_timer' = "waiting"
        /\ waits' = IF wait_timer = "waiting" THEN waits ELSE waits + 1
        /\ freedTwice' = (freedTwice \/ wait_timer = "freed")
        /\ link' = before /\ UNCHANGED <<station, opmode>>
     \/ /\ comMode = "SOFTAP"
        /\ knk_mesh_deinit(times) /\ user_set_softap_config
        /\ link' = before /\ UNCHANGED station
     \/ /\ comMode = "STA"
        /\ knk_mesh_deinit(times) /\ WIFI_Connect(ssid)

\* One or two calls in a row, after which sysCfg.sta_ssid is "ssid"; the station's
\* link was left at "before" by the caller.  user_uart_init arms one more timer.
user_set_com_mode(times, ssid, before) ==
  /\ pollers' = pollers + times
  /\ \/ /\ comMode = "MESH"
        /\ knk_mesh_init(times)
        /\ link' = before
        /\ UNCHANGED <<station, opmode>>
     \/ /\ comMode = "SOFTAP"
        /\ knk_mesh_deinit(times)
        /\ user_set_softap_config
        /\ link' = before
        /\ UNCHANGED station
     \/ /\ comMode = "STA"
        /\ knk_mesh_deinit(times)
        /\ WIFI_Connect(ssid)

-----------------------------------------------------------------------------
\* A waiting timer's turn: the one wait_timer points to, or one allocated before.
\* While ESP-TOUCH runs it does nothing, and comes again after 5 s.
FreeTimer ==
  /\ waits > 0
  /\ waits' = waits - 1
  /\ \/ wait_timer = "waiting" /\ wait_timer' = "freed"
     \/ (wait_timer = "waiting" => waits > 1) /\ UNCHANGED wait_timer

\* Variant: a router that is known already is kept.
router_initOnce == router' = IF router = NoName THEN sta_ssid ELSE router

router_init == router' = sta_ssid

\* The settings go to the mesh library, which may refuse any of them.
esp_mesh_demo_init(accepted) ==
  IF accepted THEN mesh' = "enabling" /\ link' = "joining" /\ UNCHANGED meshRefused
  ELSE meshRefused' = TRUE /\ UNCHANGED <<mesh, link>>

\* Variant: it does not ask whether ESP-TOUCH runs.
wait_esptouch_overAtOnce ==
  /\ comMode = "MESH"
  /\ FreeTimer
  /\ router_init /\ esp_mesh_demo_init(TRUE)
  /\ UNCHANGED <<stored, station, opmode, esptouch_running, pollers, freedTwice>>

wait_esptouch_over ==
  /\ ~esptouch_running
  /\ comMode = "MESH"
  /\ FreeTimer
  /\ \/ router_init /\ \E accepted \in BOOLEAN : esp_mesh_demo_init(accepted)
     \/ esp_mesh_demo_init(FALSE) /\ UNCHANGED router
  /\ UNCHANGED <<stored, station, opmode, esptouch_running, pollers, freedTwice>>

\* A failure or a refused connection enables the mesh once more.
mesh_enable_cb ==
  /\ mesh = "enabling"
  /\ \/ mesh' = "up" /\ link' = "up"
     \/ mesh' = "disabled" /\ link' = "down"
  /\ UNCHANGED <<stored, station, opmode, esptouch_running, pollers, wait_timer, waits,
                 router, meshRefused, freedTwice>>

\* The access point answers, or goes away.
StationLink ==
  /\ link # "down"
  /\ link' \in {"joining", "up"} \ {link}
  /\ UNCHANGED <<stored, station, opmode, esptouch_running, pollers, meshVars>>

HasAddress == link = "up" \/ opmode = "STAAP"
=============================================================================
