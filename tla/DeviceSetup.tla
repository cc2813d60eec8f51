---------------------------- MODULE DeviceSetup ----------------------------
(***************************************************************************)
(* From the start of the device to its communication mode: user_init of    *)
(* user/user_main.c starts ESP-TOUCH and the web server, and both save     *)
(* Wi-Fi settings and put the mode into force, each from its own timers    *)
(* and callbacks.  Callbacks of the SDK do not interrupt one another.      *)
(***************************************************************************)
EXTENDS EspTouch, WebServer

CONSTANT MaxBoots      \* bound: starts after the first one

ASSUME DeviceSetupAssumption == MaxBoots \in Nat

VARIABLE boots

vars == <<modeVars, touchVars, webVars, boots>>

TypeOK == ModeTypeOK /\ TouchTypeOK /\ WebTypeOK /\ boots \in 0 .. MaxBoots

Init == ModeInit /\ TouchInit /\ WebInit /\ boots = 0

\* The power is cut, or restart_10ms_cb reads through a NULL pointer, an exception
\* on which the ESP8266 starts anew.
Restart ==
  /\ boots < MaxBoots
  /\ boots' = boots + 1
  /\ ModeRestart /\ TouchRestart /\ WebRestart

Touch == TouchNext /\ UNCHANGED <<webVars, boots>>
Network == (wait_esptouch_over \/ mesh_enable_cb \/ StationLink) /\ UNCHANGED <<touchVars, webVars, boots>>
Web == WebNext /\ UNCHANGED <<touchVars, boots>>

Next == Touch \/ Network \/ Web \/ Restart

Fairness == WF_vars(Timeout /\ UNCHANGED <<webVars, boots>>)

Spec == Init /\ [][Next]_vars
FairSpec == Spec /\ Fairness

-----------------------------------------------------------------------------
\* The mesh is never enabled while ESP-TOUCH runs, whatever the web server is asked
\* meanwhile: the comment at mesh_demo.c:523-526, kept by wait_esptouch_over.
MeshWaits == esptouch_running => mesh = "off"

\* Once ESP-TOUCH is over, a station is set to the network that is saved: of an
\* attempt that failed after SC_STATUS_LINK nothing stays in the SDK, and no
\* order of phone, web request and timer leaves the two apart.
StationIsSaved == ~esptouch_running /\ comMode = "STA" => station = sta_ssid

\* In mesh mode the library knows the saved network as its router as soon as no
\* timer waits, unless it refused a setting (router_init, mesh_demo.c:421-461).
RouterIsSaved ==
  ~esptouch_running /\ comMode = "MESH" /\ waits = 0 /\ ~meshRefused => router = sta_ssid

\* knk_mesh_deinit keeps the pointer it has freed; no sequence of starts, ESP-TOUCH
\* and requests makes it free a timer twice.
NoDoubleFree == ~freedTwice

\* A whole request gets exactly one answer, unless the head of a torn one came
\* before it: what check_data and save_data leave in their shared lengths.
OneAnswer == ~misanswered

\* A Wi-Fi setting put off for 10 ms, which no later request for Wi-Fi or reboot
\* disturbs, is the one that is saved: its own name, but for what CFG_saveStaCfg makes
\* of a '%' or of a full field; and in station mode the network saved is joined
\* (user_webserver.c:917-950, config.c:140-147, user_main.c:209-213).
SettingApplied ==
  [][posted # NoName /\ restart_10ms = "armed" /\ restart_10ms' = "NULL" /\ boots' = boots
       => sta_ssid' \in Printed(posted) /\ (comMode = "STA" => station' = sta_ssid')]_vars

\* Such a setting waits in the four pointers, with the timer armed.
SettingWaits ==
  posted # NoName => restart_10ms = "armed" /\ rstparm = "WIFI" /\ sta_conf = posted

\* ESP-TOUCH ends, with a network or by its timer (esp_touch.c:143-147, 92-94, 103-104).
TouchEnds == []<>~esptouch_running
=============================================================================
