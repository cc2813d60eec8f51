------------------------------ MODULE EspTouch ------------------------------
(***************************************************************************)
(* modules/esp_touch.c: at every start a phone may tell the device its     *)
(* network.  smartconfig, a closed library, reports its progress to        *)
(* esptouch_proc_cb; one timer ends an attempt that gets stuck.  Either    *)
(* way user_set_com_mode puts the communication mode into force.           *)
(***************************************************************************)
EXTENDS ComMode

VARIABLES
  smartconfig,        \* what the library last reported: "stopped", "started",
                      \* "getting" (a name and a password), "link"
  esptouch_tout_t     \* the timer is armed

touchVars == <<smartconfig, esptouch_tout_t>>

TouchTypeOK ==
  /\ smartconfig \in {"stopped", "started", "getting", "link"}
  /\ esptouch_tout_t \in BOOLEAN

TouchInit == smartconfig = "started" /\ esptouch_tout_t = TRUE
TouchRestart == smartconfig' = "started" /\ esptouch_tout_t' = TRUE

-----------------------------------------------------------------------------
\* esptouch_proc_cb, by the status reported.  SC_STATUS_WAIT and
\* SC_STATUS_FIND_CHANNEL only print.

SC_STATUS_GETTING_SSID_PSWD ==
  /\ smartconfig = "started"
  /\ smartconfig' = "getting"
  /\ esptouch_tout_t' = TRUE
  /\ UNCHANGED modeVars

\* Variant: the timer is disarmed and not armed again.
SC_STATUS_LINKUntimed(ssid) ==
  /\ smartconfig = "getting"
  /\ smartconfig' = "link"
  /\ station' = ssid /\ link' = "joining"
  /\ esptouch_tout_t' = FALSE
  /\ UNCHANGED <<stored, opmode, esptouch_running, pollers, meshVars>>

SC_STATUS_LINK(ssid) ==
  /\ smartconfig = "getting"
  /\ smartconfig' = "link"
  /\ station' = ssid /\ link' = "joining"
  /\ esptouch_tout_t' = TRUE
  /\ UNCHANGED <<stored, opmode, esptouch_running, pollers, meshVars>>

\* The network the SDK is set to is saved: another request may have set it anew
\* since SC_STATUS_LINK.
esptouch_success_cb ==
  /\ router' = station
  /\ CFG_saveStaCfg(station)
  /\ esptouch_running' = FALSE
  /\ user_set_com_mode(1, sta_ssid', link)
  /\ UNCHANGED <<comMode, isMeshEnable, mesh, meshRefused>>

SC_STATUS_LINK_OVER ==
  /\ smartconfig = "link" /\ link = "up"
  /\ smartconfig' = "stopped"
  /\ esptouch_tout_t' = FALSE
  /\ esptouch_success_cb

\* Variant: a failed attempt leaves the station as it is.
esptouch_fail_cbQuiet ==
  /\ smartconfig' = "stopped"
  /\ esptouch_tout_t' = FALSE
  /\ esptouch_running' = FALSE
  /\ link' = "down"
  /\ UNCHANGED <<stored, station, opmode, pollers, meshVars>>

esptouch_fail_cb ==
  /\ smartconfig' = "stopped"
  /\ esptouch_tout_t' = FALSE
  /\ esptouch_running' = FALSE
  /\ user_set_com_mode(1, sta_ssid, "down")
  /\ UNCHANGED <<stored, router, mesh, meshRefused>>

Timeout == esptouch_tout_t /\ esptouch_fail_cb

TouchNext == \/ SC_STATUS_GETTING_SSID_PSWD
             \/ \E ssid \in Ssids : SC_STATUS_LINK(ssid)
             \/ SC_STATUS_LINK_OVER
             \/ Timeout
=============================================================================
