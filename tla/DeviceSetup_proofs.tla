------------------------- MODULE DeviceSetup_proofs -------------------------
(***************************************************************************)
(* DeviceSetup for every set of networks and every bound.  The invariant   *)
(* falls in two: what the mode and ESP-TOUCH keep (ModeInv), and what the  *)
(* web server keeps in its own pointers (WebInv).  The second part is      *)
(* about MeshDevices, the list of the nodes of the mesh that mesh mode     *)
(* joins, for every size of its growth and every set of topology packets.  *)
(***************************************************************************)
EXTENDS DeviceSetup, MeshDevices, SeqLemmas, TLAPS

\* Each waiting timer was allocated by a call that also armed a poll timer, and
\* only mesh mode has any.
TimersKept ==
  /\ waits <= pollers
  /\ wait_timer = "waiting" => waits > 0
  /\ comMode # "MESH" => wait_timer = "NULL" /\ waits = 0

\* While ESP-TOUCH runs its timer is armed, and one call of user_set_com_mode is
\* left of the bound.
TouchKept ==
  /\ smartconfig # "stopped" => esptouch_running
  /\ esptouch_tout_t => esptouch_running
  /\ esptouch_running => pollers < MaxPollers

ModeInv ==
  /\ ModeTypeOK /\ TouchTypeOK
  /\ TimersKept /\ TouchKept
  /\ MeshWaits /\ StationIsSaved /\ RouterIsSaved /\ NoDoubleFree

\* What the callback finds, if no GET has freed it, names a network or an access point.
SettingNamed == rstparm = "WIFI" /\ sta_conf # "NULL" => sta_conf # NoName \/ ap_conf = "named"

WebInv == WebTypeOK /\ totallength = 0 /\ SettingNamed /\ SettingWaits

IInv == ModeInv /\ WebInv /\ boots \in 0 .. MaxBoots

-----------------------------------------------------------------------------
\* What calls of user_set_com_mode leave, in each mode.
ModeSet(times, ssid) ==
  /\ pollers' = pollers + times /\ pollers' \in 0 .. MaxPollers
  /\ station' \in Names /\ link' \in {"down", "joining", "up"} /\ opmode' \in {"STA", "STAAP"}
  /\ wait_timer' \in {"NULL", "waiting", "freed"} /\ waits' \in 0 .. MaxPollers
  /\ waits' <= pollers'
  /\ wait_timer' = "waiting" => waits' > 0
  /\ comMode = "MESH" => waits' > 0
  /\ comMode # "MESH" => wait_timer' = "NULL" /\ waits' = 0
  /\ comMode = "STA" => station' = ssid
  /\ freedTwice' = FALSE

LEMMA ComModeSet ==
  ASSUME ModeTypeOK, TimersKept, NoDoubleFree,
         NEW times \in {1, 2}, NEW ssid \in Names, NEW before \in {"down", "joining", "up"},
         pollers + times <= MaxPollers,
         user_set_com_mode(times, ssid, before)
  PROVE  ModeSet(times, ssid)
<1> USE ComModeAssumption DEF ModeTypeOK, TimersKept, NoDoubleFree, ModeSet
<1>1. CASE comMode = "MESH" /\ knk_mesh_init(times) /\ link' = before /\ UNCHANGED <<station, opmode>>
  BY <1>1 DEF knk_mesh_init, user_set_com_mode
<1>2. CASE comMode = "SOFTAP" /\ knk_mesh_deinit(times) /\ user_set_softap_config /\ link' = before
           /\ UNCHANGED station
  BY <1>2 DEF knk_mesh_deinit, user_set_softap_config, user_set_com_mode
<1>3. CASE comMode = "STA" /\ knk_mesh_deinit(times) /\ WIFI_Connect(ssid)
  BY <1>3 DEF knk_mesh_deinit, WIFI_Connect, user_set_com_mode
<1> QED BY <1>1, <1>2, <1>3 DEF user_set_com_mode

LEMMA PrintedName == ASSUME NEW ssid \in Names, NEW new \in Printed(ssid) PROVE new \in Names
BY DEF Printed, Names

-----------------------------------------------------------------------------
\* ModeInv through the steps of ESP-TOUCH.
LEMMA TouchMode == ASSUME ModeInv, TouchNext PROVE ModeInv'
<1> USE ComModeAssumption DEF ModeInv, TouchTypeOK, TouchKept
<1>1. CASE SC_STATUS_GETTING_SSID_PSWD
  BY <1>1 DEF SC_STATUS_GETTING_SSID_PSWD, modeVars, stored, radio, meshVars, ModeTypeOK, TimersKept,
     MeshWaits, StationIsSaved, RouterIsSaved, NoDoubleFree
<1>2. ASSUME NEW ssid \in Ssids, SC_STATUS_LINK(ssid) PROVE ModeInv'
  BY <1>2 DEF SC_STATUS_LINK, stored, meshVars, ModeTypeOK, Names, TimersKept,
     MeshWaits, StationIsSaved, RouterIsSaved, NoDoubleFree
<1>3. CASE SC_STATUS_LINK_OVER
  <2> USE <1>3 DEF SC_STATUS_LINK_OVER, esptouch_success_cb
  <2>1. station \in Names /\ link \in {"down", "joining", "up"} /\ esptouch_running
        /\ pollers \in Nat /\ pollers + 1 <= MaxPollers
    BY DEF ModeTypeOK
  <2>2. sta_ssid' \in Names /\ ModeSet(1, sta_ssid')
    <3>1. sta_ssid' \in Names
      BY <2>1, PrintedName DEF CFG_saveStaCfg
    <3> QED BY <2>1, <3>1, ComModeSet
  <2>3. ModeTypeOK' /\ TouchTypeOK'
    BY <2>1, <2>2 DEF ModeSet, ModeTypeOK, NoDoubleFree
  <2>4. TimersKept' /\ TouchKept'
    BY <2>2 DEF ModeSet, TimersKept
  <2>5. MeshWaits' /\ StationIsSaved' /\ RouterIsSaved' /\ NoDoubleFree'
    BY <2>2 DEF ModeSet, MeshWaits, StationIsSaved, RouterIsSaved, NoDoubleFree, ModeTypeOK
  <2> QED BY <2>3, <2>4, <2>5
<1>4. CASE Timeout
  <2> USE <1>4 DEF Timeout, esptouch_fail_cb, stored
  <2>1. sta_ssid \in Names /\ esptouch_running /\ pollers \in Nat /\ pollers + 1 <= MaxPollers
    BY DEF ModeTypeOK
  <2>2. ModeSet(1, sta_ssid)
    BY <2>1, ComModeSet
  <2>3. ModeTypeOK' /\ TouchTypeOK'
    BY <2>1, <2>2 DEF ModeSet, ModeTypeOK, NoDoubleFree
  <2>4. TimersKept' /\ TouchKept'
    BY <2>2 DEF ModeSet, TimersKept
  <2>5. MeshWaits' /\ StationIsSaved' /\ RouterIsSaved' /\ NoDoubleFree'
    BY <2>2 DEF ModeSet, MeshWaits, StationIsSaved, RouterIsSaved, NoDoubleFree, ModeTypeOK
  <2> QED BY <2>3, <2>4, <2>5
<1> QED BY <1>1, <1>2, <1>3, <1>4 DEF TouchNext

\* ModeInv through the mesh library and the access point.
LEMMA NetworkMode ==
  ASSUME ModeInv, wait_esptouch_over \/ mesh_enable_cb \/ StationLink, UNCHANGED touchVars
  PROVE  ModeInv'
<1> USE ComModeAssumption DEF ModeInv, TouchTypeOK, TouchKept, touchVars
<1>1. CASE wait_esptouch_over
  <2> USE <1>1 DEF wait_esptouch_over, stored
  <2>1. /\ waits > 0 /\ waits' = waits - 1 /\ wait_timer' \in {"NULL", "waiting", "freed"}
        /\ (wait_timer' = "waiting" => waits > 1)
    BY DEF FreeTimer, ModeTypeOK
  <2>2. /\ mesh' \in {"off", "enabling", "up", "disabled"} /\ link' \in {"down", "joining", "up"}
        /\ meshRefused' \in BOOLEAN /\ router' \in Names \cup {NoName}
        /\ (meshRefused' \/ router' = sta_ssid)
    BY DEF ModeTypeOK, router_init, esp_mesh_demo_init
  <2>3. ModeTypeOK' /\ TouchTypeOK'
    BY <2>1, <2>2 DEF ModeTypeOK
  <2>4. TimersKept' /\ TouchKept'
    BY <2>1 DEF TimersKept, ModeTypeOK
  <2>5. MeshWaits' /\ StationIsSaved' /\ RouterIsSaved' /\ NoDoubleFree'
    BY <2>2 DEF MeshWaits, StationIsSaved, RouterIsSaved, NoDoubleFree, ModeTypeOK
  <2> QED BY <2>3, <2>4, <2>5
<1>2. CASE mesh_enable_cb
  BY <1>2 DEF mesh_enable_cb, stored, ModeTypeOK, TimersKept, MeshWaits, StationIsSaved, RouterIsSaved,
     NoDoubleFree
<1>3. CASE StationLink
  BY <1>3 DEF StationLink, stored, meshVars, ModeTypeOK, TimersKept, MeshWaits, StationIsSaved,
     RouterIsSaved, NoDoubleFree
<1> QED BY <1>1, <1>2, <1>3

-----------------------------------------------------------------------------
\* What a segment may hold.
LEMMA SegmentsTyped ==
  ASSUME NEW seg \in Segments
  PROVE  /\ seg.type \in {"GET", "POST", "rest"} /\ seg.clen \in -1 .. 2 /\ seg.body \in 0 .. 2
         /\ seg.type = "rest" => seg.body = 1
         /\ seg.data.sta \in Ssids \cup {NoName} /\ seg.data.ap \in BOOLEAN
<1>1. ASSUME NEW file, NEW d \in DataOf(file)
      PROVE  d.sta \in Ssids \cup {NoName} /\ d.ap \in BOOLEAN
  <2>1. CASE file = "wifi"
    BY <2>1 DEF DataOf
  <2>2. CASE file # "wifi" /\ file = "mesh"
    BY <2>2 DEF DataOf
  <2>3. CASE file # "wifi" /\ file # "mesh"
    <3>1. d = Nothing
      BY <2>3 DEF DataOf
    <3> QED BY <3>1 DEF Nothing
  <2> QED BY <2>1, <2>2, <2>3
<1>2. Nothing.sta \in Ssids \cup {NoName} /\ Nothing.ap \in BOOLEAN
  BY DEF Nothing
<1>3. CASE seg \in Gets
  BY <1>2, <1>3 DEF Gets, NoLength
<1>5. CASE seg \in Rests
  <2>1. seg = [type |-> "rest", file |-> "", clen |-> NoLength, body |-> 1, data |-> Nothing]
    BY <1>5 DEF Rests
  <2>2. seg.type = "rest" /\ seg.clen = -1 /\ seg.body = 1 /\ seg.data = Nothing
    BY <2>1 DEF NoLength
  <2> QED BY <1>2, <2>2
<1>4. CASE seg \in Posts
  <2>1. PICK f \in {"wifi", "mesh", "mqtt", "reboot"} : \E c \in NoLength .. 2, b \in 0 .. 2, d \in DataOf(f) :
          seg = [type |-> "POST", file |-> f, clen |-> c, body |-> b, data |-> d]
    BY <1>4 DEF Posts
  <2> QED BY <1>1, <2>1 DEF NoLength
<1> QED BY <1>3, <1>4, <1>5 DEF Segments

\* What a whole segment is collected to, when no length is left over: the lengths
\* are those of no other request, and the data is the segment's or none.
LEMMA SavedData ==
  ASSUME WebInv, NEW seg \in Segments, check_data(seg)
  PROVE  /\ save_data(seg).total = 0 /\ save_data(seg).sum \in 0 .. 2
         /\ save_data(seg).buffer.data.sta \in Ssids \cup {NoName}
         /\ save_data(seg).buffer.data.ap \in BOOLEAN
<1>1. /\ seg.type \in {"GET", "POST", "rest"} /\ seg.clen \in -1 .. 2 /\ seg.body \in 0 .. 2
      /\ seg.data.sta \in Ssids \cup {NoName} /\ seg.data.ap \in BOOLEAN
  BY SegmentsTyped
<1>2. totallength = 0 /\ dat_sumlength \in 0 .. 2 /\ precvbuffer = NoBuffer
  BY DEF WebInv, WebTypeOK
<1>3. Nothing.sta \in Ssids \cup {NoName} /\ Nothing.ap \in BOOLEAN /\ NoBuffer.data = Nothing
  BY DEF Nothing, NoBuffer
<1>4. CASE seg.type = "rest" \/ (seg.clen = NoLength /\ seg.body # 0)
  <2>1. save_data(seg) = Refused
    BY <1>1, <1>2, <1>4 DEF save_data, Heads
  <2> QED BY <2>1, <1>2, <1>3 DEF Refused
<1>5. CASE seg.type # "rest" /\ seg.clen = NoLength /\ seg.body = 0
  <2>1. save_data(seg) = Collected(0, dat_sumlength, Copy(seg, dat_sumlength))
    BY <1>1, <1>2, <1>5 DEF save_data, Heads
  <2> QED BY <2>1, <1>1, <1>2, <1>3 DEF Collected, Copy
<1>6. CASE seg.type # "rest" /\ seg.clen # NoLength
  <2>1. seg.body = seg.clen /\ save_data(seg) = Collected(seg.body, seg.clen, Copy(seg, seg.clen))
    BY <1>1, <1>2, <1>6 DEF check_data, save_data, Heads
  <2> QED BY <2>1, <1>1, <1>3 DEF Collected, Copy
<1> QED BY <1>4, <1>5, <1>6

-----------------------------------------------------------------------------
\* WebInv says nothing that a step of ESP-TOUCH or the network changes.
LEMMA WebStutter == ASSUME WebInv, UNCHANGED webVars PROVE WebInv'
BY DEF WebInv, WebTypeOK, SettingNamed, SettingWaits, webVars, serverVars, recvVars, lateVars

LEMMA ModeStutter == ASSUME ModeInv, UNCHANGED <<modeVars, touchVars>> PROVE ModeInv'
BY DEF ModeInv, ModeTypeOK, TouchTypeOK, TimersKept, TouchKept, MeshWaits, StationIsSaved,
   RouterIsSaved, NoDoubleFree, modeVars, touchVars, stored, radio, meshVars

\* A call of user_set_com_mode from the web server, after the saved name is saved'.
LEMMA ModeAgain ==
  ASSUME ModeInv, NEW times \in {1, 2}, NEW saved \in Names,
         pollers + times < MaxPollers, user_set_com_mode(times, saved, link),
         sta_ssid' = saved, isMeshEnable' \in BOOLEAN,
         UNCHANGED <<comMode, esptouch_running, router, mesh, meshRefused, touchVars>>
  PROVE  ModeInv'
<1> USE ComModeAssumption DEF ModeInv, TouchTypeOK, TouchKept, touchVars
<1>1. ModeSet(times, saved)
  BY ComModeSet DEF ModeTypeOK
<1>2. ModeTypeOK' /\ TouchTypeOK'
  BY <1>1 DEF ModeSet, ModeTypeOK, NoDoubleFree
<1>3. TimersKept' /\ TouchKept'
  BY <1>1 DEF ModeSet, TimersKept, ModeTypeOK
<1>4. MeshWaits' /\ StationIsSaved' /\ RouterIsSaved' /\ NoDoubleFree'
  BY <1>1 DEF ModeSet, MeshWaits, StationIsSaved, RouterIsSaved, NoDoubleFree, ModeTypeOK
<1> QED BY <1>2, <1>3, <1>4

\* The four pointers through each request.
LEMMA ServeInv ==
  ASSUME ModeInv, WebInv, UNCHANGED touchVars,
         NEW r, r.data.sta \in Ssids \cup {NoName}, r.data.ap \in BOOLEAN,
         Serve(r)
  PROVE  /\ ModeInv'
         /\ sta_conf' \in {"NULL", NoName} \cup Names /\ ap_conf' \in {"NULL", "zero", "named"}
         /\ rstparm' \in {"NULL", "WIFI", "REBOOT"} /\ restart_10ms' \in {"NULL", "idle", "armed"}
         /\ posted' \in {NoName} \cup Ssids
         /\ SettingNamed' /\ SettingWaits'
<1> USE ComModeAssumption DEF WebInv, WebTypeOK, SettingNamed, SettingWaits, lateVars
<1>1. CASE GetWifi(r)
  BY <1>1, ModeStutter DEF GetWifi
<1>2. CASE PostReboot(r)
  BY <1>2, ModeStutter DEF PostReboot
<1>3. CASE PostWifi(r)
  <2>1. ModeInv'
    BY <1>3, ModeStutter DEF PostWifi
  <2>2. wifi_station_set(r) \in {NoName} \cup Names /\ wifi_softap_set(r) \in {"zero", "named"}
    BY DEF wifi_station_set, wifi_softap_set, Overlay, Names
  <2>3. CASE PutOff(r) /\ (wifi_station_set(r) # NoName \/ wifi_softap_set(r) = "named")
    <3>1. posted' # NoName => wifi_station_set(r) = posted'
      BY <2>3 DEF PutOff, wifi_station_set, Overlay, Garbled, NoName
    <3> QED BY <2>1, <2>2, <2>3, <3>1 DEF PutOff, NoName, Names, Garbled
  <2>4. CASE Forget
    BY <2>1, <2>4 DEF Forget
  <2> QED BY <1>3, <2>3, <2>4 DEF PostWifi
<1>4. CASE PostMesh(r)
  <2>1. CASE isMeshEnable' /\ pollers + 1 < MaxPollers /\ user_set_com_mode(1, sta_ssid, link)
             /\ UNCHANGED <<comMode, sta_ssid, esptouch_running, router, mesh, meshRefused>>
    <3>1. sta_ssid \in Names /\ isMeshEnable' \in BOOLEAN
      BY <1>4 DEF PostMesh, mesh_config_set, ModeInv, ModeTypeOK
    <3>2. ModeInv'
      BY <2>1, <3>1, ModeAgain
    <3> QED BY <1>4, <3>2 DEF PostMesh
  <2>2. CASE UNCHANGED <<comMode, sta_ssid, radio, esptouch_running, pollers, meshVars>>
    <3>1. isMeshEnable' \in BOOLEAN
      BY <1>4 DEF PostMesh, mesh_config_set, ModeInv, ModeTypeOK
    <3>2. ModeInv'
      BY <2>2, <3>1 DEF ModeInv, ModeTypeOK, TouchTypeOK, TimersKept, TouchKept, MeshWaits,
         StationIsSaved, RouterIsSaved, NoDoubleFree, touchVars, radio, meshVars
    <3> QED BY <1>4, <3>2 DEF PostMesh
  <2> QED BY <1>4, <2>1, <2>2 DEF PostMesh, mesh_config_set
<1>5. CASE OtherRequest(r)
  BY <1>5, ModeStutter DEF OtherRequest
<1> QED BY <1>1, <1>2, <1>3, <1>4, <1>5 DEF Serve

\* Both parts of the invariant through the web server: its segments, and what it put off.
LEMMA WebStep ==
  ASSUME ModeInv, WebInv, WebNext, UNCHANGED touchVars
  PROVE  ModeInv' /\ WebInv'
<1>1. CASE user_esp_platform_check_ip
  <2>1. ModeInv'
    BY <1>1, ModeStutter DEF user_esp_platform_check_ip
  <2>2. WebInv'
    BY <1>1 DEF user_esp_platform_check_ip, WebInv, WebTypeOK, SettingNamed, SettingWaits, recvVars, lateVars
  <2> QED BY <2>1, <2>2
<1>2. ASSUME NEW seg \in Segments, webserver_recv(seg) PROVE ModeInv' /\ WebInv'
  <2>1. CASE ~check_data(seg) /\ Drop(seg)
    <3>1. ModeInv'
      BY <2>1, ModeStutter DEF Drop
    <3>2. seg.clen \in -1 .. 2
      BY SegmentsTyped
    <3>3. seg.clen # NoLength
      BY <2>1 DEF check_data
    <3>4. dat_sumlength' \in 0 .. 2 /\ totallength' = 0 /\ precvbuffer' = NoBuffer
      BY <2>1, <3>2, <3>3 DEF Drop, NoLength, WebInv, WebTypeOK
    <3>5. torn' \in BOOLEAN /\ misanswered' \in BOOLEAN
      BY <2>1 DEF Drop, WebInv, WebTypeOK
    <3> QED BY <2>1, <3>1, <3>4, <3>5 DEF Drop, WebInv, WebTypeOK, SettingNamed, SettingWaits,
               lateVars, serverVars
  <2>2. CASE check_data(seg) /\ Serve(save_data(seg).buffer) /\ Collect(seg, save_data(seg))
             /\ UNCHANGED serverVars
    <3>1. /\ save_data(seg).total = 0 /\ save_data(seg).sum \in 0 .. 2
          /\ save_data(seg).buffer.data.sta \in Ssids \cup {NoName}
          /\ save_data(seg).buffer.data.ap \in BOOLEAN
      BY <2>2, SavedData
    <3> DEFINE r == save_data(seg).buffer
    <3>2. /\ ModeInv'
          /\ sta_conf' \in {"NULL", NoName} \cup Names /\ ap_conf' \in {"NULL", "zero", "named"}
          /\ rstparm' \in {"NULL", "WIFI", "REBOOT"} /\ restart_10ms' \in {"NULL", "idle", "armed"}
          /\ posted' \in {NoName} \cup Ssids
          /\ SettingNamed' /\ SettingWaits'
      BY <2>2, <3>1, ServeInv
    <3>3. /\ totallength' = 0 /\ dat_sumlength' \in 0 .. 2 /\ precvbuffer' = NoBuffer
          /\ torn' \in BOOLEAN /\ misanswered' \in BOOLEAN
      BY <2>2, <3>1 DEF Collect, WebInv, WebTypeOK
    <3> QED BY <2>2, <3>2, <3>3 DEF WebInv, WebTypeOK, serverVars
  <2> QED BY <1>2, <2>1, <2>2 DEF webserver_recv
<1>3. CASE ApplyWifi
  <2> DEFINE times == Named(sta_conf, NoName) + Named(ap_conf, "zero")
  <2>1. times \in {1, 2}
    BY <1>3 DEF ApplyWifi, Named, WebInv, SettingNamed
  <2>2. sta_ssid' \in Names
    <3>1. CASE sta_conf = NoName
      BY <1>3, <3>1 DEF ApplyWifi, ModeInv, ModeTypeOK
    <3>2. CASE sta_conf # NoName
      <4>1. sta_conf \in Names /\ sta_ssid' \in Printed(sta_conf)
        BY <1>3, <3>2 DEF ApplyWifi, CFG_saveStaCfg, WebInv, WebTypeOK
      <4> QED BY <4>1, PrintedName
    <3> QED BY <3>1, <3>2
  <2>3. /\ pollers + times < MaxPollers /\ user_set_com_mode(times, sta_ssid', link)
        /\ UNCHANGED <<comMode, isMeshEnable, esptouch_running, router, mesh, meshRefused>>
    BY <1>3 DEF ApplyWifi
  <2>4. isMeshEnable' \in BOOLEAN
    BY <2>3 DEF ModeInv, ModeTypeOK
  <2> HIDE DEF times
  <2>5. ModeInv'
    BY <2>1, <2>2, <2>3, <2>4, ModeAgain
  <2>6. WebInv'
    BY <1>3 DEF ApplyWifi, WebInv, WebTypeOK, SettingNamed, SettingWaits, serverVars, recvVars
  <2> QED BY <2>5, <2>6
<1>4. CASE ApplyReboot
  <2>1. ModeInv'
    BY <1>4 DEF ApplyReboot, ModeInv, ModeTypeOK, TouchTypeOK, TimersKept, TouchKept, MeshWaits,
       StationIsSaved, RouterIsSaved, NoDoubleFree, stored, meshVars, touchVars
  <2>2. WebInv'
    BY <1>4 DEF ApplyReboot, WebInv, WebTypeOK, SettingNamed, SettingWaits, serverVars, recvVars
  <2> QED BY <2>1, <2>2
<1> QED BY <1>1, <1>2, <1>3, <1>4 DEF WebNext

-----------------------------------------------------------------------------
LEMMA SetupInit == Init => IInv
<1> SUFFICES ASSUME Init PROVE IInv
  OBVIOUS
<1> USE ComModeAssumption, DeviceSetupAssumption
<1>1. ModeInv
  <2> USE DEF Init, ModeInit, TouchInit
  <2>1. ModeTypeOK
    <3>1. {isMeshEnable, esptouch_running, meshRefused, freedTwice} \subseteq BOOLEAN
      BY Zenon
    <3> QED BY <3>1 DEF ModeTypeOK, Names
  <2>2. TouchTypeOK /\ TimersKept /\ TouchKept
    BY DEF TouchTypeOK, TimersKept, TouchKept
  <2>3. MeshWaits /\ StationIsSaved /\ RouterIsSaved /\ NoDoubleFree
    BY DEF MeshWaits, StationIsSaved, RouterIsSaved, NoDoubleFree
  <2> QED BY <2>1, <2>2, <2>3 DEF ModeInv
<1>2. WebInv
  <2> USE DEF Init, WebInit
  <2>1. WebTypeOK
    <3>1. {test_timer, listening, torn, misanswered} \subseteq BOOLEAN
      BY Zenon
    <3> QED BY <3>1 DEF WebTypeOK
  <2> QED BY <2>1 DEF WebInv, SettingNamed, SettingWaits
<1> QED BY <1>1, <1>2 DEF Init, IInv

LEMMA SetupStep == IInv /\ [Next]_vars => IInv'
<1> SUFFICES ASSUME IInv, [Next]_vars PROVE IInv'
  OBVIOUS
<1> USE ComModeAssumption, DeviceSetupAssumption DEF IInv
<1>1. CASE Touch
  BY <1>1, TouchMode, WebStutter DEF Touch
<1>2. CASE Network
  BY <1>2, NetworkMode, WebStutter DEF Network
<1>3. CASE Web
  BY <1>3, WebStep DEF Web
<1>4. CASE Restart
  <2>1. ModeInv'
    <3> USE <1>4 DEF Restart, ModeRestart, TouchRestart, stored
    <3>1. ModeTypeOK'
      <4>1. {isMeshEnable, esptouch_running, meshRefused, freedTwice}' \subseteq BOOLEAN
        <5>1. isMeshEnable' \in BOOLEAN
          BY DEF ModeInv, ModeTypeOK
        <5> QED BY <5>1, Zenon
      <4> QED BY <4>1 DEF ModeInv, ModeTypeOK
    <3>2. TouchTypeOK' /\ TimersKept' /\ TouchKept'
      BY DEF TouchTypeOK, TimersKept, TouchKept
    <3>3. MeshWaits' /\ StationIsSaved' /\ RouterIsSaved' /\ NoDoubleFree'
      BY DEF MeshWaits, StationIsSaved, RouterIsSaved, NoDoubleFree
    <3> QED BY <3>1, <3>2, <3>3 DEF ModeInv
  <2>2. WebInv'
    BY <1>4 DEF Restart, WebRestart, WebInv, WebTypeOK, SettingNamed, SettingWaits
  <2> QED BY <1>4, <2>1, <2>2 DEF Restart
<1>5. CASE UNCHANGED vars
  BY <1>5, ModeStutter, WebStutter DEF vars
<1> QED BY <1>1, <1>2, <1>3, <1>4, <1>5 DEF Next

LEMMA SetupInv == Spec => []IInv
BY SetupInit, SetupStep, PTL DEF Spec

\* Every variable keeps its type: ESP-TOUCH, mesh, web server and their 10 ms callback
\* leave each other's settings and pointers in a state they know.
THEOREM SetupTyped == Spec => []TypeOK
<1>1. IInv => TypeOK
  BY DEF IInv, ModeInv, WebInv, TypeOK
<1> QED BY <1>1, SetupInv, PTL

\* For any networks and any number of requests the mesh is not enabled while ESP-TOUCH
\* runs: wait_esptouch_over does what the comment in knk_mesh_init promises.
THEOREM SetupMeshWaits == Spec => []MeshWaits
<1>1. IInv => MeshWaits
  BY DEF IInv, ModeInv
<1> QED BY <1>1, SetupInv, PTL

\* Once ESP-TOUCH is over, the SDK and the saved settings name the same network,
\* whichever callback saved last (esptouch_success_cb, esptouch_fail_cb, restart_10ms_cb).
THEOREM SetupStationIsSaved == Spec => []StationIsSaved
<1>1. IInv => StationIsSaved
  BY DEF IInv, ModeInv
<1> QED BY <1>1, SetupInv, PTL

\* In mesh mode router_init leaves the saved network with the mesh library, unless
\* the library refused it.
THEOREM SetupRouterIsSaved == Spec => []RouterIsSaved
<1>1. IInv => RouterIsSaved
  BY DEF IInv, ModeInv
<1> QED BY <1>1, SetupInv, PTL

\* knk_mesh_deinit never frees a timer that wait_esptouch_over freed: a device that is
\* not in mesh mode has no such timer, and the mode does not change between starts.
THEOREM SetupNoDoubleFree == Spec => []NoDoubleFree
<1>1. IInv => NoDoubleFree
  BY DEF IInv, ModeInv
<1> QED BY <1>1, SetupInv, PTL

\* A Wi-Fi setting that waits undisturbed for restart_10ms_cb is the one saved, by its own
\* name unless CFG_saveStaCfg takes the name for a format or runs over its end, and in
\* station mode the network saved is the one joined.
THEOREM SetupSettingApplied == Spec => SettingApplied
<1>1. IInv /\ [Next]_vars =>
        [posted # NoName /\ restart_10ms = "armed" /\ restart_10ms' = "NULL" /\ boots' = boots
           => sta_ssid' \in Printed(posted) /\ (comMode = "STA" => station' = sta_ssid')]_vars
  <2> SUFFICES ASSUME IInv, Next, posted # NoName, restart_10ms = "armed", restart_10ms' = "NULL",
                      boots' = boots
               PROVE  sta_ssid' \in Printed(posted) /\ (comMode = "STA" => station' = sta_ssid')
    OBVIOUS
  <2>1. rstparm = "WIFI" /\ sta_conf = posted
    BY DEF IInv, WebInv, SettingWaits
  <2>2. CASE Web
    <3>1. CASE ApplyWifi
      BY <2>1, <3>1 DEF ApplyWifi, CFG_saveStaCfg, user_set_com_mode, WIFI_Connect
    <3>2. CASE ApplyReboot
      BY <2>1, <3>2 DEF ApplyReboot
    <3>3. CASE user_esp_platform_check_ip
      BY <3>3 DEF user_esp_platform_check_ip, lateVars
    <3>4. ASSUME NEW seg \in Segments, webserver_recv(seg) PROVE FALSE
      BY <3>4 DEF webserver_recv, Drop, Serve, GetWifi, PostReboot, PostWifi, PutOff, Forget,
         PostMesh, OtherRequest, lateVars
    <3> QED BY <2>2, <3>1, <3>2, <3>3, <3>4 DEF Web, WebNext
  <2>3. CASE Touch \/ Network
    BY <2>3 DEF Touch, Network, webVars, lateVars
  <2>4. CASE Restart
    BY <2>4 DEF Restart, IInv, DeviceSetupAssumption
  <2> QED BY <2>2, <2>3, <2>4 DEF Next
<1> QED BY <1>1, SetupInv, PTL DEF Spec, SettingApplied
-----------------------------------------------------------------------------
\* Only a torn request leaves a length in dat_sumlength; while none stands, a whole
\* request is found whole.
LengthsClear == ~torn => dat_sumlength = 0

LEMMA AnswersKept == IInv /\ LengthsClear /\ OneAnswer /\ [Next]_vars => LengthsClear' /\ OneAnswer'
<1> SUFFICES ASSUME IInv, LengthsClear, OneAnswer, [Next]_vars
             PROVE  LengthsClear' /\ OneAnswer'
  OBVIOUS
<1> USE DEF LengthsClear, OneAnswer
<1>1. totallength = 0 /\ dat_sumlength \in 0 .. 2 /\ precvbuffer = NoBuffer /\ torn \in BOOLEAN
  BY DEF IInv, WebInv, WebTypeOK
<1>2. ASSUME NEW seg \in Segments, webserver_recv(seg) PROVE LengthsClear' /\ OneAnswer'
  <2>1. /\ seg.type \in {"GET", "POST", "rest"} /\ seg.clen \in -1 .. 2 /\ seg.body \in 0 .. 2
        /\ seg.type = "rest" => seg.body = 1
    BY SegmentsTyped
  <2>2. CASE ~check_data(seg) /\ Drop(seg)
    BY <2>2 DEF check_data, Drop, Whole
  <2>3. CASE check_data(seg) /\ Collect(seg, save_data(seg))
    <3>1. CASE seg.type = "rest" \/ (seg.clen = NoLength /\ seg.body # 0)
      <4>1. save_data(seg) = Refused
        BY <1>1, <2>1, <3>1 DEF save_data, Heads
      <4>2. save_data(seg).sum = 0 /\ ~Whole(seg)
        BY <4>1, <3>1 DEF Refused, Whole, Heads
      <4> QED BY <2>3, <4>2 DEF Collect
    <3>2. CASE seg.type # "rest" /\ seg.clen = NoLength /\ seg.body = 0
      <4>1. save_data(seg) = Collected(0, dat_sumlength, Copy(seg, dat_sumlength))
        BY <1>1, <2>1, <3>2 DEF save_data, Heads
      <4>2. torn' => torn
        BY <2>3 DEF Collect
      <4>3. ~torn => save_data(seg) = [whole |-> TRUE, buffer |-> Copy(seg, 0), total |-> 0, sum |-> 0]
        BY <4>1 DEF Collected
      <4>4. torn => torn'
        BY <2>3, <3>2 DEF Collect
      <4>5. torn \/ Answers(save_data(seg)) = 1
        BY <4>3 DEF Answers
      <4>6. dat_sumlength' = save_data(seg).sum
        BY <2>3 DEF Collect
      <4>7. misanswered' => misanswered \/ (~torn /\ Answers(save_data(seg)) # 1)
        BY <2>3 DEF Collect
      <4> QED BY <4>2, <4>3, <4>4, <4>5, <4>6, <4>7
    <3>3. CASE seg.type # "rest" /\ seg.clen # NoLength
      <4>1. save_data(seg) = Collected(seg.body, seg.clen, Copy(seg, seg.clen)) /\ seg.body = seg.clen
        BY <1>1, <2>1, <2>3, <3>3 DEF check_data, save_data, Heads
      <4>2. save_data(seg) = [whole |-> TRUE, buffer |-> Copy(seg, seg.clen), total |-> 0, sum |-> 0]
        BY <4>1 DEF Collected
      <4>3. Answers(save_data(seg)) = 1 /\ save_data(seg).sum = 0
        BY <4>2 DEF Answers
      <4>4. dat_sumlength' = save_data(seg).sum
        BY <2>3 DEF Collect
      <4>5. misanswered' => misanswered \/ Answers(save_data(seg)) # 1
        BY <2>3 DEF Collect
      <4> QED BY <4>3, <4>4, <4>5
    <3> QED BY <3>1, <3>2, <3>3
  <2> QED BY <1>2, <2>2, <2>3 DEF webserver_recv
<1>3. CASE user_esp_platform_check_ip \/ ApplyWifi \/ ApplyReboot
  BY <1>3 DEF user_esp_platform_check_ip, ApplyWifi, ApplyReboot, recvVars
<1>4. CASE Touch \/ Network \/ UNCHANGED vars
  BY <1>4 DEF Touch, Network, vars, webVars, recvVars
<1>5. CASE Restart
  BY <1>5 DEF Restart, WebRestart
<1> QED BY <1>2, <1>3, <1>4, <1>5 DEF Next, Web, WebNext

\* Any request that comes whole, with no head of a torn one before it, is answered
\* once, in every order with the others and with the callback of a change put off.
THEOREM SetupOneAnswer == Spec => []OneAnswer
<1>1. Init => LengthsClear /\ OneAnswer
  BY DEF Init, WebInit, LengthsClear, OneAnswer
<1> QED BY <1>1, AnswersKept, SetupInv, PTL DEF Spec

-----------------------------------------------------------------------------
\* The list of the nodes of the mesh.

\* Addresses, with that of no root.
Addr == Mac \cup {None}

\* Lists with any contents.
Lists == [size : Nat, scale : Nat, root : Addr, list : Seq(Addr)]

\* The nodes in a list.
NodesOf(l) == {l.list[i] : i \in 1 .. l.scale - 1}

\* What every list is, one that was written behind its memory included: as long as its
\* memory or as what was written, each node once, and never the root.
LongAsSaid(l) == Len(l.list) = IF l.scale <= l.size + 1 THEN l.size ELSE l.scale - 1
EachOnce(l) == \A i, j \in 1 .. l.scale - 1 : l.list[i] = l.list[j] => i = j
NeverRoot(l) == \A i \in 1 .. l.scale - 1 : l.list[i] # l.root

Good == {l \in Lists : LongAsSaid(l) /\ EachOnce(l) /\ NeverRoot(l) /\ (l.scale = 0 => l = Empty)}

\* Those that have a root.
Rooted == {l \in Good : l.scale # 0}

\* What the assumption says, in the portions the steps need.
LEMMA Constants == Step \in Nat /\ Step > 0
BY MeshAssumption

LEMMA PacketTyped ==
  ASSUME NEW p \in Packets
  PROVE  p.root \in Mac /\ p.root \in Addr /\ p.lists \in Seq(Seq(Mac))
BY MeshAssumption DEF Addr

\* A good list, part by part; it was written behind its memory when it names more than fits.
LEMMA GoodIs ==
  ASSUME NEW l \in Good
  PROVE  /\ l.size \in Nat /\ l.scale \in Nat /\ l.root \in Addr /\ l.list \in Seq(Addr)
         /\ l = [size |-> l.size, scale |-> l.scale, root |-> l.root, list |-> l.list]
         /\ LongAsSaid(l) /\ EachOnce(l) /\ NeverRoot(l)
         /\ l.scale = 0 => l = Empty
         /\ Len(l.list) \in Nat /\ l.scale - 1 <= Len(l.list)
         /\ Behind(l) <=> l.scale > l.size + 1
<1>1. /\ l \in Lists /\ LongAsSaid(l) /\ EachOnce(l) /\ NeverRoot(l) /\ (l.scale = 0 => l = Empty)
  BY Zenon DEF Good
<1>2. /\ l.size \in Nat /\ l.scale \in Nat /\ l.root \in Addr /\ l.list \in Seq(Addr)
      /\ l = [size |-> l.size, scale |-> l.scale, root |-> l.root, list |-> l.list]
  BY <1>1 DEF Lists
<1>3. Len(l.list) = IF l.scale <= l.size + 1 THEN l.size ELSE l.scale - 1
  BY <1>1, Zenon DEF LongAsSaid
<1>4. Len(l.list) \in Nat /\ l.scale - 1 <= Len(l.list) /\ (Behind(l) <=> l.scale > l.size + 1)
  BY <1>2, <1>3 DEF Behind
<1> QED BY <1>1, <1>2, <1>4

\* The list at the start.
LEMMA EmptyGood == Empty \in Good /\ ~Behind(Empty) /\ Empty.root = None /\ NodesOf(Empty) = {} /\ Empty.scale = 0
<1>1. Empty \in Lists
  BY DEF Empty, Lists, Addr
<1>2. Empty.scale = 0 /\ Empty.size = 0 /\ Empty.list = <<>> /\ Empty.root = None
  BY DEF Empty
<1>3. 1 .. 0 - 1 = {}
  OBVIOUS
<1>4. EachOnce(Empty) /\ NeverRoot(Empty) /\ NodesOf(Empty) = {}
  BY <1>2, <1>3 DEF EachOnce, NeverRoot, NodesOf
<1>5. LongAsSaid(Empty) /\ ~Behind(Empty)
  BY <1>2 DEF LongAsSaid, Behind
<1> QED BY <1>1, <1>2, <1>4, <1>5, Zenon DEF Good

\* A new root empties the list.
LEMMA SetRoot ==
  ASSUME NEW l \in Good, NEW root \in Addr, ~Behind(l)
  PROVE  LET m == mesh_device_set_root(l, root)
         IN /\ m \in Rooted /\ ~Behind(m) /\ m.root = root
            /\ NodesOf(m) = IF l.root = root THEN NodesOf(l) ELSE {}
<1> DEFINE new == [Empty EXCEPT !.root = root, !.scale = 1]
<1>1. /\ new.size = 0 /\ new.scale = 1 /\ new.root = root /\ new.list = <<>> /\ new \in Lists
  <2>1. new = [size |-> 0, scale |-> 1, root |-> root, list |-> <<>>]
    <3>1. Empty = [size |-> 0, scale |-> 0, root |-> None, list |-> <<>>]
      BY DEF Empty
    <3> DEFINE z == <<>>
    <3> HIDE DEF z
    <3>2. Empty = [size |-> 0, scale |-> 0, root |-> None, list |-> z]
      BY <3>1 DEF z
    <3>3. new = [Empty EXCEPT !.root = root, !.scale = 1]
      BY Zenon
    <3> HIDE DEF new
    <3>4. new = [size |-> 0, scale |-> 1, root |-> root, list |-> z]
      BY <3>2, <3>3
    <3> QED BY <3>4, Zenon DEF z
  <2> HIDE DEF new
  <2>2. new.size = 0 /\ new.scale = 1 /\ new.root = root /\ new.list = <<>>
    BY <2>1
  <2>3. <<>> \in Seq(Addr)
    OBVIOUS
  <2>4. new \in Lists
    BY <2>1, <2>3 DEF Lists
  <2> QED BY <2>2, <2>4
<1>2. new \in Rooted /\ ~Behind(new) /\ NodesOf(new) = {}
  <2> HIDE DEF new
  <2>1. 1 .. 1 - 1 = {}
    OBVIOUS
  <2>2. EachOnce(new) /\ NeverRoot(new) /\ NodesOf(new) = {}
    BY <1>1, <2>1 DEF EachOnce, NeverRoot, NodesOf
  <2>3. LongAsSaid(new) /\ ~Behind(new)
    BY <1>1 DEF LongAsSaid, Behind
  <2>4. new.scale # 0
    BY <1>1
  <2> QED BY <1>1, <2>2, <2>3, <2>4, Zenon DEF Good, Rooted
<1> HIDE DEF new
<1>3. CASE l.scale # 0 /\ l.root = root
  <2>1. mesh_device_set_root(l, root) = l
    BY <1>3, Zenon DEF mesh_device_set_root
  <2> QED BY <1>3, <2>1, Zenon DEF Rooted
<1>4. CASE ~(l.scale # 0 /\ l.root = root)
  <2>1. mesh_device_set_root(l, root) = new
    BY <1>4, Zenon DEF mesh_device_set_root, new
  <2>2. l.root = root => NodesOf(l) = {}
    <3>1. l.root = root => l = Empty
      BY <1>4, GoodIs, Zenon
    <3> QED BY <3>1, EmptyGood, Zenon
  <2> QED BY <1>1, <1>2, <2>1, <2>2, Zenon
<1> QED BY <1>3, <1>4

-----------------------------------------------------------------------------
\* One round of the loop.
LEMMA PutGood ==
  ASSUME NEW l \in Rooted, NEW node \in Mac
  PROVE  /\ Put(l, node) \in Rooted
         /\ Put(l, node).root = l.root /\ Put(l, node).size = l.size
         /\ Put(l, node).scale \in {l.scale, l.scale + 1}
         /\ NodesOf(Put(l, node)) = (NodesOf(l) \cup {node}) \ {l.root}
<1>1. l \in Good /\ l.scale # 0
  BY DEF Rooted
<1>2. /\ l.size \in Nat /\ l.scale \in Nat /\ l.root \in Addr /\ l.list \in Seq(Addr)
      /\ l = [size |-> l.size, scale |-> l.scale, root |-> l.root, list |-> l.list]
      /\ LongAsSaid(l) /\ EachOnce(l) /\ NeverRoot(l)
      /\ Len(l.list) \in Nat /\ l.scale - 1 <= Len(l.list)
  BY <1>1, GoodIs
<1>3. l.root \notin NodesOf(l)
  BY <1>2 DEF NeverRoot, NodesOf
<1>4. CASE mesh_search_device(l, node)
  <2>1. Put(l, node) = l
    BY <1>4, Zenon DEF Put
  <2>2. l.root = node \/ node \in NodesOf(l)
    BY <1>4, Zenon DEF mesh_search_device, NodesOf
  <2> QED BY <1>3, <2>1, <2>2
<1>5. CASE ~mesh_search_device(l, node)
  <2> DEFINE m == Put(l, node)
             new == IF l.scale <= l.size THEN [l.list EXCEPT ![l.scale] = node] ELSE Append(l.list, node)
  <2>1. node # l.root /\ \A i \in 1 .. l.scale - 1 : l.list[i] # node
    BY <1>1, <1>5, Zenon DEF mesh_search_device
  <2>2. m = [size |-> l.size, scale |-> l.scale + 1, root |-> l.root, list |-> new]
    <3>1. m = [l EXCEPT !.scale = @ + 1,
                 !.list = IF l.scale <= l.size THEN [@ EXCEPT ![l.scale] = node] ELSE Append(@, node)]
      BY <1>5, Zenon DEF Put
    <3> QED BY <1>2, <3>1
  <2>3. Len(l.list) = IF l.scale <= l.size + 1 THEN l.size ELSE l.scale - 1
    BY <1>2, Zenon DEF LongAsSaid
  <2>4. node \in Addr
    BY DEF Addr
  <2>5. /\ new \in Seq(Addr)
        /\ Len(new) = IF l.scale + 1 <= l.size + 1 THEN l.size ELSE l.scale
        /\ new[l.scale] = node
        /\ \A i \in 1 .. l.scale - 1 : new[i] = l.list[i]
    <3>1. CASE l.scale <= l.size
      <4>1. new = [l.list EXCEPT ![l.scale] = node]
        BY <3>1
      <4>2. l.scale \in 1 .. Len(l.list) /\ Len(l.list) = l.size
        BY <1>1, <1>2, <2>3, <3>1
      <4>3. /\ new \in Seq(Addr) /\ Len(new) = l.size
            /\ \A j \in 1 .. Len(l.list) : new[j] = IF j = l.scale THEN node ELSE l.list[j]
        <5> HIDE DEF new
        <5> QED BY <1>2, <2>4, <4>1, <4>2, ExceptSeq
      <4> HIDE DEF new
      <4> QED BY <1>2, <3>1, <4>2, <4>3
    <3>2. CASE ~(l.scale <= l.size)
      <4>1. new = Append(l.list, node)
        BY <3>2
      <4>2. Len(l.list) = l.scale - 1
        BY <1>2, <2>3, <3>2
      <4> HIDE DEF new
      <4> QED BY <1>2, <2>4, <3>2, <4>1, <4>2
    <3> QED BY <3>1, <3>2
  <2> HIDE DEF m, new
  <2>6. /\ m.size = l.size /\ m.scale = l.scale + 1 /\ m.root = l.root /\ m.list = new
        /\ m.scale - 1 = l.scale
    BY <1>2, <2>2
  <2>7. m \in Lists
    BY <1>2, <2>2, <2>5 DEF Lists
  <2>8. LongAsSaid(m)
    BY <1>2, <2>5, <2>6 DEF LongAsSaid
  <2>9. \A i \in 1 .. l.scale : i = l.scale \/ i \in 1 .. l.scale - 1
    BY <1>2
  <2>10. NeverRoot(m)
    BY <1>2, <2>1, <2>5, <2>6, <2>9, Zenon DEF NeverRoot
  <2>11. EachOnce(m)
    <3>1. ASSUME NEW i \in 1 .. l.scale, NEW j \in 1 .. l.scale, new[i] = new[j] PROVE i = j
      <4>1. CASE i = l.scale /\ j = l.scale
        BY <4>1
      <4>2. CASE i = l.scale /\ j \in 1 .. l.scale - 1
        BY <2>1, <2>5, <3>1, <4>2, Zenon
      <4>3. CASE i \in 1 .. l.scale - 1 /\ j = l.scale
        BY <2>1, <2>5, <3>1, <4>3, Zenon
      <4>4. CASE i \in 1 .. l.scale - 1 /\ j \in 1 .. l.scale - 1
        <5>1. l.list[i] = l.list[j]
          BY <2>5, <3>1, <4>4, Zenon
        <5> QED BY <1>2, <4>4, <5>1, Zenon DEF EachOnce
      <4> QED BY <2>9, <4>1, <4>2, <4>3, <4>4, Zenon
    <3> QED BY <2>6, <3>1, Zenon DEF EachOnce
  <2>12. NodesOf(m) = NodesOf(l) \cup {node}
    <3>1. \A i \in 1 .. l.scale - 1 : i \in 1 .. l.scale
      BY <1>2
    <3>2. l.scale \in 1 .. l.scale
      BY <1>1, <1>2
    <3>3. NodesOf(m) = {new[i] : i \in 1 .. l.scale}
      BY <2>6, Zenon DEF NodesOf
    <3>4. ASSUME NEW n PROVE n \in NodesOf(m) <=> n \in NodesOf(l) \cup {node}
      <4>1. n \in NodesOf(m) <=> \E i \in 1 .. l.scale : n = new[i]
        BY <3>3, Zenon
      <4>2. n \in NodesOf(l) <=> \E i \in 1 .. l.scale - 1 : n = l.list[i]
        BY Zenon DEF NodesOf
      <4>3. (\E i \in 1 .. l.scale : n = new[i]) => (\E i \in 1 .. l.scale - 1 : n = l.list[i]) \/ n = node
        BY <2>5, <2>9, Zenon
      <4>4. (\E i \in 1 .. l.scale - 1 : n = l.list[i]) => \E i \in 1 .. l.scale : n = new[i]
        BY <2>5, <3>1, Zenon
      <4>5. n = node => \E i \in 1 .. l.scale : n = new[i]
        BY <2>5, <3>2, Zenon
      <4> QED BY <4>1, <4>2, <4>3, <4>4, <4>5, Zenon
    <3> QED BY <3>4, Zenon
  <2>13. m.scale # 0
    BY <1>2, <2>6
  <2>14. m \in Rooted
    BY <2>7, <2>8, <2>10, <2>11, <2>13, Zenon DEF Rooted, Good
  <2> QED BY <1>3, <2>1, <2>6, <2>12, <2>14 DEF m
<1> QED BY <1>4, <1>5

\* A list that grows keeps its nodes and has room for at least Step more, though not for
\* as many as are wanted.
LEMMA ResizedGood ==
  ASSUME NEW l \in Rooted, ~Behind(l), NEW n \in Nat, Rest(l) < n
  PROVE  /\ Resized(l, Grown(l)) \in Rooted
         /\ Resized(l, Grown(l)).root = l.root
         /\ NodesOf(Resized(l, Grown(l))) = NodesOf(l)
         /\ ~Behind(Resized(l, Grown(l)))
         /\ Resized(l, Grown(l)).scale + Step <= Resized(l, Grown(l)).size + 1
<1> DEFINE size == Grown(l)
           m == Resized(l, size)
           new == [i \in 1 .. size |-> IF i < l.scale THEN l.list[i] ELSE None]
<1>1. l \in Good /\ l.scale # 0
  BY DEF Rooted
<1>2. /\ l.size \in Nat /\ l.scale \in Nat /\ l.root \in Addr /\ l.list \in Seq(Addr)
      /\ l = [size |-> l.size, scale |-> l.scale, root |-> l.root, list |-> l.list]
      /\ EachOnce(l) /\ NeverRoot(l)
      /\ Len(l.list) \in Nat /\ l.scale - 1 <= Len(l.list)
      /\ l.scale <= l.size + 1
  BY <1>1, GoodIs
<1>3. size \in Nat /\ l.scale + Step <= size + 1
  BY <1>1, <1>2, Constants DEF Grown, Rest
<1>4. m = [size |-> size, scale |-> l.scale, root |-> l.root, list |-> new]
  <2>1. m = [l EXCEPT !.size = size, !.list = new]
    BY Zenon DEF Resized
  <2> HIDE DEF m, size, new
  <2> QED BY <1>2, <2>1
<1> HIDE DEF size, m
<1>5. l.scale <= size + 1 /\ l.scale - 1 <= size
  BY <1>2, <1>3, Constants
<1>6. /\ new \in Seq(Addr) /\ Len(new) = size
      /\ \A i \in 1 .. l.scale - 1 : new[i] = l.list[i]
  <2>1. \A i \in 1 .. size : (IF i < l.scale THEN l.list[i] ELSE None) \in Addr
    <3>1. \A i \in 1 .. size : i < l.scale => i \in 1 .. Len(l.list)
      BY <1>2, <1>3
    <3>2. None \in Addr
      BY DEF Addr
    <3> QED BY <1>2, <3>1, <3>2, ElementOfSeq
  <2>2. new \in Seq(Addr) /\ Len(new) = size
    BY <1>3, <2>1
  <2>3. \A i \in 1 .. l.scale - 1 : i \in 1 .. size /\ i < l.scale
    BY <1>2, <1>3, <1>5
  <2> QED BY <2>2, <2>3
<1> HIDE DEF new
<1>7. m.size = size /\ m.scale = l.scale /\ m.root = l.root /\ m.list = new
  BY <1>4
<1>8. m \in Lists
  BY <1>2, <1>3, <1>4, <1>6 DEF Lists
<1>9. LongAsSaid(m) /\ ~Behind(m)
  BY <1>3, <1>5, <1>6, <1>7 DEF LongAsSaid, Behind
<1>10. EachOnce(m) /\ NeverRoot(m)
  BY <1>2, <1>6, <1>7, Zenon DEF EachOnce, NeverRoot
<1>11. NodesOf(m) = NodesOf(l)
  BY <1>6, <1>7 DEF NodesOf
<1>12. m \in Rooted
  BY <1>1, <1>7, <1>8, <1>9, <1>10, Zenon DEF Rooted, Good
<1> QED BY <1>3, <1>7, <1>9, <1>11, <1>12 DEF m, size

\* One call: the nodes named are added to those of the list, each once and without the
\* root, and up to Step of them never pass its memory.
LEMMA AddGood ==
  ASSUME NEW l \in Rooted, ~Behind(l), NEW nodes \in Seq(Mac)
  PROVE  /\ mesh_device_add(l, nodes) \in Rooted
         /\ mesh_device_add(l, nodes).root = l.root
         /\ NodesOf(mesh_device_add(l, nodes))
              = (NodesOf(l) \cup {nodes[i] : i \in 1 .. Len(nodes)}) \ {l.root}
         /\ Len(nodes) <= Step => ~Behind(mesh_device_add(l, nodes))
<1> DEFINE n == Len(nodes)
           b == IF Rest(l) < n THEN Resized(l, Grown(l)) ELSE l
           Is(F) == F = [k \in 0 .. n |-> IF k = 0 THEN b ELSE Put(F[k - 1], nodes[k])]
           F == CHOOSE G : Is(G)
           named(k) == (NodesOf(l) \cup {nodes[i] : i \in 1 .. k}) \ {l.root}
<1>1. n \in Nat /\ \A k \in 1 .. n : nodes[k] \in Mac
  BY ElementOfSeq
<1>2. l \in Good /\ l.size \in Nat /\ l.scale \in Nat /\ l.scale # 0 /\ l.scale <= l.size + 1
  <2>1. l \in Good /\ l.scale # 0
    BY DEF Rooted
  <2> QED BY <2>1, GoodIs
<1>3. mesh_device_add(l, nodes) = F[n]
  BY Zenon DEF mesh_device_add
<1>4. l.root \notin NodesOf(l)
  BY <1>2, GoodIs, Zenon DEF NeverRoot, NodesOf
<1>5. b \in Rooted /\ b.root = l.root /\ NodesOf(b) = NodesOf(l) /\ b.size \in Nat /\ b.scale \in Nat
      /\ (n <= Step => b.scale + n <= b.size + 1)
  <2>1. CASE Rest(l) < n
    <3>1. b = Resized(l, Grown(l))
      BY <2>1
    <3>2. b \in Rooted /\ b.root = l.root /\ NodesOf(b) = NodesOf(l) /\ b.scale + Step <= b.size + 1
      BY <1>1, <2>1, <3>1, ResizedGood, Zenon
    <3>3. b.size \in Nat /\ b.scale \in Nat
      BY <3>2, GoodIs DEF Rooted
    <3> HIDE DEF b, n
    <3> QED BY <1>1, <3>2, <3>3, Constants
  <2>2. CASE ~(Rest(l) < n)
    <3>1. b = l
      BY <2>2
    <3>2. l.scale + n <= l.size + 1
      <4> HIDE DEF n
      <4> QED BY <1>1, <1>2, <2>2 DEF Rest
    <3> HIDE DEF b, n
    <3> QED BY <1>2, <3>1, <3>2
  <2> QED BY <2>1, <2>2
<1>6. Is(F)
  <2> DEFINE h == [p \in (1 .. n) \X Rooted |-> Put(p[2], nodes[p[1]])]
  <2>1. h \in [(1 .. n) \X Rooted -> Rooted]
    <3>1. ASSUME NEW p \in (1 .. n) \X Rooted PROVE Put(p[2], nodes[p[1]]) \in Rooted
      <4>1. p[1] \in 1 .. n /\ p[2] \in Rooted
        OBVIOUS
      <4> QED BY <1>1, <4>1, PutGood, Zenon
    <3> HIDE DEF n
    <3> QED BY <3>1
  <2>2. PICK G \in [0 .. n -> Rooted] : G[0] = b /\ \A i \in 1 .. n : G[i] = h[<<i, G[i - 1]>>]
    <3> HIDE DEF h, b, n
    <3>1. n \in Nat
      BY <1>1
    <3>2. b \in Rooted
      BY <1>5
    <3>3. h \in Steps(n, Rooted)
      BY <2>1, Zenon DEF Steps
    <3>4. \E G : Recurs(G, Rooted, n, b, h)
      BY <3>1, <3>2, <3>3, Recursion, Zenon
    <3> QED BY <3>4, Zenon DEF Recurs
  <2>3. ASSUME NEW i \in 1 .. n PROVE G[i] = Put(G[i - 1], nodes[i])
    <3> HIDE DEF n
    <3>1. i - 1 \in 0 .. n
      BY <1>1
    <3>2. <<i, G[i - 1]>> \in (1 .. n) \X Rooted
      BY <3>1
    <3>3. h[<<i, G[i - 1]>>] = Put(G[i - 1], nodes[i])
      BY <3>2
    <3> HIDE DEF h
    <3> QED BY <2>2, <3>3
  <2>4. Is(G)
    <3>1. G = [k \in 0 .. n |-> G[k]]
      BY <2>2
    <3>2. \A k \in 0 .. n : G[k] = IF k = 0 THEN b ELSE Put(G[k - 1], nodes[k])
      <4> HIDE DEF b, n
      <4>1. \A k \in 0 .. n : k = 0 \/ k \in 1 .. n
        BY <1>1
      <4>2. \A k \in 1 .. n : k # 0
        OBVIOUS
      <4> QED BY <2>2, <2>3, <4>1, <4>2, Zenon
    <3> HIDE DEF b, n
    <3> QED BY <3>1, <3>2
  <2> HIDE DEF Is
  <2> QED BY <2>4, Zenon
<1>7. F[0] = b /\ \A k \in 1 .. n : F[k] = Put(F[k - 1], nodes[k])
  <2> HIDE DEF F, b, n
  <2> QED BY <1>1, <1>6
<1> HIDE DEF F, Is
<1> DEFINE T == {k \in 0 .. n : /\ F[k] \in Rooted /\ F[k].root = l.root /\ F[k].size = b.size
                              /\ F[k].scale <= b.scale + k
                              /\ NodesOf(F[k]) = named(k)}
<1>8. 0 \in T
  <2>1. 1 .. 0 = {} /\ 0 \in 0 .. n
    BY <1>1
  <2>2. named(0) = NodesOf(l)
    BY <1>4, <2>1
  <2>3. F[0].scale <= b.scale + 0
    <3> HIDE DEF b, n
    <3> QED BY <1>5, <1>7
  <2> HIDE DEF b, n, named
  <2> QED BY <1>5, <1>7, <2>1, <2>2, <2>3
<1>9. ASSUME NEW k \in 0 .. n - 1, k \in T PROVE k + 1 \in T
  <2> DEFINE x == F[k]
             y == F[k + 1]
             node == nodes[k + 1]
  <2>1. x \in Rooted /\ x.root = l.root /\ x.size = b.size /\ x.scale <= b.scale + k /\ NodesOf(x) = named(k)
    <3> HIDE DEF named, b, n
    <3> QED BY <1>9
  <2>2. k \in Nat /\ k + 1 \in 1 .. n /\ k + 1 \in 0 .. n /\ (k + 1) - 1 = k
    <3> HIDE DEF n
    <3> QED BY <1>1
  <2>3. y = Put(x, node) /\ node \in Mac
    <3> HIDE DEF n
    <3> QED BY <1>1, <1>7, <2>2
  <2>4. x.scale \in Nat
    BY <2>1, GoodIs DEF Rooted
  <2>5. {nodes[i] : i \in 1 .. k + 1} = {nodes[i] : i \in 1 .. k} \cup {node}
    BY <2>2
  <2> HIDE DEF x, y, node
  <2>6. /\ y \in Rooted /\ y.root = x.root /\ y.size = x.size /\ y.scale \in {x.scale, x.scale + 1}
        /\ NodesOf(y) = (NodesOf(x) \cup {node}) \ {x.root}
    BY <2>1, <2>3, PutGood, Zenon
  <2>7. NodesOf(y) = named(k + 1)
    <3> DEFINE A == {nodes[i] : i \in 1 .. k}
    <3>1. named(k) = (NodesOf(l) \cup A) \ {l.root} /\ named(k + 1) = (NodesOf(l) \cup (A \cup {node})) \ {l.root}
      BY <2>5
    <3> HIDE DEF A, named
    <3> QED BY <2>1, <2>6, <3>1
  <2>8. y.scale <= b.scale + (k + 1)
    <3> HIDE DEF b
    <3> QED BY <1>5, <2>1, <2>2, <2>4, <2>6
  <2> HIDE DEF named, b, n
  <2> QED BY <2>1, <2>2, <2>6, <2>7, <2>8 DEF y
<1>10. n \in T
  <2>1. 0 .. n \subseteq T
    <3> HIDE DEF T
    <3> QED BY <1>1, <1>8, <1>9, UpTo
  <2> HIDE DEF T
  <2> QED BY <1>1, <2>1
<1>11. /\ F[n] \in Rooted /\ F[n].root = l.root /\ F[n].size = b.size
       /\ F[n].scale <= b.scale + n
       /\ NodesOf(F[n]) = named(n)
  <2> HIDE DEF b, n, named
  <2> QED BY <1>10
<1>12. n <= Step => ~Behind(F[n])
  <2>1. F[n] \in Good /\ F[n].scale \in Nat
    BY <1>11, GoodIs DEF Rooted
  <2>2. Behind(F[n]) <=> F[n].scale > F[n].size + 1
    BY <2>1, GoodIs
  <2> HIDE DEF b, n
  <2> QED BY <1>1, <1>5, <1>11, <2>1, <2>2
<1> QED BY <1>3, <1>11, <1>12

\* The nodes of the options K.
\* The nodes of one option.
NodesIn(list) == {list[i] : i \in 1 .. Len(list)}
NamedBy(lists, K) == UNION {NodesIn(lists[i]) : i \in K}

\* One more option.
LEMMA NamedMore ==
  ASSUME NEW lists, NEW K, NEW j
  PROVE  NamedBy(lists, K \cup {j}) = NamedBy(lists, K) \cup NodesIn(lists[j])
BY DEF NamedBy

\* What the options up to k leave of l.
Adds(m, l, lists, fail, k) ==
  /\ m \in Rooted /\ m.root = l.root
  /\ ~Behind(m) => \E K \in SUBSET (1 .. k) :
       /\ fail = {} => K = 1 .. k
       /\ NodesOf(m) = (NodesOf(l) \cup NamedBy(lists, K)) \ {l.root}
  /\ (\A i \in 1 .. k : Len(lists[i]) <= Step) => ~Behind(m)

\* All calls for a packet.
LEMMA AddAllGood ==
  ASSUME NEW l \in Rooted, ~Behind(l), NEW lists \in Seq(Seq(Mac)), NEW fail
  PROVE  Adds(AddAll(l, lists, fail), l, lists, fail, Len(lists))
<1> DEFINE n == Len(lists)
           next(x, k) == IF Behind(x) \/ (k \in fail /\ Rest(x) < Len(lists[k])) THEN x
                         ELSE mesh_device_add(x, lists[k])
           Is(F) == F = [k \in 0 .. n |-> IF k = 0 THEN l
                           ELSE IF Behind(F[k - 1]) \/ (k \in fail /\ Rest(F[k - 1]) < Len(lists[k])) THEN F[k - 1]
                           ELSE mesh_device_add(F[k - 1], lists[k])]
           F == CHOOSE G : Is(G)
<1>1. n \in Nat /\ \A k \in 1 .. n : lists[k] \in Seq(Mac)
  BY ElementOfSeq
<1>2. AddAll(l, lists, fail) = F[n]
  BY Zenon DEF AddAll
<1>3. \A x \in Rooted : \A k \in 1 .. n : next(x, k) \in Rooted
  <2> SUFFICES ASSUME NEW x \in Rooted, NEW k \in 1 .. n PROVE next(x, k) \in Rooted
    BY Zenon
  <2>1. CASE Behind(x) \/ (k \in fail /\ Rest(x) < Len(lists[k]))
    BY <2>1, Zenon
  <2>2. CASE ~(Behind(x) \/ (k \in fail /\ Rest(x) < Len(lists[k])))
    <3>1. lists[k] \in Seq(Mac)
      BY <1>1, Zenon
    <3>2. mesh_device_add(x, lists[k]) \in Rooted
      BY <2>2, <3>1, AddGood, Zenon
    <3> QED BY <2>2, <3>2, Zenon
  <2> QED BY <2>1, <2>2
<1>4. Is(F)
  <2> DEFINE h == [p \in (1 .. n) \X Rooted |-> next(p[2], p[1])]
  <2>1. h \in [(1 .. n) \X Rooted -> Rooted]
    <3>1. ASSUME NEW p \in (1 .. n) \X Rooted PROVE next(p[2], p[1]) \in Rooted
      <4>1. p[1] \in 1 .. n /\ p[2] \in Rooted
        OBVIOUS
      <4> HIDE DEF next
      <4> QED BY <1>3, <4>1, Zenon
    <3> HIDE DEF n, next
    <3> QED BY <3>1
  <2>2. PICK G \in [0 .. n -> Rooted] : G[0] = l /\ \A i \in 1 .. n : G[i] = h[<<i, G[i - 1]>>]
    <3> HIDE DEF h, n, next
    <3>1. n \in Nat
      BY <1>1
    <3>3. h \in Steps(n, Rooted)
      BY <2>1, Zenon DEF Steps
    <3>4. \E G : Recurs(G, Rooted, n, l, h)
      BY <3>1, <3>3, Recursion, Zenon
    <3> QED BY <3>4, Zenon DEF Recurs
  <2>3. ASSUME NEW i \in 1 .. n PROVE G[i] = next(G[i - 1], i)
    <3> HIDE DEF n, next
    <3>1. i - 1 \in 0 .. n
      BY <1>1
    <3>2. <<i, G[i - 1]>> \in (1 .. n) \X Rooted
      BY <3>1
    <3>3. h[<<i, G[i - 1]>>] = next(G[i - 1], i)
      BY <3>2
    <3> HIDE DEF h
    <3> QED BY <2>2, <3>3
  <2>4. Is(G)
    <3>1. G = [k \in 0 .. n |-> G[k]]
      BY <2>2
    <3>2. \A k \in 0 .. n : G[k] = IF k = 0 THEN l ELSE next(G[k - 1], k)
      <4> HIDE DEF n, next
      <4>1. \A k \in 0 .. n : k = 0 \/ k \in 1 .. n
        BY <1>1
      <4>2. \A k \in 1 .. n : k # 0
        OBVIOUS
      <4> QED BY <2>2, <2>3, <4>1, <4>2, Zenon
    <3>3. G = [k \in 0 .. n |-> IF k = 0 THEN l ELSE next(G[k - 1], k)]
      <4> HIDE DEF n, next
      <4> QED BY <3>1, <3>2
    <3> QED BY <3>3, Zenon
  <2> HIDE DEF Is
  <2> QED BY <2>4, Zenon
<1>5. F[0] = l /\ \A k \in 1 .. n : F[k] = next(F[k - 1], k)
  <2>1. F = [k \in 0 .. n |-> IF k = 0 THEN l ELSE next(F[k - 1], k)]
    BY <1>4, Zenon
  <2> HIDE DEF F, n, next
  <2> QED BY <1>1, <2>1
<1> HIDE DEF F, Is
<1> DEFINE T == {k \in 0 .. n : Adds(F[k], l, lists, fail, k)}
<1>6. 0 \in T
  <2>1. 1 .. 0 = {} /\ 0 \in 0 .. n /\ NamedBy(lists, {}) = {}
    BY <1>1 DEF NamedBy
  <2>2. l.root \notin NodesOf(l)
    BY GoodIs, Zenon DEF NeverRoot, NodesOf, Rooted
  <2>3. NodesOf(l) = (NodesOf(l) \cup NamedBy(lists, {})) \ {l.root}
    BY <2>1, <2>2
  <2>4. {} \in SUBSET (1 .. 0)
    OBVIOUS
  <2>5. Adds(l, l, lists, fail, 0)
    BY <2>1, <2>3, <2>4, Zenon DEF Adds
  <2> HIDE DEF n
  <2> QED BY <1>5, <2>1, <2>5
<1>7. ASSUME NEW k \in 0 .. n - 1, k \in T PROVE k + 1 \in T
  <2> DEFINE x == F[k]
             y == F[k + 1]
             j == k + 1
  <2>1. j \in 1 .. n /\ j \in 0 .. n /\ j - 1 = k /\ \A i \in 1 .. k : i \in 1 .. j
    <3> HIDE DEF n
    <3> QED BY <1>1
  <2>2. Adds(x, l, lists, fail, k)
    <3> HIDE DEF n
    <3> QED BY <1>7
  <2>3. y = next(x, j)
    <3>1. F[j] = next(F[j - 1], j)
      <4> HIDE DEF n, next, j
      <4> QED BY <1>5, <2>1
    <3> HIDE DEF next
    <3> QED BY <2>1, <3>1
  <2>4. lists[j] \in Seq(Mac)
    <3> HIDE DEF n, j
    <3> QED BY <1>1, <2>1
  <2>5. \A K \in SUBSET (1 .. k) : K \in SUBSET (1 .. j)
    <3> HIDE DEF j
    <3> QED BY <2>1
  <2>6. j \in 1 .. j /\ 1 .. j = (1 .. k) \cup {j}
    OBVIOUS
  <2>7. Len(lists[j]) \in Nat
    BY <2>4
  <2>8. y \in Rooted /\ y.root = l.root
    <3>1. x \in Rooted /\ x.root = l.root
      BY <2>2, Zenon DEF Adds
    <3>2. CASE Behind(x) \/ (j \in fail /\ Rest(x) < Len(lists[j]))
      <4>1. y = x
        BY <2>3, <3>2, Zenon
      <4> HIDE DEF x, y, next
      <4> QED BY <3>1, <4>1
    <3>3. CASE ~(Behind(x) \/ (j \in fail /\ Rest(x) < Len(lists[j])))
      <4>1. y = mesh_device_add(x, lists[j])
        BY <2>3, <3>3, Zenon
      <4> HIDE DEF x, y, next, j
      <4> QED BY <2>4, <3>1, <3>3, <4>1, AddGood, Zenon
    <3> QED BY <3>2, <3>3
  <2>9. CASE Behind(x)
    <3>1. y = x
      BY <2>3, <2>9, Zenon
    <3>2. ~(\A i \in 1 .. k : Len(lists[i]) <= Step)
      BY <2>2, <2>9, Zenon DEF Adds
    <3>3. Adds(y, l, lists, fail, j)
      <4> HIDE DEF x, y, next, j
      <4> QED BY <2>1, <2>8, <2>9, <3>1, <3>2, Zenon DEF Adds
    <3> HIDE DEF n, x, j
    <3> QED BY <2>1, <3>3 DEF j
  <2>10. CASE ~Behind(x)
    <3>1. PICK K \in SUBSET (1 .. k) :
             /\ fail = {} => K = 1 .. k
             /\ NodesOf(x) = (NodesOf(l) \cup NamedBy(lists, K)) \ {l.root}
      BY <2>2, <2>10, Zenon DEF Adds
    <3>2. CASE j \in fail /\ Rest(x) < Len(lists[j])
      <4>1. y = x /\ fail # {}
        BY <2>3, <3>2, Zenon
      <4>2. Adds(y, l, lists, fail, j)
        <5>1. K \in SUBSET (1 .. j)
          BY <2>5, Zenon
        <5> HIDE DEF x, y, next, j
        <5> QED BY <2>8, <2>10, <3>1, <4>1, <5>1, Zenon DEF Adds
      <4> HIDE DEF n, x, j
      <4> QED BY <2>1, <4>2 DEF j
    <3>3. CASE ~(j \in fail /\ Rest(x) < Len(lists[j]))
      <4> DEFINE A == NodesIn(lists[j])
                 L == K \cup {j}
      <4>1. y = mesh_device_add(x, lists[j])
        BY <2>3, <2>10, <3>3, Zenon
      <4>2. x \in Rooted /\ x.root = l.root
        BY <2>2, Zenon DEF Adds
      <4>3. /\ NodesOf(y) = (NodesOf(x) \cup A) \ {l.root}
            /\ Len(lists[j]) <= Step => ~Behind(y)
        <5> HIDE DEF x, y, next, j
        <5>1. /\ NodesOf(y) = (NodesOf(x) \cup A) \ {x.root}
              /\ Len(lists[j]) <= Step => ~Behind(y)
          BY <2>4, <2>10, <4>1, <4>2, AddGood, Zenon DEF NodesIn, A
        <5> QED BY <4>2, <5>1, Zenon
      <4>4. NamedBy(lists, L) = NamedBy(lists, K) \cup A
        <5> HIDE DEF j
        <5> QED BY NamedMore, Zenon
      <4>5. L \in SUBSET (1 .. j) /\ (fail = {} => L = 1 .. j)
        <5> HIDE DEF j
        <5> QED BY <2>5, <2>6, <3>1
      <4>6. NodesOf(y) = (NodesOf(l) \cup NamedBy(lists, L)) \ {l.root}
        <5> HIDE DEF x, y, next, j, A, L
        <5> QED BY <3>1, <4>3, <4>4
      <4>7. (\A i \in 1 .. j : Len(lists[i]) <= Step) => ~Behind(y)
        <5> HIDE DEF x, y, next, j
        <5> QED BY <2>6, <4>3, Zenon
      <4>8. Adds(y, l, lists, fail, j)
        <5> HIDE DEF x, y, next, j, L
        <5> QED BY <2>8, <4>5, <4>6, <4>7, Zenon DEF Adds
      <4> HIDE DEF n, x, j
      <4> QED BY <2>1, <4>8 DEF j
    <3> QED BY <3>2, <3>3
  <2> QED BY <2>9, <2>10
<1>8. n \in T
  <2>1. 0 .. n \subseteq T
    <3> HIDE DEF T
    <3> QED BY <1>1, <1>6, <1>7, UpTo
  <2> HIDE DEF T
  <2> QED BY <1>1, <2>1
<1>9. Adds(F[n], l, lists, fail, n)
  <2> HIDE DEF n
  <2> QED BY <1>8
<1> QED BY <1>2, <1>9

\* The invariant: what every list is, and that this one was never written behind its memory.
MeshInv == g \in Good /\ ~Behind(g) /\ short \in BOOLEAN

\* What one packet leaves, whichever of its calls find no memory.
LEMMA Handled ==
  ASSUME g \in Good, ~Behind(g), NEW p \in Packets, NEW fail,
         NEW m, m = AddAll(mesh_device_set_root(g, p.root), p.lists, fail)
  PROVE  /\ m \in Rooted /\ m.root = p.root
         /\ ~Behind(m) => \E K \in SUBSET DOMAIN p.lists :
              /\ fail = {} => K = DOMAIN p.lists
              /\ NodesOf(m) = ((IF p.root = g.root THEN NodesOf(g) ELSE {}) \cup NamedBy(p.lists, K)) \ {p.root}
         /\ p \in SmallPackets => ~Behind(m)
<1> DEFINE l == mesh_device_set_root(g, p.root)
<1>1. p.root \in Addr /\ p.lists \in Seq(Seq(Mac)) /\ DOMAIN p.lists = 1 .. Len(p.lists)
  <2>1. p.root \in Addr /\ p.lists \in Seq(Seq(Mac))
    BY PacketTyped, Zenon
  <2> QED BY <2>1
<1>2. l \in Rooted /\ ~Behind(l) /\ l.root = p.root
      /\ NodesOf(l) = IF p.root = g.root THEN NodesOf(g) ELSE {}
  BY <1>1, SetRoot
<1> HIDE DEF l
<1>3. Adds(m, l, p.lists, fail, Len(p.lists))
  <2>1. m = AddAll(l, p.lists, fail)
    BY Zenon DEF l
  <2> QED BY <1>1, <1>2, <2>1, AddAllGood, Zenon
<1>4. m \in Rooted /\ m.root = p.root
  BY <1>2, <1>3, Zenon DEF Adds
<1>5. ASSUME ~Behind(m)
      PROVE  \E K \in SUBSET DOMAIN p.lists :
               /\ fail = {} => K = DOMAIN p.lists
               /\ NodesOf(m) = ((IF p.root = g.root THEN NodesOf(g) ELSE {}) \cup NamedBy(p.lists, K)) \ {p.root}
  <2>1. PICK K \in SUBSET (1 .. Len(p.lists)) :
           /\ fail = {} => K = 1 .. Len(p.lists)
           /\ NodesOf(m) = (NodesOf(l) \cup NamedBy(p.lists, K)) \ {l.root}
    BY <1>3, <1>5, Zenon DEF Adds
  <2>2. NodesOf(m) = ((IF p.root = g.root THEN NodesOf(g) ELSE {}) \cup NamedBy(p.lists, K)) \ {p.root}
    BY <1>2, <2>1, Zenon
  <2> QED BY <1>1, <2>1, <2>2, Zenon
<1>6. ASSUME p \in SmallPackets PROVE ~Behind(m)
  <2>1. \A k \in 1 .. Len(p.lists) : Len(p.lists[k]) <= Step
    BY <1>1, <1>6, Zenon DEF SmallPackets
  <2> QED BY <1>3, <2>1, Zenon DEF Adds
<1> QED BY <1>4, <1>5, <1>6

\* The invariant holds at the start,
LEMMA InitMesh == MeshInit => MeshInv
BY EmptyGood, Zenon DEF MeshInit, MeshInv

\* is kept by a packet,
LEMMA PacketMesh ==
  ASSUME MeshInv, NEW p \in Packets, mesh_none_proto_parser(p)
  PROVE  MeshInv'
<1>1. PICK fail \in SUBSET DOMAIN p.lists :
        LET after == AddAll(mesh_device_set_root(g, p.root), p.lists, fail)
        IN /\ ~beyond
           /\ beyond' = Behind(after)
           /\ IF Behind(after) THEN UNCHANGED <<g, short>>
              ELSE g' = after /\ short' = (fail # {})
  BY Zenon DEF mesh_none_proto_parser
<1> DEFINE m == AddAll(mesh_device_set_root(g, p.root), p.lists, fail)
<1>2. m \in Rooted
  BY Handled, Zenon DEF MeshInv
<1> HIDE DEF m
<1>3. CASE Behind(m)
  <2>1. g' = g /\ short' = short
    BY <1>1, <1>3, Zenon DEF m
  <2> QED BY <2>1, Zenon DEF MeshInv, Behind
<1>4. CASE ~Behind(m)
  <2>1. g' = m /\ short' = (fail # {})
    BY <1>1, <1>4, Zenon DEF m
  <2>2. short' \in BOOLEAN
    BY <2>1
  <2>3. g' \in Good /\ ~Behind(g')
    BY <1>2, <1>4, <2>1, Zenon DEF Rooted
  <2> QED BY <2>2, <2>3, Zenon DEF MeshInv, Behind
<1> QED BY <1>3, <1>4

\* and by every step.
LEMMA StepMesh == MeshInv /\ [MeshNext]_listVars => MeshInv'
<1>1. MeshInv /\ MeshNext => MeshInv'
  BY PacketMesh, Zenon DEF MeshNext
<1>2. MeshInv /\ UNCHANGED listVars => MeshInv'
  BY Zenon DEF listVars, MeshInv, Behind
<1> QED BY <1>1, <1>2

LEMMA MeshKept == MeshSpec => []MeshInv
BY InitMesh, StepMesh, PTL DEF MeshSpec

\* Through every growth, and however often packets repeat a node or name the root, the
\* list holds each node once, never the root, and within its memory
\* (mesh_device.c:51-72, 192-215).
THEOREM MeshListsEachOnce == MeshSpec => []ListsEachOnce
<1>1. MeshInv => ListsEachOnce
  <2> SUFFICES ASSUME MeshInv PROVE ListsEachOnce
    OBVIOUS
  <2>1. g \in Good /\ ~Behind(g)
    BY DEF MeshInv
  <2>2. /\ g.size \in Nat /\ g.scale \in Nat /\ LongAsSaid(g) /\ EachOnce(g) /\ NeverRoot(g)
        /\ (Behind(g) <=> g.scale > g.size + 1)
    BY <2>1, GoodIs, Zenon
  <2>3. g.scale <= g.size + 1
    BY <2>1, <2>2
  <2>4. Len(g.list) = g.size
    BY <2>2, <2>3, Zenon DEF LongAsSaid
  <2>5. g.root \notin Known
    BY <2>2, Zenon DEF NeverRoot, Known
  <2> QED BY <2>2, <2>3, <2>4, <2>5, Zenon DEF EachOnce, ListsEachOnce
<1> QED BY <1>1, MeshKept, PTL

\* Each packet is a report of the abstract mesh: the nodes of its root are those named
\* so far by packets of this root, but for whole options that found no memory
\* (mesh_device.c:117-219, mesh_none.c:53-60).
THEOREM MeshNamesTheMesh == MeshSpec => NamesTheMesh
<1>1. MeshInit => Nodes!Init
  <2>1. Known = NodesOf(g)
    BY Zenon DEF Known, NodesOf
  <2> QED BY <2>1, EmptyGood, Zenon DEF MeshInit, Nodes!Init
<1>2. ASSUME MeshInv, MeshInv', NEW p \in Packets, mesh_none_proto_parser(p)
      PROVE  Nodes!Report(p) \/ UNCHANGED <<g.root, Known, short>>
  <2>1. PICK fail \in SUBSET DOMAIN p.lists :
          LET after == AddAll(mesh_device_set_root(g, p.root), p.lists, fail)
          IN /\ ~beyond
             /\ beyond' = Behind(after)
             /\ IF Behind(after) THEN UNCHANGED <<g, short>>
                ELSE g' = after /\ short' = (fail # {})
    BY <1>2, Zenon DEF mesh_none_proto_parser
  <2> DEFINE m == AddAll(mesh_device_set_root(g, p.root), p.lists, fail)
  <2>2. /\ m \in Rooted /\ m.root = p.root
        /\ ~Behind(m) => \E K \in SUBSET DOMAIN p.lists :
             /\ fail = {} => K = DOMAIN p.lists
             /\ NodesOf(m) = ((IF p.root = g.root THEN NodesOf(g) ELSE {}) \cup NamedBy(p.lists, K)) \ {p.root}
    <3>1. g \in Good /\ ~Behind(g)
      BY <1>2 DEF MeshInv
    <3> QED BY <3>1, Handled, ZenonT(40)
  <2> HIDE DEF m
  <2>3. CASE Behind(m)
    <3>1. g' = g /\ short' = short
      BY <2>1, <2>3, Zenon DEF m
    <3> QED BY <3>1, Zenon DEF Known
  <2>4. CASE ~Behind(m)
    <3>1. g' = m /\ short' = (fail # {})
      BY <2>1, <2>4, Zenon DEF m
    <3>2. PICK K \in SUBSET DOMAIN p.lists :
             /\ fail = {} => K = DOMAIN p.lists
             /\ NodesOf(m) = ((IF p.root = g.root THEN NodesOf(g) ELSE {}) \cup NamedBy(p.lists, K)) \ {p.root}
      BY <2>2, <2>4, Zenon
    <3>3. Known' = NodesOf(m) /\ Known = NodesOf(g)
      BY <3>1, Zenon DEF Known, NodesOf
    <3>4. Nodes!Named(p.lists, K) = NamedBy(p.lists, K)
      <4>1. p.lists \in Seq(Seq(Mac))
        BY PacketTyped, Zenon
      <4>2. \A k \in K : p.lists[k] \in Seq(Mac)
        BY <4>1
      <4>3. \A k \in K : Nodes!Range(p.lists[k]) = NodesIn(p.lists[k])
        BY <4>2 DEF Nodes!Range, NodesIn
      <4> QED BY <4>3, Zenon DEF Nodes!Named, NamedBy
    <3>5. g'.root = p.root /\ (~short' => K = DOMAIN p.lists) /\ short' \in BOOLEAN
      BY <1>2, <2>2, <3>1, <3>2 DEF MeshInv
    <3>6. Nodes!Report(p)
      BY <3>2, <3>3, <3>4, <3>5, Zenon DEF Nodes!Report
    <3> QED BY <3>6
  <2> QED BY <2>3, <2>4
<1>3. MeshInv /\ MeshInv' /\ [MeshNext]_listVars => [Nodes!Next]_<<g.root, Known, short>>
  <2>1. MeshInv /\ MeshInv' /\ MeshNext => Nodes!Next \/ UNCHANGED <<g.root, Known, short>>
    BY <1>2, Zenon DEF MeshNext, Nodes!Next
  <2>2. UNCHANGED listVars => UNCHANGED <<g.root, Known, short>>
    BY Zenon DEF listVars, Known
  <2> QED BY <2>1, <2>2
<1> QED BY <1>1, <1>3, MeshKept, PTL DEF MeshSpec, NamesTheMesh, Nodes!Spec

\* A packet whose options name at most Step nodes each never writes behind the list,
\* however full the list is and whichever of its calls find no memory
\* (mesh_device.c:192).
THEOREM MeshGrowsEnough == MeshSpec => GrowsEnough
<1>1. ASSUME MeshInv, NEW p \in SmallPackets, mesh_none_proto_parser(p) PROVE ~beyond'
  <2>1. PICK fail \in SUBSET DOMAIN p.lists :
          LET after == AddAll(mesh_device_set_root(g, p.root), p.lists, fail)
          IN /\ ~beyond
             /\ beyond' = Behind(after)
             /\ IF Behind(after) THEN UNCHANGED <<g, short>>
                ELSE g' = after /\ short' = (fail # {})
    BY <1>1, Zenon DEF mesh_none_proto_parser
  <2>2. p \in Packets /\ g \in Good /\ ~Behind(g)
    BY <1>1 DEF SmallPackets, MeshInv
  <2>3. ~Behind(AddAll(mesh_device_set_root(g, p.root), p.lists, fail))
    BY <2>2, Handled, Zenon
  <2> QED BY <2>1, <2>3, Zenon
<1>2. MeshInv /\ [MeshNext]_listVars => [beyond' => \A p \in SmallPackets : ~mesh_none_proto_parser(p)]_listVars
  BY <1>1, Zenon
<1> QED BY <1>2, MeshKept, PTL DEF MeshSpec, GrowsEnough
=============================================================================
