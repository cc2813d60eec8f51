----------------------------- MODULE WebServer -----------------------------
(***************************************************************************)
(* user/user_webserver.c: requests over HTTP read and set the device's     *)
(* configuration.  A new Wi-Fi setting and a reboot are put off for 10 ms  *)
(* in four pointers and one timer that every connection shares.            *)
(*                                                                         *)
(* A segment of the connection is a record.  A head may bring the whole    *)
(* body or none, and a part of it counts as none; a segment without a head *)
(* is the rest of a body.  Lengths are 0, 1, or 2 for a body that makes    *)
(* the request 1024 bytes or longer; NoLength stands for an absent         *)
(* Content-Length.  Data is what a body sets, in JSON as the code expects. *)
(* The names of networks have at most 32 characters and the password of    *)
(* the access point fewer, as many as softAp_pass holds before comMode.    *)
(* Contents of answers are left out, with the status that GET reports.     *)
(***************************************************************************)
EXTENDS ComMode, Sequences

NoLength == -1
Fits == 1
Nothing == [sta |-> NoName, ap |-> FALSE, enable |-> "absent"]

Heads == {"GET", "POST"}

\* precvbuffer is NULL.  A URL_Frame of zeros is a GET of nothing.
NoBuffer == [type |-> "GET", file |-> "", data |-> Nothing]

\* What a POST to a file of the configuration may set.
DataOf(file) ==
  IF file = "wifi" THEN [sta : Ssids \cup {NoName}, ap : BOOLEAN, enable : {"absent"}]
  ELSE IF file = "mesh" THEN [sta : {NoName}, ap : {FALSE}, enable : {"absent", "0", "1"}]
  ELSE {Nothing}

Gets == {[type |-> "GET", file |-> f, clen |-> NoLength, body |-> 0, data |-> Nothing] :
           f \in {"status", "wifi"}}

Posts == UNION {{[type |-> "POST", file |-> f, clen |-> c, body |-> b, data |-> d] :
                   c \in NoLength .. 2, b \in 0 .. 2, d \in DataOf(f)} :
                f \in {"wifi", "mesh", "mqtt", "reboot"}}

Rests == {[type |-> "rest", file |-> "", clen |-> NoLength, body |-> 1, data |-> Nothing]}

\* A head comes alone or with the whole body, which alone can be understood.
Segments == Gets \cup Rests \cup
            {s \in Posts : /\ s.body \in {0, IF s.clen = NoLength THEN 1 ELSE s.clen}
                           /\ s.data # Nothing => s.body = s.clen /\ s.body > 0}

VARIABLES
  test_timer,         \* armed: polls for an address
  listening,
  local_ip,           \* where the first address came from: "none", "sta", "ap"
  totallength, dat_sumlength, precvbuffer,
  sta_conf,           \* "NULL", or the name in it: NoName when zeroed
  ap_conf,            \* "NULL", "zero" or "named"
  rstparm,            \* "NULL", "WIFI" or "REBOOT"
  restart_10ms,       \* "NULL", "idle" or "armed"
  posted,             \* auxiliary: the setting put off, while no request disturbs it
  torn,               \* auxiliary: the head of a torn request stands
  misanswered         \* auxiliary: a whole request got no answer, or two

recvVars == <<totallength, dat_sumlength, precvbuffer>>
lateVars == <<sta_conf, ap_conf, rstparm, restart_10ms, posted>>
serverVars == <<test_timer, listening, local_ip>>
webVars == <<serverVars, recvVars, lateVars, torn, misanswered>>

WebTypeOK ==
  /\ {test_timer, listening, torn, misanswered} \subseteq BOOLEAN
  /\ local_ip \in {"none", "sta", "ap"}
  /\ totallength \in 0 .. 2 /\ dat_sumlength \in 0 .. 2 /\ precvbuffer = NoBuffer
  /\ sta_conf \in {"NULL", NoName} \cup Names /\ ap_conf \in {"NULL", "zero", "named"}
  /\ rstparm \in {"NULL", "WIFI", "REBOOT"} /\ restart_10ms \in {"NULL", "idle", "armed"}
  /\ posted \in {NoName} \cup Ssids

WebInit ==
  /\ test_timer = TRUE /\ listening = FALSE /\ local_ip = "none"
  /\ totallength = 0 /\ dat_sumlength = 0 /\ precvbuffer = NoBuffer
  /\ sta_conf = "NULL" /\ ap_conf = "NULL" /\ rstparm = "NULL" /\ restart_10ms = "NULL"
  /\ posted = NoName
  /\ torn = FALSE /\ misanswered = FALSE

WebRestart ==
  /\ test_timer' = TRUE /\ listening' = FALSE /\ local_ip' = "none"
  /\ totallength' = 0 /\ dat_sumlength' = 0 /\ precvbuffer' = NoBuffer
  /\ sta_conf' = "NULL" /\ ap_conf' = "NULL" /\ rstparm' = "NULL" /\ restart_10ms' = "NULL"
  /\ posted' = NoName
  /\ torn' = FALSE /\ UNCHANGED misanswered

\* Without an address the timer is armed again, and nothing changes.
user_esp_platform_check_ip ==
  /\ test_timer /\ HasAddress
  /\ test_timer' = FALSE
  /\ listening' = TRUE
  /\ local_ip' = IF link = "up" THEN "sta" ELSE "ap"
  /\ UNCHANGED <<modeVars, recvVars, lateVars, torn, misanswered>>

-----------------------------------------------------------------------------
\* webserver_recv: from a segment to a request.

\* It leaves Content-Length in dat_sumlength whatever it answers.
check_data(seg) == seg.type \in Heads /\ seg.clen # NoLength => seg.body = seg.clen

\* Variant: the length of a whole request is not reset.
CollectedKept(total, sum, buffer) ==
  [whole |-> total = sum, buffer |-> buffer,
   total |-> IF total = sum THEN 0 ELSE total, sum |-> sum]

Collected(total, sum, buffer) ==
  [whole |-> total = sum, buffer |-> buffer,
   total |-> IF total = sum THEN 0 ELSE total, sum |-> IF total = sum THEN 0 ELSE sum]

Refused == [whole |-> FALSE, buffer |-> precvbuffer, total |-> 0, sum |-> 0]

\* Of a request too long for the buffer only the head is copied.
Copy(seg, sum) == [type |-> seg.type, file |-> seg.file,
                   data |-> IF sum <= Fits THEN seg.data ELSE Nothing]

save_data(seg) ==
  LET total == totallength + seg.body
      sum == IF seg.clen = NoLength THEN dat_sumlength ELSE seg.clen
  IN  IF seg.type \in Heads
      THEN IF seg.clen = NoLength /\ total # 0 THEN Refused
           ELSE Collected(total, sum, Copy(seg, sum))
      ELSE IF precvbuffer = NoBuffer THEN Refused
           ELSE Collected(total, sum, precvbuffer)

\* response_send(false) when the request is not whole; then parse_url and the
\* switch answer it all the same.
Answers(got) == IF got.whole THEN 1 ELSE 2

\* Auxiliary: one segment is all of the request.
Whole(seg) == /\ seg.type \in Heads
              /\ IF seg.clen = NoLength THEN seg.body = 0 ELSE seg.body = seg.clen

Collect(seg, got) ==
  /\ totallength' = got.total /\ dat_sumlength' = got.sum /\ precvbuffer' = NoBuffer
  /\ torn' = (torn /\ seg.type # "rest" /\ seg.clen = NoLength /\ seg.body = 0)
  /\ misanswered' = (misanswered \/ (~torn /\ Whole(seg) /\ Answers(got) # 1))

\* The segment is dropped, and no answer is sent.
Drop(seg) ==
  /\ dat_sumlength' = seg.clen
  /\ torn' = TRUE
  /\ misanswered' = (misanswered \/ (~torn /\ Whole(seg)))
  /\ UNCHANGED <<modeVars, serverVars, totallength, precvbuffer, lateVars>>

-----------------------------------------------------------------------------
\* webserver_recv: the requests.

IsGet(r, file) == r.type = "GET" /\ r.file = file
IsPost(r, file) == r.type = "POST" /\ r.file = file

\* The reply is built in the structures of a setting that is put off.
GetWifi(r) ==
  /\ IsGet(r, "wifi")
  /\ sta_conf' = "NULL" /\ ap_conf' = "NULL"
  /\ posted' = NoName
  /\ UNCHANGED <<modeVars, rstparm, restart_10ms>>

PostReboot(r) ==
  /\ IsPost(r, "reboot")
  /\ rstparm' = "REBOOT"
  /\ restart_10ms' = "armed"
  /\ posted' = NoName
  /\ UNCHANGED <<modeVars, sta_conf, ap_conf>>

wifi_station_set(r) ==
  LET old == IF sta_conf = "NULL" THEN NoName ELSE sta_conf
  IN  IF r.data.sta = NoName THEN old ELSE Overlay(old, r.data.sta)

wifi_softap_set(r) == IF r.data.ap \/ ap_conf = "named" THEN "named" ELSE "zero"

PutOff(r) ==
  /\ sta_conf' = wifi_station_set(r)
  /\ ap_conf' = wifi_softap_set(r)
  /\ rstparm' = "WIFI"
  /\ restart_10ms' = "armed"
  /\ posted' = IF sta_conf = "NULL" THEN r.data.sta ELSE NoName

\* The timer is disarmed and stays allocated.
Forget ==
  /\ sta_conf' = "NULL" /\ ap_conf' = "NULL" /\ rstparm' = "NULL"
  /\ restart_10ms' = IF restart_10ms = "NULL" THEN "NULL" ELSE "idle"
  /\ posted' = NoName

PostWifi(r) ==
  /\ IsPost(r, "wifi")
  /\ IF wifi_station_set(r) # NoName \/ wifi_softap_set(r) = "named" THEN PutOff(r) ELSE Forget
  /\ UNCHANGED modeVars

mesh_config_set(r) ==
  /\ isMeshEnable' = IF r.data.enable = "absent" THEN isMeshEnable ELSE r.data.enable = "1"
  /\ IF isMeshEnable'
     THEN /\ pollers + 1 < MaxPollers
          /\ user_set_com_mode(1, sta_ssid, link)
          /\ UNCHANGED <<comMode, sta_ssid, esptouch_running, router, mesh, meshRefused>>
     ELSE UNCHANGED <<comMode, sta_ssid, radio, esptouch_running, pollers, meshVars>>

PostMesh(r) ==
  /\ IsPost(r, "mesh")
  /\ mesh_config_set(r)
  /\ UNCHANGED <<lateVars>>

\* What else is asked or set is not part of this state; new MQTT settings reach
\* the client as MqttClient!ChangeSettings.
OtherRequest(r) ==
  /\ ~IsGet(r, "wifi") /\ ~(r.type = "POST" /\ r.file \in {"reboot", "wifi", "mesh"})
  /\ UNCHANGED <<modeVars, lateVars>>

Serve(r) == GetWifi(r) \/ PostReboot(r) \/ PostWifi(r) \/ PostMesh(r) \/ OtherRequest(r)

webserver_recv(seg) ==
  /\ listening /\ HasAddress
  /\ \/ ~check_data(seg) /\ Drop(seg)
     \/ /\ check_data(seg)
        /\ \E got \in {save_data(seg)} : Serve(got.buffer) /\ Collect(seg, got)
        /\ UNCHANGED serverVars

-----------------------------------------------------------------------------
\* restart_10ms_cb, 10 ms after the request

Named(conf, zero) == IF conf = zero THEN 0 ELSE 1

\* Variant: the mode is put into force before the setting is saved.
ApplyWifiTooSoon ==
  LET times == Named(sta_conf, NoName) + Named(ap_conf, "zero")
  IN  /\ restart_10ms = "armed" /\ rstparm = "WIFI" /\ sta_conf # "NULL"
      /\ pollers + times < MaxPollers
      /\ IF sta_conf = NoName THEN UNCHANGED sta_ssid ELSE CFG_saveStaCfg(sta_conf)
      /\ user_set_com_mode(times, sta_ssid, link)
      /\ sta_conf' = "NULL" /\ ap_conf' = "NULL" /\ rstparm' = "NULL" /\ restart_10ms' = "NULL"
      /\ posted' = NoName
      /\ UNCHANGED <<comMode, isMeshEnable, esptouch_running, router, mesh, meshRefused,
                     serverVars, recvVars, torn, misanswered>>

\* A GET of the Wi-Fi settings frees what the callback reads: then there is no
\* such step, for the read through NULL starts the device anew.
ApplyWifi ==
  LET times == Named(sta_conf, NoName) + Named(ap_conf, "zero")
  IN  /\ restart_10ms = "armed" /\ rstparm = "WIFI" /\ sta_conf # "NULL"
      /\ pollers + times < MaxPollers
      /\ IF sta_conf = NoName THEN UNCHANGED sta_ssid ELSE CFG_saveStaCfg(sta_conf)
      /\ user_set_com_mode(times, sta_ssid', link)
      /\ sta_conf' = "NULL" /\ ap_conf' = "NULL" /\ rstparm' = "NULL" /\ restart_10ms' = "NULL"
      /\ posted' = NoName
      /\ UNCHANGED <<comMode, isMeshEnable, esptouch_running, router, mesh, meshRefused,
                     serverVars, recvVars, torn, misanswered>>

\* A reboot sets the Wi-Fi mode once the connection is closed; until then the timer
\* is armed again.
ApplyReboot ==
  /\ restart_10ms = "armed" /\ rstparm = "REBOOT"
  /\ opmode' = "STA"
  /\ restart_10ms' = "idle"
  /\ UNCHANGED <<stored, station, link, esptouch_running, pollers, meshVars, serverVars, recvVars,
                 sta_conf, ap_conf, rstparm, posted, torn, misanswered>>

WebNext == \/ user_esp_platform_check_ip
           \/ \E seg \in Segments : webserver_recv(seg)
           \/ ApplyWifi
           \/ ApplyReboot
=============================================================================
