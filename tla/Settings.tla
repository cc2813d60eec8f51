------------------------------ MODULE Settings ------------------------------
(***************************************************************************)
(* The settings of the web server (user/user_webserver.c) from the text of *)
(* a request to flash and to the MQTT client, and back to the text of an   *)
(* answer.  modules/config.c stores them, see ConfigStore; the client      *)
(* keeps copies of its own (mqtt/mqtt.c), made anew after a change.        *)
(*                                                                         *)
(* SYSCFG is its bytes in memory, one array behind the other.  sprintf     *)
(* does not know where an array ends: a text that is too long for its own  *)
(* goes on into the settings behind it, and one without a closing NUL is   *)
(* read on into them.  A text is a sequence of character codes without the *)
(* closing NUL; a number fits an int.  Handlers run to completion, but for *)
(* a power failure.                                                        *)
(***************************************************************************)
EXTENDS ConfigStore, Sequences

CONSTANTS At, Size,       \* where in SYSCFG a setting's array begins, and its length
          End,            \* the first byte of deviceData: zero, and never written
          Limit,          \* the longest text that jsonparse_copy_value takes, 63
          Shown,          \* the buffer of an answer of the device or the mesh, 20
          ChipId,         \* the characters "_%08X" makes of the chip's number
          Requests,       \* what POST requests set, in the order of the text
          Networks,       \* what sprintf makes of the name and password of a network
          Passwords,      \* and of the password of the softAP
          NoClient,       \* the client is not initialised
          NoPeer,         \* the client has not tried to connect
          Unknown         \* no setting was acknowledged

MqttFields == {"host", "port", "user", "pass", "security"}
DeviceFields == {"type", "name", "mac"}
MeshFields == {"meshId", "meshSSID", "meshPasswd", "enable", "server_host", "server_port"}
Web == MqttFields \cup DeviceFields \cup MeshFields

Texts == {"host", "user", "pass", "meshSSID", "meshPasswd", "server_host"} \cup DeviceFields
Ports == {"port", "server_port"}
Field == Web \cup {"sta_ssid", "sta_pwd", "ap"}

-----------------------------------------------------------------------------
\* Between texts and values.

Char == 1 .. 255
isNumericChar(c) == c \in 48 .. 57
Zero == 48
Dot == 46
Colon == 58
Minus == 45

\* The number that digits make up, 0 without any.
Value(t) ==
  LET res[i \in 0 .. Len(t)] == IF i = 0 THEN 0 ELSE (res[i - 1] * 10) + t[i] - Zero
  IN  res[Len(t)]

\* An empty text and one with another character read as -1.
Atoi(t) == IF t = <<>> \/ \E i \in DOMAIN t : ~isNumericChar(t[i]) THEN -1 ELSE Value(t)

\* Of any other character the lower four bits are taken.
Nibble(c) == IF isNumericChar(c) THEN c - Zero
             ELSE IF c \in 97 .. 102 THEN c - 87
             ELSE IF c \in 65 .. 70 THEN c - 55
             ELSE c % 16

\* hex2int of two characters, which is all it is called with.
hex2int(t, from) == Nibble(t[from + 1]) * 16 + Nibble(t[from + 2])

MacText == 17
str_mac_to_byte_mac(t) == [i \in 1 .. 6 |-> hex2int(t, (i - 1) * 3)]

\* Numbers below 256 and dots; after the fourth number comes any character or the
\* closing NUL.  <<>>: not an address.
Wrong == [ip |-> <<>>, n |-> 0, reading |-> FALSE]

ReadChar(at, c) ==
  IF ~at.reading THEN at
  ELSE IF isNumericChar(c) THEN [at EXCEPT !.n = (at.n * 10) + c - Zero]
  ELSE IF (Len(at.ip) < 3 /\ c # Dot) \/ at.n >= 256 THEN Wrong
  ELSE [ip |-> Append(at.ip, at.n), n |-> 0, reading |-> Len(at.ip) < 3]

UTILS_StrToIP(t) ==
  LET str == Append(t, 0)
      read[i \in 0 .. Len(str)] ==
        IF i = 0 THEN [ip |-> <<>>, n |-> 0, reading |-> TRUE] ELSE ReadChar(read[i - 1], str[i])
  IN  read[Len(str)].ip

Decimal ==
  LET digits[n \in Nat] == IF n < 10 THEN <<Zero + n>>
                           ELSE Append(digits[n \div 10], Zero + (n % 10))
  IN  [n \in Int |-> IF n < 0 THEN <<Minus>> \o digits[-n] ELSE digits[n]]

Hex(n) == IF n < 10 THEN Zero + n ELSE 87 + n
Hex2(b) == <<Hex(b \div 16), Hex(b % 16)>>

\* Variant: the digits of a byte are swapped.
ID6TOSTRSwapped(id) ==
  [i \in 1 .. MacText |-> IF i % 3 = 0 THEN Colon ELSE Hex2(id[(i + 2) \div 3])[3 - (i % 3)]]

\* ID6STR: the bytes with colons between them.
ID6TOSTR(id) == [i \in 1 .. MacText |-> IF i % 3 = 0 THEN Colon ELSE Hex2(id[(i + 2) \div 3])[i % 3]]

\* An int, its lowest byte first, and back.
MaxInt == 2147483647
Bytes(n) ==
  LET n1 == n \div 256  n2 == n1 \div 256  n3 == n2 \div 256
  IN  <<n % 256, n1 % 256, n2 % 256, n3 % 256>>
Unsigned(b) == ((b[4] * 256 + b[3]) * 256 + b[2]) * 256 + b[1]
Word(b) == IF b[4] < 128 THEN Unsigned(b) ELSE -1 - Unsigned([i \in 1 .. 4 |-> 255 - b[i]])

-----------------------------------------------------------------------------
\* SYSCFG in memory.

Cells(f) == At[f] .. At[f] + Size[f] - 1

\* The bytes of a setting's own array.
Own(cfg, f) == [i \in 1 .. Size[f] |-> cfg[At[f] + i - 1]]

\* A text in memory ends before the first NUL, in its own array or behind it.
Ends(cfg, f, n) == cfg[At[f] + n] = 0 /\ \A i \in 0 .. n - 1 : cfg[At[f] + i] # 0
Text(cfg, f) == LET n == CHOOSE n \in 0 .. End - At[f] : Ends(cfg, f, n)
                IN  [i \in 1 .. n |-> cfg[At[f] + i - 1]]

Whole(cfg, f) == \E x \in Cells(f) : cfg[x] = 0

\* os_bzero of an array and os_sprintf "%s".
Zeroed(f, t) == t \o [i \in 1 .. IF Len(t) < Size[f] THEN Size[f] - Len(t) ELSE 1 |-> 0]

\* Bytes put one behind the other.
Put(f, bytes) == [at |-> At[f], bytes |-> bytes]
Touches(put) == put.at .. put.at + Len(put.bytes) - 1
Touched(puts) == UNION {Touches(puts[i]) : i \in DOMAIN puts}

\* One put after another: of those that touch a byte the last one counts.
Latest(puts, x) == CHOOSE i \in DOMAIN puts : /\ x \in Touches(puts[i])
                                            /\ \A j \in DOMAIN puts : x \in Touches(puts[j]) => j <= i
Written(cfg, puts) ==
  LET touched == Touched(puts)
      byte(put, x) == put.bytes[x - put.at + 1]
  IN  [x \in DOMAIN cfg |-> IF x \in touched THEN byte(puts[Latest(puts, x)], x) ELSE cfg[x]]

-----------------------------------------------------------------------------
\* What the text of a field stores, and what an answer says.

mqtt_info_set(f, t) == IF f = "port" THEN Bytes(Atoi(t))
                       ELSE IF f = "security" THEN <<Atoi(t) % 256>>
                       ELSE Zeroed(f, t)

mqtt_info_get(cfg, f) == IF f = "port" THEN Decimal[Word(Own(cfg, f))]
                         ELSE IF f = "security" THEN Decimal[cfg[At[f]]]
                         ELSE Text(cfg, f)

Taken(f, t) == Len(t) < Size[f]

device_cfg_set(f, t) == IF Taken(f, t) THEN Zeroed(f, t) ELSE <<>>

device_cfg_get(cfg, f) == Text(cfg, f)

mesh_config_set(f, t) ==
  CASE f = "meshId" -> IF Len(t) = MacText THEN str_mac_to_byte_mac(t) ELSE <<>>
    [] f = "meshSSID" -> Zeroed(f, t \o ChipId)
    [] f = "enable" -> <<IF t # <<>> /\ t[1] = Zero + 1 THEN 1 ELSE 0>>
    [] f = "server_port" -> Bytes(Atoi(t))
    [] OTHER -> Zeroed(f, t)

mesh_config_get(cfg, f) ==
  CASE f = "meshId" -> ID6TOSTR(Own(cfg, f))
    [] f = "enable" -> <<IF cfg[At[f]] # 0 THEN Zero + 1 ELSE Zero>>
    [] f = "server_port" -> Decimal[Word(Own(cfg, f))]
    [] OTHER -> Text(cfg, f)

Stored(f, t) == IF f \in MqttFields THEN mqtt_info_set(f, t)
                ELSE IF f \in DeviceFields THEN device_cfg_set(f, t)
                ELSE mesh_config_set(f, t)

Get(cfg, f) == IF f \in MqttFields THEN mqtt_info_get(cfg, f)
               ELSE IF f \in DeviceFields THEN device_cfg_get(cfg, f)
               ELSE mesh_config_get(cfg, f)

\* A setter is called once for all of a request.
json_parse(request) ==
  [i \in DOMAIN request |-> Put(request[i].field, Stored(request[i].field, request[i].text))]

Set(cfg, f, t) == Written(cfg, json_parse(<<[field |-> f, text |-> t]>>))

\* CFG_saveStaCfg and CFG_saveSoftApPass do not zero the arrays.
StaPuts(net) == <<Put("sta_ssid", Append(net.ssid, 0)), Put("sta_pwd", Append(net.password, 0))>>
ApPuts(pass) == <<Put("ap", Append(pass, 0))>>

\* What the order and the lengths of the arrays of SYSCFG make sure of: nothing is put
\* behind its last setting, into the host or into a port from another setting, or into
\* what the client copies from a setting that is not one of MQTT.
Layout(at, size, end, limit, suffix) ==
  LET cells(f) == at[f] .. at[f] + size[f] - 1
      longest(f) == IF f = "meshSSID" THEN limit + suffix + 1
                    ELSE IF f \in (Texts \ DeviceFields) \cup {"ap"} THEN limit + 1
                    ELSE size[f]
      reached(f) == cells(f) \cup (at[f] .. at[f] + longest(f) - 1)
  IN  /\ \A f \in Field : at[f] \in Nat /\ size[f] \in Nat \ {0} /\ reached(f) \subseteq 0 .. end - 1
      /\ \A f, g \in Field : f # g => cells(f) \cap cells(g) = {}
      /\ \A f \in Field, g \in {"host"} \cup Ports : f # g => reached(f) \cap cells(g) = {}
      /\ \A f \in Field \ MqttFields, g \in MqttFields \cup {"mac"} :
           f # g => reached(f) \cap cells(g) = {}
      /\ limit < size["host"]

ASSUME LayoutAssumption ==
  /\ End \in Nat /\ Limit \in Nat /\ Shown \in Nat /\ ChipId \in Seq(Char)
  /\ Layout(At, Size, End, Limit, Len(ChipId))
  /\ \A f \in Ports : Size[f] = 4
  /\ Size["security"] = 1 /\ Size["enable"] = 1 /\ Size["meshId"] = 6

\* Ten digits in a row might overflow an int.
LongNumber(t) == \E i \in 0 .. Len(t) - 10 : \A k \in 1 .. 10 : isNumericChar(t[i + k])

\* Requests of one file each.  A conversion in a name or a password of Networks and
\* Passwords has been made, and what it made fits.
ASSUME TextAssumption ==
  /\ \A request \in Requests :
       /\ request \in Seq([field : Web, text : Seq(Char)]) /\ request # <<>>
       /\ \E file \in {MqttFields, DeviceFields, MeshFields} :
            \A i \in DOMAIN request : request[i].field \in file
       /\ \A i \in DOMAIN request : LET f == request[i].field t == request[i].text IN
            /\ f \in Texts => Len(t) <= Limit
            /\ f \in Ports \cup {"security"} => Atoi(t) <= MaxInt
            /\ f = "host" => ~LongNumber(t)
  /\ \A net \in Networks : /\ net.ssid \in Seq(Char) /\ Len(net.ssid) < Size["sta_ssid"]
                            /\ net.password \in Seq(Char) /\ Len(net.password) < Size["sta_pwd"]
  /\ \A pass \in Passwords : pass \in Seq(Char) /\ Len(pass) <= Limit

\* What every configuration holds, whatever is set.
Held(cfg) == /\ cfg[End] = 0
             /\ cfg[At["host"] + Size["host"] - 1] = 0
             /\ \A f \in Ports : Word(Own(cfg, f)) >= -1

ASSUME SettingsAssumption ==
  /\ Config \subseteq [0 .. End -> 0 .. 255]
  /\ Held(Default) /\ ~LongNumber(Text(Default, "host"))
  /\ \A cfg \in Config :
       /\ \A request \in Requests : Written(cfg, json_parse(request)) \in Config
       /\ \A net \in Networks : Written(cfg, StaPuts(net)) \in Config
       /\ \A pass \in Passwords : Written(cfg, ApPuts(pass)) \in Config

-----------------------------------------------------------------------------

VARIABLES client,     \* the client's copies, NoClient before user_init_mqtt
          peer,       \* the address it connects to, <<>> when it looks a name up
          handler,    \* what the running handler does once its save is done
          promised    \* auxiliary: settings answered with 200 OK

settingsVars == <<vars, client, peer, handler, promised>>
webVars == <<client, peer, handler, promised>>

Idle == [after |-> "nothing", fields |-> {}]

SettingsInit == /\ Init
                /\ client = NoClient /\ peer = NoPeer /\ handler = Idle
                /\ promised = [f \in Web |-> Unknown]

\* What MQTT_InitConnection, MQTT_InitClient and MQTT_InitLWT copy; the will's topic
\* contains shMac.
Copies(cfg) == [f \in MqttFields \cup {"mac"} |->
                  IF f \in Texts THEN Text(cfg, f) ELSE Own(cfg, f)]

\* The client is zeroed, its connection forgotten.
user_init_mqtt == client' = Copies(sysCfg) /\ peer' = NoPeer

\* user_init after CFG_Load, which may have had to save the built-in settings.
Started == /\ pc = "idle" /\ client = NoClient
           /\ user_init_mqtt
           /\ UNCHANGED <<vars, handler, promised>>

Free == pc = "idle" /\ client # NoClient /\ handler = Idle

Named(request) == {request[i].field : i \in DOMAIN request}

\* Variant: a new shMac does not reach the client.
AfterSaveNoMac(request) == IF Named(request) \cap MqttFields # {} THEN "client" ELSE "answer"

\* onDataChangedCbFunc is called after any request to the file "mqtt", and after one
\* that changes shMac.
AfterSave(request) ==
  IF \/ Named(request) \cap MqttFields # {}
     \/ \E i \in DOMAIN request : request[i].field = "mac" /\ Taken("mac", request[i].text)
  THEN "client" ELSE "answer"

\* The settings that an answer speaks for: none, when a text went beyond its array.
Answered(request) ==
  IF \A i \in DOMAIN request : Touches(json_parse(request)[i]) \subseteq Cells(request[i].field)
  THEN Named(request) ELSE {}

\* A byte of a setting is put anew.
Withdrawn(puts) ==
  LET touched == Touched(puts)
  IN  promised' = [f \in Web |-> IF Cells(f) \cap touched = {} THEN promised[f] ELSE Unknown]

Promise(fields, cfg) == [f \in Web |-> IF f \in fields THEN Own(cfg, f) ELSE promised[f]]

\* Variant: the answer is sent before the save is done.
PostAnswersFirst(request) ==
  /\ Free
  /\ Change(Written(sysCfg, json_parse(request)))
  /\ handler' = [after |-> AfterSave(request), fields |-> Answered(request)]
  /\ promised' = Promise(Answered(request), sysCfg')
  /\ UNCHANGED <<client, peer>>

Post(request) ==
  /\ Free
  /\ Change(Written(sysCfg, json_parse(request)))
  /\ handler' = [after |-> AfterSave(request), fields |-> Answered(request)]
  /\ Withdrawn(json_parse(request))
  /\ UNCHANGED <<client, peer>>

\* userWebServerDataChangedCb, when it is called, and then the answer 200 OK.
Respond ==
  /\ pc = "idle" /\ handler.after \in {"client", "answer"}
  /\ IF handler.after = "client" THEN user_init_mqtt ELSE UNCHANGED <<client, peer>>
  /\ promised' = Promise(handler.fields, sysCfg)
  /\ handler' = Idle
  /\ UNCHANGED vars

\* restart_10ms_cb, or esp-touch, with a new network; the former may set the
\* password of the softAP too, in a second save.
CFG_saveStaCfg(net, after) ==
  /\ Free
  /\ Change(Written(sysCfg, StaPuts(net)))
  /\ handler' = [Idle EXCEPT !.after = after]
  /\ Withdrawn(StaPuts(net))
  /\ UNCHANGED <<client, peer>>

CFG_saveSoftApPass(pass) ==
  /\ Free \/ handler.after = "softAp"
  /\ Change(Written(sysCfg, ApPuts(pass)))
  /\ handler' = Idle
  /\ Withdrawn(ApPuts(pass))
  /\ UNCHANGED <<client, peer>>

MQTT_Connect == /\ Free
                /\ peer' = UTILS_StrToIP(client.host)
                /\ UNCHANGED <<vars, client, handler, promised>>

Flash == /\ CFG_Load \/ EraseCfg \/ WriteCfg \/ EraseFlag \/ WriteFlag
         /\ UNCHANGED webVars

\* An answer is not taken back by a power failure.
PowerFails == /\ PowerLoss
              /\ client' = NoClient /\ peer' = NoPeer /\ handler' = Idle
              /\ UNCHANGED promised

SettingsNext ==
  \/ Started
  \/ \E request \in Requests : Post(request)
  \/ Respond
  \/ \E net \in Networks, after \in {"nothing", "softAp"} : CFG_saveStaCfg(net, after)
  \/ \E pass \in Passwords : CFG_saveSoftApPass(pass)
  \/ MQTT_Connect
  \/ Flash
  \/ PowerFails

SettingsSpec == SettingsInit /\ [][SettingsNext]_settingsVars

-----------------------------------------------------------------------------

\* Unless the running handler is about to tell it of a change, the client works with
\* the settings that a restart would give it: its will is for the topic it will
\* subscribe to, and it connects to the address, if it is one, that is stored.  A text
\* that goes beyond its array may since have been overwritten by another setting
\* (user_webserver.c:291-297, 425-433 and user_main.c:219-222).
ClientAgrees ==
  client # NoClient /\ handler.after # "client" =>
    /\ \A f \in DOMAIN client : (f \in Texts => Whole(Selected, f)) => client[f] = Copies(Selected)[f]
    /\ peer # NoPeer => peer = UTILS_StrToIP(Text(Selected, "host"))

\* A setting answered with 200 OK is what the next start finds, after any later
\* handlers, their saves and power failures, until one puts a byte of it anew: by its
\* name, or by a text that is too long for the array of another setting
\* (user_webserver.c:1239-1266, config.c:43-81).
Survives == \A f \in Web : promised[f] # Unknown =>
              Selected # NoHolder /\ Own(Selected, f) = promised[f]

\* The i-th number of a text that is cut at these places, and whether it is one of an
\* address: below 256, a dot behind each of the first three, no digit behind the last.
\* It may have no digit.
From(cut, i) == IF i = 1 THEN 1 ELSE cut[i - 1] + 1
Number(str, cut, i) == SubSeq(str, From(cut, i), cut[i] - 1)
Fits(str, cut, i) ==
  /\ cut[i] \in From(cut, i) .. Len(str)
  /\ ~isNumericChar(str[cut[i]]) /\ (i < 4 => str[cut[i]] = Dot)
  /\ \A k \in From(cut, i) .. cut[i] - 1 : isNumericChar(str[k])
  /\ Value(Number(str, cut, i)) < 256

\* The addresses that a text begins with.
Spelt(t) ==
  LET str == Append(t, 0)
      stops == {i \in DOMAIN str : ~isNumericChar(str[i])}
      cuts == {cut \in [1 .. 4 -> stops] : \A i \in 1 .. 4 : Fits(str, cut, i)}
  IN  {[i \in 1 .. 4 |-> Value(Number(str, cut, i))] : cut \in cuts}

\* What the answers can show: texts that end in their array and, but for those of the
\* mesh network and of MQTT, within the buffer of the answer.
Proper(cfg) ==
  \A f \in Texts : /\ Whole(cfg, f)
                   /\ f \in DeviceFields \cup {"server_host"} => Len(Text(cfg, f)) < Shown

\* The page that shows the settings may send them back unchanged: the text of each
\* answer sets what is shown again, also what a bad text has left, and no byte of
\* another setting.  Only the MeshSSID comes back with the chip's number once more.
\* And the client connects to the address its host spells, if it spells one, and else
\* to a name (user_webserver.c:74-98 and 107-166, 182-216, 225-300, 344-375 and 384-424,
\* config.c:199-289, utils.c:91-127).
ReadsBack ==
  /\ Free /\ Proper(sysCfg) =>
       \A f \in Web \ {"meshSSID"} : LET back == Set(sysCfg, f, Get(sysCfg, f)) IN
         /\ Get(back, f) = Get(sysCfg, f)
         /\ Touched(json_parse(<<[field |-> f, text |-> Get(sysCfg, f)]>>)) \subseteq Cells(f)
  /\ peer # NoPeer => {peer} \ {<<>>} = Spelt(client.host)
=============================================================================
