----------------------------- MODULE MCSettings -----------------------------
(* The arrays of SYSCFG in their order, the longest text and the buffers   *)
(* made shorter: a text of 8 characters for one of 63.  Requests change    *)
(* several settings at once, good and bad: a name for the broker, whose    *)
(* built-in host is an address, an empty port and a security that is no    *)
(* number, a password and a MeshSSID that go beyond their arrays, texts    *)
(* that are taken and ones that are not.  Flag bytes: the two written,     *)
(* erased, and an even one that only an interrupted write leaves.          *)
EXTENDS Settings

A(n) == [i \in 1 .. n |-> 97]
Address == <<49, 46, 46, 50, 53, 53, 46, 48>>                     \* 1..255.0
Name == <<49, 46, 50, 46, 51>>                                    \* 1.2.3
Id == <<48, 97, 58, 70, 70, 58, 48, 48, 58, 49, 50, 58, 97, 57, 58, 122, 48>> \* 0a:FF:00:12:a9:z0

MCSize == [sta_ssid |-> 2, sta_pwd |-> 2, host |-> 9, port |-> 4, user |-> 5, pass |-> 4,
           security |-> 1, meshId |-> 6, meshSSID |-> 4, meshPasswd |-> 3, enable |-> 1,
           server_host |-> 9, server_port |-> 4, ap |-> 4, type |-> 2, name |-> 6, mac |-> 4]

\* Not set by anyone and left out: sta_type, one byte each of mqtt_keepalive and comMode.
MCAt == [sta_ssid |-> 0, sta_pwd |-> 2, host |-> 4, port |-> 13, user |-> 17, pass |-> 22,
         security |-> 27, meshId |-> 28, meshSSID |-> 34, meshPasswd |-> 38, enable |-> 41,
         server_host |-> 42, server_port |-> 51, ap |-> 55, type |-> 60, name |-> 62, mac |-> 68]
MCEnd == 72
MCChipId == <<95, 55>>

\* The layout on the device, where the longest text has 63 characters and the chip's
\* number makes 9.
SysCfgAt == [sta_ssid |-> 20, sta_pwd |-> 84, host |-> 152, port |-> 216, user |-> 220,
             pass |-> 252, security |-> 288, meshId |-> 289, meshSSID |-> 295,
             meshPasswd |-> 311, enable |-> 343, server_host |-> 344, server_port |-> 408,
             ap |-> 412, type |-> 448, name |-> 458, mac |-> 490]
SysCfgSize == [sta_ssid |-> 64, sta_pwd |-> 64, host |-> 64, port |-> 4, user |-> 32,
               pass |-> 32, security |-> 1, meshId |-> 6, meshSSID |-> 16,
               meshPasswd |-> 32, enable |-> 1, server_host |-> 64, server_port |-> 4,
               ap |-> 32, type |-> 10, name |-> 32, mac |-> 18]
ASSUME DeviceLayout == Layout(SysCfgAt, SysCfgSize, 508, 63, 9)

Of(field, text) == [field |-> field, text |-> text]
MCRequests ==
  { <<Of("port", <<>>), Of("host", Name), Of("security", <<120>>)>>,
    <<Of("user", A(1)), Of("pass", A(8))>>,
    <<Of("mac", A(3)), Of("type", A(2)), Of("name", A(1))>>,
    <<Of("meshId", Id), Of("meshPasswd", A(2)), Of("enable", <<49>>)>>,
    <<Of("meshId", A(1)), Of("meshSSID", A(7))>> }
MCNetworks == {[ssid |-> <<>>, password |-> <<>>]}
MCPasswords == {<<>>}

\* An address, a port, an identifier and a name; the other texts are empty.
BuiltIn == [x \in 0 .. MCEnd |->
  CASE x \in MCAt["host"] .. MCAt["host"] + 7 -> Address[x - MCAt["host"] + 1]
    [] x = MCAt["port"] -> 7
    [] x \in MCAt["meshId"] .. MCAt["meshId"] + 5 -> 24
    [] x \in MCAt["name"] .. MCAt["name"] + 4 -> 97
    [] OTHER -> 0]

\* What requests, networks and passwords make of it, one after another.
MCPuts == {json_parse(request) : request \in MCRequests}
            \cup {StaPuts(net) : net \in MCNetworks} \cup {ApPuts(pass) : pass \in MCPasswords}
More(cfgs) == cfgs \cup {Written(cfg, puts) : cfg \in cfgs, puts \in MCPuts}
Made == LET c1 == More({BuiltIn})  c2 == More(c1)  c3 == More(c2)  c4 == More(c3)
            c5 == More(c4)  c6 == More(c5)  c7 == More(c6)
        IN  More(c7)

\* TLC evaluates a constant of an INSTANCE each time, but Made and BuiltIn only once.
MCConfig == Made
MCDefault == BuiltIn
=============================================================================
