# Verification of the IR gateway firmware

The repository holds firmware for an ESP8266 (Espressif non-OS SDK, C). The
device relays infra-red commands: an MQTT broker sends JSON commands, the
device passes them over UART0 to an IR controller, and what the controller
answers is published. ESP-TOUCH and a small web server set it up; a mesh can
replace the station mode. This directory holds TLA+ models of its stateful parts, the TLC
configurations that check them on small instances, and proofs that TLAPS checks.

Everything in the firmware except the UART interrupt handler runs to completion:
posted tasks, software timers and network callbacks never interrupt each other.
So a handler is one action, and interleaving means the order of handlers. Only
the receive interrupt of the UART falls between two instructions, and there the
model is cut finer.

## 1. Inventory

| Component | State | Operations | Talks to |
|---|---|---|---|
| Ring buffer (`mqtt/ringbuf.c`) | memory, write and read pointer, fill count | init, put, get | used by the send queue |
| Send queue (`mqtt/queue.c`, `proto.c`) | framed, escaped messages in the ring; a parser on the stack | puts, gets, eviction loop of the requests | written by requests and by the receive callback, read by the task |
| MQTT client (`mqtt/mqtt.c`) | `connState`, pending message type, three tick counters, queue, socket, one-slot task queue | `MQTT_Task`, `mqtt_timer`, seven network callbacks, `MQTT_Connect`, `MQTT_Disconnect`, requests | espconn, DNS, the application's callbacks |
| MQTT application (`user/user_mqtt.c`) | topics only | connected, disconnected, published, data callbacks; `user_init_mqtt` | requests to the client; IR command parser |
| Wi-Fi supervisor (`modules/wifi.c`) | status now and at the last poll | poll every 2 s or 0.5 s | tells `wifiConnectCb`, which connects or disconnects the client |
| Configuration store (`modules/config.c`) | `sysCfg` in RAM, two sectors, a flag sector | load, save, setters | flash; called by web server, ESP-TOUCH |
| UART driver (`driver/uart.c`) | hardware FIFO, ring with two pointers and `Space`, interrupt enable | interrupt handler, `uart0_Available`, `rx_buff_deq` | interrupt and poll share the ring |
| IR UART framing (`user/user_uart.c`) | packet being received, timeout count; packet being sent, busy flag | 5 ms poll, transmit timer, send, init | driver below, `uartDataCallback` above |
| IR commands (`user/user_ir.c`, `base64/`) | static command, id, data, length | parse a command, create a report | MQTT above, UART below |
| Provisioning (`modules/esp_touch.c`, `user/user_main.c`) | `esptouch_running`, one timer, the communication mode | smartconfig callbacks, timeout, `user_set_com_mode` | configuration, mesh, Wi-Fi, UART poll |
| Mesh (`mesh/*.c`) | `wait_timer`; the device list with size, count and root | init, deinit, callbacks of a closed library; set root, search, add | provisioning, web server |
| Web server (`user/user_webserver.c`) | one shared reassembly buffer with its counts, four pointers of a pending Wi-Fi change | receive, reply, delayed change; read and write the settings as text | configuration, client, provisioning |
| MQTT packets (`mqtt/mqtt_msg.c`) | the last message identifier | make a packet of each type, read a packet's fields | client |
| Utilities (`mqtt/utils.c`, `base64/`, `utilities/`) | none | conversions | everything |

Meters, soft UART, the slave list and the LCD lie in directories that the root
Makefile does not build; `tcpServer/tcp_server.c` is built and never started.

**How it starts.** `user_init`: UART, configuration, web server, client,
ESP-TOUCH. ESP-TOUCH succeeds or times out; either way `user_set_com_mode` starts
mesh, access point or station, arms the UART poll and the IR command parser. In
station mode the Wi-Fi supervisor starts the client once there is an address.

**What is hard.** The task queue holds one event, so a state change can lose its
wakeup. Network callbacks come late, and lookups cannot be cancelled, so a
callback may find another state or another socket than the one it was meant
for. A change of settings clears the client while its socket lives. Messages
share a ring with the fragments of messages that did not fit. Power may fail in
any flash call. The receive interrupt and the poll both update `Space`. The IR
frames have no escaping and no checksum, so everything depends on staying in
step. A command and a report go through the same static fields, and a command can come while
another is still leaving through the UART. Lengths have one byte or two, and two sides
must agree where the boundary is. The client works on copies of the settings, so every change
must find its way to them. A text that is too long for its array changes the setting behind it. A lookup may be
answered at once, without the callback that everything else waits for. `PROJECT.json` lists every such hazard at its line.

**What makes the components correct**

- Ring, queue: first in, first out; whole messages or nothing; a message is lost only when the queue's documented eviction cannot help.
- Client: a session only on a connection whose broker answered; MQTT's packet order on every connection; no lost wakeup; back to a session when the network returns; pings in time.
- Store: the old configuration or the new one, never a mixture; what the web server acknowledged survives; the client works with what is stored; what the page shows can be sent back.
- UART: a lossless line between hardware and reader, even when full; frames delivered once and in order; resynchronisation after a loss.
- Provisioning and web server: ESP-TOUCH ends; SDK, mesh library and saved settings name one network whoever saved last; the mesh waits for ESP-TOUCH; no timer is freed twice; a request is answered once; a change put off is the change applied.
- IR relay: a command reaches the controller with the payload it was given, a report the broker with the controller's; packets leave the UART whole, one after the other, and the UART becomes free again; each PUBLISH of a segment is taken once and acknowledged by its quality; what either side writes the other reads.
- Mesh list: one root and a set of nodes, each listed once, whatever memory was short of.

## 2. Modules

| Module | Models | Abstract specification |
|---|---|---|
| `RingBuf` | `ringbuf.c` with memory and pointers | `ByteFifo`, a bounded FIFO |
| `MsgQueue` | `queue.c`, `proto.c`, the eviction loop and the task's taking of messages | `LossyFifo`, a FIFO that forgets oldest messages |
| `ConfigStore` | `CFG_Load` and `CFG_Save` of `config.c`, each flash call a step, power failure in each | `AtomicConfig`, replaced as a whole |
| `Settings` | the settings of `user_webserver.c` over `ConfigStore`: text to the bytes of `SYSCFG`, in its own array and behind it, save, the client's copies, answer, and bytes to text | `AtomicConfig` |
| `MqttClient` | `mqtt.c` with `user_mqtt.c`, `wifi.c` and the callbacks of `user_main.c` | (none) |
| `MqttPing` | `MqttClient` watched by a clock that counts seconds since the client sent anything | (none) |
| `MqttMsg` | `mqtt_msg.c` as functions on bytes: the builders and the readers of packets | (read against the packets MQTT defines, in `IrGateway`) |
| `Base64` | `base64.c` as functions | (decoding is the inverse of coding: `Base64RoundTrip`) |
| `IrUart` | the sender of `user_uart.c` into the transmit FIFO of `uart.c`, for any commands | (none) |
| `IrGateway` | received segments (`mqtt_tcpclient_recv`, `deliver_publish`), the application's callbacks, `user_ir.c`, over `MqttMsg`, `Base64` and `IrUart` | the sender alone, `TxSpec` of `IrUart` |
| `UartRx` | receive side of `uart.c` | `SerialLine`, a line of bytes |
| `UserUart` | receiver of `user_uart.c`, on a line as `SerialLine` promises it, with a bounded length | `FrameLink`, frames in order unless disturbed |
| `ComMode` | the mode and what it sets up: `user_set_com_mode`, `WIFI_Connect`, the access point, the mesh's waiting timer and start | (none) |
| `EspTouch` | `esp_touch.c` over `ComMode` | (none) |
| `WebServer` | `user_webserver.c` over `ComMode`: collection of requests, changes put off | (none) |
| `DeviceSetup` | `user_init`: `EspTouch` and `WebServer` side by side on one `ComMode`, and restarts | (none) |
| `MeshDevices` | `mesh_device.c`, fed by the topology packets of `mesh_none.c` | `MeshNodes`, a root and a set of nodes |
| `SeqLemmas` | lemmas about sequences, their concatenation and functions defined by recursion over them | |
| `*_proofs` | theorems about the module of the same name; `MsgQueue_proofs` holds those of `RingBuf` too, `Settings_proofs` those of `ConfigStore`, `DeviceSetup_proofs` those of `MeshDevices`, `IrGateway_proofs` those of `IrUart`, `MqttMsg` and `Base64` | |
| `MC*` | the values TLC uses | |

Actions have the names of the functions they stand for. `Task_...` are the
branches of `MQTT_Task`; `Connected`, `Connack`, `Data`, `SentCb`, `Closed`, `Broke`, `DnsFound`,
`DnsFailed` are the callbacks `mqtt_tcpclient_*_cb` and `mqtt_dns_found`.
`PROJECT.json` maps each definition to its lines. Definitions marked *Variant* are
mistakes of a plausible kind, at least one for each checked property: a definition is
replaced by its variant to see that the property notices. No specification uses them.

**How the parts fit.** `MqttClient` counts whole messages where `MsgQueue` has
their bytes: `Requested(r)` allows every number of messages that evictions may
leave, so what `MsgQueue` shows (whole messages, in order) is what `MqttClient`
takes for granted. `MsgQueue` uses the ring as the FIFO that `RingBuf` is shown to
implement. `UserUart` uses the driver as the FIFO that `UartRx` is shown to
implement; `IrUart` is the other direction of the same controller. `IrGateway` extends `MqttMsg`, `Base64` and
`IrUart`, so one step of it is a whole handler, from the bytes of a packet to the
bytes in the FIFO; it takes the session from `MqttClient` (`connState`, when segments come) and the queue from
`MsgQueue` (what a handler queues is sent in order). `DeviceSetup` composes its parts by shared variables: `EspTouch`
and `WebServer` both extend `ComMode` and change its state in their own actions.
A saved setting there is one assignment, which is what `AtomicConfig` promises. `Settings` extends `ConfigStore` and
keeps its steps: the theorem `SettingsUseStore` says so, and the refinement of
`AtomicConfig` is checked in the run of `Settings`, through all its requests.
The change of MQTT settings by the web server is `ChangeSettings` of `MqttClient`,
and each mode change is a `user_uart_init` of `UserUart`.

### State that is simplified

- **MqttClient.** `ip` says whether `client->ip` is set: only a lookup that is answered at once writes to it (mqtt.c:830), only a reinitialisation clears it, and `mqtt_dns_found` passes an answer over while it is set (mqtt.c:78). `passed` is auxiliary: the last answer was known at once or passed over. Socket 0 is the one in `client->pCon`; a change of settings moves it to a number of its own, because the driver keeps it while the client forgets it. `sock` joins what espconn and the broker know, since the properties compare the client with both. Topics, payloads, message identifiers and QoS are left out: the code only logs identifiers and never retransmits.
- **MsgQueue.** Bytes have their values, so that escaping is what the code computes; the few messages TLC uses are chosen for the escapes they need. The loop that makes room is a function of its round; a round that is not the last takes one 7F out of the ring, so its number is bounded by the ring's size. Message identifiers and topics are left out.
- **ConfigStore.** A configuration is one value, a torn sector another. The setters differ only in the field they change and are one action; which field, and with what text, is in `Settings`.
- **Settings.** A configuration is the bytes of `SYSCFG`, one array behind the other as `config.h` declares them (`At`, `Size`); the words that nothing here sets are left out, but for one byte at the end that stays zero (`End`). A put is a run of bytes that starts at a setting's array and may go beyond it (`Written`); a text is read up to the first NUL, in its array or behind it (`Text`). `LayoutAssumption` says what the proofs need of the order and lengths (the longest text of each setting ends before the host and the ports, and nothing ends behind the struct); `MCSettings` evaluates the same formula for the device's own offsets (`DeviceLayout`). Texts are character codes, at most `Limit` of them, which is what `jsonparse_copy_value` copies; where a number or an address is read there are no ten digits in a row, so that no `int` overflows (`TextAssumption`). JSON is the sequence of fields and texts it was parsed into, in its order. Names and passwords of networks are what `CFG_saveStaCfg` makes of them, and fit. The answer is its last fact: that it was sent. `handler` is what a handler does after its save; `promised` is auxiliary: the bytes of each setting last answered with 200 OK, withdrawn when something puts one of them anew.
- **IrGateway.** A JSON text is its four numbers and its data behind a number of bytes for the wording, so that its length counts. A number that is none reads as -1, so 255 or 65535. Segments hold whole packets. A command that gives both a length and data gives one of the payloads coded, with its length (`PayloadAssumption`, which the code does not enforce: a peer that breaks it gets what it asked for); one that gives only one of them is in the model, and `loose` says so. A length given alone belongs to a payload that fits `tx_buf` (`Lengths`); a longer one, also that of a text that is no number, would write behind it and is outside. `todo`, `asked`, `loose`, `line`, `owed` and `overrun` are histories the properties compare with; once a byte was dropped at a full FIFO the line is not followed until the packet is over.
- **MeshDevices.** A node is a model value. The library's packet is a root and lists of nodes. Memory is exhausted or not for each growth. After a write behind the list (`beyond`, see below) nothing is said.
- **UartRx.** Pointers are offsets. Either receive interrupt is pending while the FIFO holds bytes.
- **UserUart.** Bytes are numbers; the lengths are small. `owed` and `inStep` are auxiliary: frames sent since the two sides were last at rest together.

- **ComMode.** A Wi-Fi network is its name. A name copied over a longer one is `Garbled`. `CFG_saveStaCfg` uses the name as a format (config.c:142): one of `Formats`, which holds a '%' or all 32 characters, is saved as itself or as `Misprint`. What the format does to a password is not followed, as passwords are left out. Of the timers that poll the UART only their number is kept, and it bounds the mode changes (`MaxPollers`). `waits` counts the mesh timers that still wait, `wait_timer` is the pointer to the last of them.
- **EspTouch.** smartconfig is the status it last reported, and reports statuses in order. Every report after which the code arms its timer keeps the timer armed.
- **WebServer.** A segment is a head with no body or the whole body, or a later part of a body; a head with a part of the body is treated by the code as a head alone. Lengths are 0, 1 and 2, and 2 is a body too long for the buffer. A body names "Station" or "Softap" before their fields. The connections share every variable of the module, as in the code, so they are not told apart. `posted`, `torn` and `misanswered` are auxiliary: the change put off while nothing disturbs it, the head of a torn request standing, and a whole request answered never or twice.

### Assumptions about what is not in `src/`

- `espconn_delete` closes silently; `espconn_disconnect` calls back only if the connection was established; an attempt fails with the reconnect callback.
- `espconn_gethostbyname` asks the network and calls back once for each lookup it starts, also after the client has gone on; or its table is full and it starts none; or it knows the answer, also 0.0.0.0, writes it to `client->ip` and calls nobody. A freed espconn still holds its reverse pointer.
- The broker answers CONNECT with acceptance or refusal, or closes.
- The flash obeys while power lasts; when power fails a call is done, not done, or leaves a sector torn.
- Memory suffices, except in `MeshDevices`. SSL is not compiled in.
- A broker sends well-formed packets, whole in a segment, and publishes nothing before CONNACK. Segments with quality 1 and 2 are included, though the firmware subscribes with 0, for a broker that keeps a publisher's quality.
- The debug output goes to UART1, so only packets of commands enter the transmit FIFO of UART0; the hardware sends it when it can.
- Station and access point of the SDK come and go by themselves once asked to connect (`StationLink`). A mesh that fails to start is enabled again by its callback. The library may refuse any setting.
- A read through a null pointer is an exception on which the chip starts anew, at the latest when something else does.
- The IR controller sends the bytes of a frame without a pause longer than the receiver's timeout.

## 3. Runs

| Run | Configuration | Shows |
|---|---|---|
| `ring_buffer` | `MCRingBuf.cfg` | the ring implements the bounded FIFO, full, empty and wrapped |
| `send_queue` | `MCMsgQueue.cfg` | whole messages in order whatever fragments a full ring leaves; `isBegin`, never initialised, decides nothing; when messages are lost |
| `settings` | `MCSettings.cfg` | power failures leave the old or the new configuration; an answered change survives; the client agrees with what is stored; the page can send back what it shows; texts that are too long overwrite what lies behind them |
| `client_user` | `MCMqttUser.cfg` | the client in every order of callbacks, ticks, Wi-Fi changes, late lookups and names known at once, with the firmware's callback that connects again and with one that does not, and one change of settings |
| `client_live` | `MCMqttLive.cfg` | `Reconnects` (unless the client strands), `Flows`, and pings in time when the broker only answers |
| `keepalive_inbound` | `MCMqttPingInbound.cfg` | **violation**: received data puts the ping off for ever |
| `uart_rx` | `MCUartRx.cfg` | the receive ring is a line and recovers from being full, when no interrupt hits the window below |
| `uart_space` | `MCUartSpace.cfg` | **violation**: an interrupt between load and store of `Space` is undone |
| `user_uart` | `MCUserUart.cfg` | frames in order, resynchronisation |
| `device_setup` | `MCDeviceSetup.cfg` | ESP-TOUCH, mesh start and web server on one set of settings: agreement on the network, order of mesh and ESP-TOUCH, answers, changes put off |
| `ir_gateway` | `MCIrGateway.cfg` | from the segment to the UART and back: packets read as they were meant on both sides, whole packets on the line, payloads unchanged, the sender free again |
| `mesh_nodes` | `MCMeshDevices.cfg` | the list implements a set of nodes through growth, new roots and exhausted memory |

**Bounds and why they are enough.** The ring has four slots: every distance of
the pointers occurs at every position. The send queue's ring holds ten bytes and
the frames have three to eleven: a put fails after each number of bytes, one
eviction may or may not be enough, and one message never fits. The store runs through both sectors and back. The
client has timeouts of one or two ticks: a tick can fall before, between and
after any two callbacks; two lookups let an old answer meet a new socket; two
unacknowledged packets let a ping meet a message; one change of settings
gives one forgotten socket. The two runs with pings take periods of two and four so that the limit of
one and a half periods is a whole number; the theorem covers the others. The UART ring has four slots
and the FIFO two, the proportion of the code, so that a FIFO of one or two bytes
is refused. `UserUart` has frames of six, eight and nine bytes; one imitates
END in its data, one imitates START and a length of two, the case where the
index passes the length. One byte may be lost; re-initialisations are unlimited.
`settings` has a `SYSCFG` of 73 bytes with arrays of one to nine, texts of up to 8 characters where the
device has 63, and buffers of 5 for 20. Its five requests of one file each hold an empty text,
a wrong character, texts that fit, that are refused and that go beyond their array into the two or three settings
behind it, and a mesh identifier with letters of both cases; the built-in host is an address
whose second number is empty, which the parser takes, and a request names one that is no address. Its
configurations are the closure of the built-in one under the requests, which `SettingsAssumption` names, so
that a save can meet any other. The bytes of the flag are those that are written, the erased one and one that an
interrupted write leaves. The Wi-Fi names and the password of the access point have one value there. `ir_gateway` has a buffer of 30 bytes and digits of 16 where the code
has more (`BufSize`, `Digit`), so that the texts fall one below, at and above the
lengths where a second digit begins and where the buffer ends; identifiers wrap at three; the
transmit FIFO holds six bytes, as does `tx_buf`, so a packet needs several turns of the timer and the END of a packet
may meet a full FIFO. `mesh_nodes` has six nodes and a list that grows by two where the code grows by
ten: options fill it to its end, pass its end by one and by more, repeat nodes and name the
root. It ends after a write behind the list, so it does not check for deadlock. `device_setup` has two networks, one with a longer name, so that a name can be
garbled, and one whose name `CFG_saveStaCfg` may print as another; three mode changes per start, so that a change put off with two
settings, or two requests that enable the mesh, can come before the end of ESP-TOUCH;
and one restart with whatever was saved. It does not check for deadlock: in
mesh mode a refused setting ends the attempt for good, and when the bounds
are used up nothing is left to happen.

**Fairness.** The SDK runs posted tasks, armed timers and pending enabled
interrupts: weak fairness of `MQTT_Task`, `mqtt_timer`, `wifi_check_ip`, the poll and the
interrupt. `Task_Data` and the report of a sent packet are strongly fair: an event is taken in
microseconds and a keepalive period lasts many seconds, so the timer does not
win every time. The network is fair in that each attempt ends, and that an
attempt repeated for ever on working Wi-Fi succeeds at some time. A broker
closes a connection it refused or hears no ping on. Of lookups repeated for ever one brings an address
(strong fairness of `DnsFound(FALSE)`). Nothing forces
Wi-Fi to come back: `Reconnects` assumes that it stays up from some time on, and that the client is not
stranded for ever: nothing makes a lookup go to the network that is answered from memory each time. In
`IrGateway` the UART sends what is in its FIFO (weak), the sender's timer is strongly
fair because commands may come between any two of its turns, and a handler comes
to the end of its segment. In `DeviceSetup` only the timer of ESP-TOUCH is fair: the phone, the network and
the peers of the web server owe nothing. In
`UserUart` only the poll and the first initialisation are fair, the sender may
stop anywhere.

### What the runs found

- **Lost update of `Space`.** `rx_buff_deq` adds to `Space` (uart.c:467, 475, 482, 490) while the receive interrupt is enabled and its handler subtracts (uart.c:520). An interrupt between load and store leaves `Space` too large for ever. From then on a nearly full ring takes a FIFO that does not fit and overwrites unread bytes; if the write pointer meets the read pointer, the ring looks empty while the interrupts stay disabled, and the receiver is deaf until a restart. The window is a few instructions per byte; the theorems about `UartRx` hold for every run that avoids it (`GentleSpec`). Disabling the interrupt around the update would remove the condition.
- **Keepalive.** `mqtt_tcpclient_recv` resets the tick for received packets (mqtt.c:243). MQTT counts what the client sends. With a broker that sends more often than the keepalive period, no ping is ever sent.
- Observed about the client, the store and the UART, without a line in the repository that promises otherwise: after a change of settings nothing reconnects until Wi-Fi changes or the broker closes the forgotten socket; with an address as host a failed `espconn_connect` leaves `TCP_CONNECTING` for ever; with a name a lookup that is answered at once does too, because no callback comes and the result is not looked at (mqtt.c:830), and from then on `client->ip` is set, so that every later answer of the network is passed over (78), until a change of the settings or a restart clears it, and an answer 0.0.0.0 is passed over in any case; an answer to a lookup after a disconnection writes through a null pointer; a CONNACK that refuses is taken for acceptance; a GET of the Wi-Fi settings within 10 ms of a change makes the callback read through NULL (user_webserver.c:1121, 922); a request to reboot within 10 ms cancels a change and leaves its name for the next one (1156), and a reboot only turns the access point off (944); after a torn request the next GET is answered twice (1096); a change with a body too long for the buffer is acknowledged and ignored (847); `CFG_saveStaCfg` uses name and password as formats, so a '%' is converted and a name of all 32 characters, which has no NUL, goes on with the password (config.c:142); `WIFI_Connect` copies a saved name or password of any length into the 32 and 64 bytes of the SDK's configuration (wifi.c:86), and a password for the access point of 32 characters or more goes on into `comMode` (config.c:151), which the model excludes; a mesh start that is refused is not tried again (mesh_demo.c:491); FIFO and ring of the UART hold less than the longest frame, without flow control (uart.c:507); no result of a flash call is looked at (config.c:50).
- Observed about segments and commands: only behind a PUBLISH is the rest of a segment read, so a PUBLISH behind SUBACK or CONNACK is dropped (mqtt.c:343), and a segment as long as the buffer is dropped whole (246); an empty message on the command topic repeats the last command; a command without one of its fields takes the last one's, or a report's payload, and the token in a report is the last command's (user_ir.c:133); a command that comes while another is sent is dropped (user_uart.c:104); END written without waiting is lost when the FIFO is full, which `overrun` stands for (uart.c:358); message identifiers start anew with each connection; the length of a command's payload is not compared with `tx_buf[512]` (user_uart.c:118), and one that is no number is 65535 (user_ir.c:121); a report whose base64 text passes 382 bytes passes `buff[512]` (user_main.c:154), and `base64_dec_len` of an empty text reads the byte in front of it.
- Observed about the mesh list: the new size is the old one with the free rest and ten (mesh_device.c:192), whatever the option holds, so that an option with more than ten new nodes is written behind the list (`beyond`); `mesh_device_del`, which nothing calls, would clear an entry behind the one it vacates.
- Observed about the settings: a text that is no number reads as -1, though the comment beside it says 0 (config.c:265-282), which makes the security flag 255, and such a client never connects; a text is taken for an address if it begins with four numbers below 256 with dots between them, whatever follows; a number may begin with zeros or be empty, so a host name of three dots is one (utils.c:91-127); a mesh identifier or a device text that does not fit is answered 200 OK and ignored, but a user, a password, a MeshSSID or a MeshPasswd that does not fit overwrites the settings behind it (user_webserver.c:132, 139, 411, 418); a MeshSSID that the page sends back gets the chip's number once more (132); a server's host or a device name is formatted into 20 bytes on the stack (77, 90, 229), and the built-in name of the device has 21 characters.

## 4. Proofs

All are for every value of the constants that the named assumptions allow
(`RingAssumption`, `QueueAssumption`, `MeshAssumption`, `ConfigAssumption`, `LayoutAssumption`, `SettingsAssumption`, `TextAssumption`, `ClientAssumption`, `PingAssumption`, `UartAssumption`, `UserUartAssumption`, `TxAssumption`, `MsgAssumption`, `IrGatewayAssumption`, `PayloadAssumption`, `ComModeAssumption`, `DeviceSetupAssumption`).

- **MsgQueue_proofs, the ring.** `RingTyped`, `RingPointers`, `RingIsFifo`. The invariant adds to the types that the count is the distance of the pointers. The contents of the ring, read from `p_r` for `fill_cnt` slots, is the abstract FIFO; a put appends to it and a get takes its head, shown slot by slot.
- **MsgQueue_proofs, the queue.** `QueueStartsAtBegin`, `QueueWholeMessages`, `QueueRoomNeeded`, for every size of ring and any messages of bytes. The invariant `Ring(rb)` is that the ring is within its size, starts with 7E and has 7E behind every 7F: fragments of frames stay in it for ever, so nothing stronger holds, and nothing weaker is kept by a get. `Decode` and `Scan` are shown to be folds (`Fold` of `SeqLemmas`) of `PROTO_ParseByte` and `ScanByte`; the lemmas then say what a fold makes of a text without 7F, of such a text put behind a ring, of a whole frame behind anything (the parser starts anew at 7E, so the fragment in front of it is forgotten), and of what is left when the first 7F is passed. A put is therefore an `Append` to the queue of whole messages or, if it fails, leaves that queue as it is, and a get is its `Tail`; that is the refinement. `QueueRoomNeeded` follows the loop of `MQTT_Publish` round by round: as long as no message as long as the frame has been taken out, the ring is full again after each put, so the next one fails too (`PuttingAt`); the round that takes such a message is the last (`QueuedAfter`); and without one everything goes (`LostAll`).
- **Settings_proofs, the store.** `ConfigTyped`, `ConfigIntact`, `ConfigIsAtomic`. `SelectedIntact` is not inductive: the invariant adds what each phase of a save knows, that the copy being written is not the selected one until the flag is turned, and that the flag is turned only after the copy is whole.
- **MqttClient_proofs.** `ClientTyped` needs `PingDue` (the keepalive tick passes its limit only in the state that sends the ping). `ClientAttended` is inductive with the types. `ClientPending`, `ClientAgreesWithBroker` rest on `Agreed`: until the settings change there is one socket, which is never deaf, and the two halves of the claim need each other. `ClientAttempts` says that with a host name `TCP_CONNECTING` has something under way or the client is `Stranded`: every `MQTT_Connect` starts or finds a lookup, or is answered at once, and the last answer in that state connects or is passed over. `ClientOrder` follows from the same agreement. `ClientPings` is about `MqttPing` without changes of settings and with a period of two seconds or more (the ping goes when the tick is one above the period, which is later than one and a half periods of one second): the invariant `Counting` says that the seconds of silence are counted by `keepAliveTick` too, but for a packet whose report has not come, and that one keeps the clock at rest.
- **UartRx_proofs.** `UartTyped`, `UartSpace`, `UartIsLine` for `GentleSpec`. The invariant says that `Space` lags behind the pointers by the byte taken and not yet added (`Owed`), and that a poll that saw a byte still finds one. The unread part of the ring followed by the FIFO is the abstract line; the interrupt moves the border between the two.

- **UserUart_proofs.** `ReceiverTyped`. The types are not inductive: a packet that goes on must not have passed the array (`IndexInside`), or the late test of the length would let the index pass it by more than one. `ReceiverInStep` and `ReceiverDelivers` (the refinement of `FrameLink`) have the invariant `StepInv`: besides `InStep`, that no frame is owed while the two sides are apart (`NothingOwed`), that the index and the length are those of the frame under way (`Parsing`), and that its bytes come before the timeout (`Patient`). `InStep` equates a concatenation of frames with bytes at three places; a received byte is the next one of the first frame, and the frame ends exactly with it, because a frame holds its own length.
- **IrGateway_proofs, the sender.** `TxWholePackets`: what is on the line, what waits in the FIFO and what the timer has still to send are what the accepted packets make up; a command that comes in between changes none of it. `GatewayIsTx` shows that `Spec` of `IrGateway` implements `TxSpec` of `IrUart`: a command goes to the sender from a broker's packet only, its payload being a sequence of bytes that fits `tx_buf` (the length of `ir` stays within `Lengths`, `IrInv`), and every other step leaves the sender alone. `GatewayWholePackets` follows.
- **IrGateway_proofs, packets read.** `GatewayReadsPackets`. The invariant `ReadInv` says that what is left of a segment is what the packets still to come make up, `OnWire(todo)`; one packet is taken off the front by cutting at the total length. The readers are followed on a packet `Framed` by a length of one digit or two: where the body begins is the least index of a byte below `Digit`, and the number is the value of those digits. A packet with three digits would not fit into the buffer, which is the condition `BufSize <= Digit * Digit` (1024 and 128 in the code).
- **IrGateway_proofs, packets made.** `GatewayUnderstood`. `Built` states once what `fini_message` does with a body that fits: the result says (`Means`) what was meant; each builder is then an instance, with the parts of its body put in the order of the protocol. The identifiers are never 0 (`NextId`), an answer carries the peer's, which `BrokerIs` has from the packet, and the packets with fixed texts fit, so what is queued and what is asked have the same length.
- **IrGateway_proofs, payloads.** `Base64RoundTrip` holds for every sequence of bytes: it takes groups of three, the three cases of the last one, and the length that `base64_dec_len` computes from the padding. `GatewayWholePayloads` needs that the fields shared by commands and reports hold the code of one payload, with its length, or none, unless `loose` (`IrInv`), and that a packet still to be read keeps `PayloadAssumption` (`TodoInv`).
- **Settings_proofs.** `SettingsUseStore` shows that each step of `Settings` is a step of `ConfigStore` or leaves it alone, so `SettingsStored` takes the refinement over from the store's theorem. `ClientStaysInStep` and `AnswersSurvive` add to the store's invariant that a save that is done is what a load selects (`OffIsOff`), that the client's copies are those of the configuration in RAM unless the handler is about to renew them (`Agreeing`), and that the bytes of an acknowledged setting are in the selected copy and in the one being written (`Kept`). Both rest on lemmas about memory: a put that does not touch an array leaves its bytes (`OwnStays`) and the text that ends in it (`TextSame`); what any request or network puts begins at a setting's array and goes no farther than the layout lets it (`RequestFine`, `WifiFine`), so puts that are not about MQTT leave all that the client copies (`Aside`), and a setting whose bytes are touched is no longer promised.
- **Settings_proofs, texts.** `AddressRead` is for any text, `SettingsReadBack` for texts that `Proper` names and numbers without ten digits in a row. `Value` and `Decimal` are recursive functions, unfolded with the lemmas of `SeqLemmas` on folds; an induction over numbers shows that the digits made of one read as it again (`DecimalRead`), and each byte of a mesh address is its two hexadecimal digits (`MacRead`), and an int is its four bytes (`WordRead`). A text that ends in its array is put back into it and read again as it was (`ZeroedIs`, `TextIn`). `Spelt` says which addresses a text begins with by where it is cut, without a parser. `UTILS_StrToIP` is followed along given cuts to the address they spell (`SpeltIsRead`), and from what it returns back to cuts (`ReadIsSpelt`); two ways to cut a text are the same (`SameCuts`), because a cut is at the first character that is no digit. The invariant is `Holding`, that the selected configuration, once there is one, and the one in RAM hold what `Held` names, which every setter keeps even with a wrong or too long text, and whatever puts overlap (`HeldWritten`), and `Peering`, that the address in use is what the client's own copy of the host was read as.
- **DeviceSetup_proofs.** `SetupTyped`, `SetupMeshWaits`, `SetupStationIsSaved`, `SetupRouterIsSaved`, `SetupNoDoubleFree`, `SetupSettingApplied`, `SetupOneAnswer`. The invariant has two halves. `ModeInv` is what the mode keeps: `TimersKept` says that each waiting timer was allocated together with a poll timer, that `wait_timer` claims a waiting timer only if there is one, and that only mesh mode has any, from which `NoDoubleFree` follows because the mode changes in flash alone; `TouchKept` that smartconfig and its timer stop with ESP-TOUCH. `WebInv` is what the server keeps in its pointers: no length is left between two segments, a pending change that no GET freed names something (`SettingNamed`), and one that is undisturbed waits with its timer armed (`SettingWaits`); what `CFG_saveStaCfg` prints of a name is a name again (`PrintedName`), and `user_set_com_mode` joins what was saved. `ComModeSet` states once what `user_set_com_mode` leaves in each mode, and the four callbacks that call it cite it. `SetupOneAnswer` rests on `LengthsClear`: only the head of a torn request leaves a length behind.
- **DeviceSetup_proofs, the mesh list.** `MeshListsEachOnce`, `MeshNamesTheMesh` (the refinement of `MeshNodes`), `MeshGrowsEnough`, for any addresses and any number of nodes and options. `Good` lists are those whose array is as long as size and count say, with each node once and never the root, and nothing in it before a root is known. `mesh_device_add` is followed node by node, and a packet option by option (`AddAllGood`), in each case by an induction over their number; a failed allocation leaves the list of the nodes added so far, and that it is never written behind its end needs the options no longer than `Step`.
- **SeqLemmas.** Concatenation, cutting and flattening of sequences, induction over them, and what a recursive function of a sequence computes: it exists, it is the only one, it takes one step more for one element more, and it goes on behind a concatenation where it stopped. The library's induction theorems cannot be cited, since they take an operator; these are stated with sets (`Induct`, `SeqInduct`: a set with 0, or the empty sequence, that is closed under the step is everything) and rest on the existence of a least element in a set of numbers.

**Only model-checked.** Liveness (`Reconnects`, `Flows`, `FifoEmptied`,
`Resynchronises`, `TouchEnds`, `SendsOut`), which is beyond the prover. Every safety invariant,
action property and refinement of the passing runs is proved.

## 5. Plan

What the earlier plan asked for is built, except for what follows, in the order of its worth.

1. `DeviceSetup` with `MqttClient`: `WIFI_Connect` starts the poll of the Wi-Fi status anew, and the web server's MQTT settings clear the client; a refinement of an abstract "one network is in force". Either alone has close to a million states, so one of them has to be replaced by its abstract specification first.
2. A PUBLISH cut over two segments, and segments that a broker cuts anywhere: `mqtt_tcpclient_recv` takes the rest for a packet of its own.
3. The texts of the web server's Wi-Fi answers and the connection status it reports (`user_esp_platform.c`).

**Not modelled and why.** Mesh routing and smartconfig are closed libraries;
`mesh_json.c` formats packets around one, and `mesh_parser.c` hands the library's packets on (those
that carry user data without their header, mesh_parser.c:33-37). `tcp_server.c` is never started and would forward callbacks.
Register setup in `uart.c` and the transmit buffer, which nothing calls, keep no
state that matters here. Meters, soft UART, slave list and LCD are not built.
`MQTT_DeleteClient`, `MQTT_Ping`, `MQTT_OnTimeout`, `mesh_device_del` and the grouping of nodes for a multicast have no caller.
A text or payload that overflows a buffer on the stack, or a static one whose neighbours are unknown
(`tx_buf`, `buff[512]`), is undefined behaviour and outside the models; an array of `SYSCFG` has known
neighbours, and there the models follow what is overwritten.
