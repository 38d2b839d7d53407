# TLA+ models of mobileair_pico

This directory is a verification development of the firmware in `src/`: a
Raspberry Pi Pico 2 W that measures particulate matter, logs to an SD card as
CSV, and serves a configuration portal (as an access point) or a status
dashboard (as a Wi-Fi station). The modules are TLA+, the `.cfg` files are TLC
runs, the `*Proofs` modules are proofs TLAPS checks. `PROJECT.json` lists runs,
mutants, findings, hazards, theorems, and for every definition the source
lines it models.

To check a run `X` of module `M`: `tlc -config X.cfg M.tla`. To check proofs:
`tlapm <module>Proofs.tla`; there are eight: `DatalogProofs`, `AppControlProofs`,
`HttpProofs`, `DhcpProofs`, `SensorProofs`, `LogRingProofs`, `SdCardProofs`,
`SmallPartsProofs`.

## 1. The system

Everything runs on one core, in one thread, in `main`. There are no tasks.
Concurrency comes from four places:

- lwIP's `httpd` callbacks, which run only inside `cyw43_arch_poll()` (called by
  `wifi_manager::poll()` and by the SDK's blocking connect), and interleave
  several TCP connections there;
- the power, which goes at any instruction; the card, the flash sector and the
  battery-backed clock keep what was written;
- the network and the card: packets are lost and repeated, transfers fail;
- the millisecond counter, which wraps.

| Component | State | Operations | Talks to |
|---|---|---|---|
| main loop (`main.cpp`) | `s_state`, `s_creds` | the state machine INIT, CHECK_CREDS, TRY_CONNECT, START_PORTAL, PORTAL_RUNNING, PORTAL_CONNECTING, CONNECTED; the 'r' key at boot; the sensor loop | everything, by calls |
| SD log (`storage/datalog.cpp`) | header on the card and in RAM, sector buffer, `s_ready` | `init`, `append`, `flush`, `read_data`, `get_data_bytes` | sdcard; called by main and by the portal's download |
| SD card driver (`storage/sdcard.cpp`) | card type, ready flag | `init`, `read_block`, `write_block` over SPI | the card |
| captive portal (`portal/captive_portal.cpp`) | mode, flags for main, submitted credentials, one POST buffer, static response buffers | `start`, `start_status`, `stop`, `get_credentials`, `set_connect_result`; httpd's POST and file callbacks | httpd calls it; main polls its flags |
| DHCP server (`portal/dhcp_server.c`) | lease table, UDP socket | DISCOVER, REQUEST, init, deinit | lwIP calls it |
| DNS server (`portal/dns_server.cpp`) | UDP socket | start, stop, answer a query | lwIP calls it |
| Wi-Fi manager (`wifi/wifi_manager.cpp`) | AP and STA flags, scan results | init, start_ap, stop_ap, connect_sta, scan, poll | CYW43 driver |
| credentials (`wifi/wifi_credentials.cpp`) | one flash sector with magic and CRC | load, save (erase then program), erase | main |
| NextPM (`sensors/nextpm.cpp`) | UART0 | Modbus request and answer with timeout | main, the portal's result pages |
| modem (`modem/modem.cpp`) | UART1 | AT command and answer with timeout | the portal |
| RTC (`sensors/ds3231.cpp`) | the chip | read, set | main, portal |
| device mode (`device_mode.cpp`) | mobile or stationary | setter, interval | main, portal |
| log ring (`logger.cpp`) | 100 lines, the line being built | output, copy to a buffer | everything that prints; the portal's /logs |

### What is hard in each, and what makes it right

- **SD log.** A line crosses sectors; a sector goes to the card when it is full,
  a partial one when a flush is due or a download reads it; the header follows
  in a second write. Hard: a crash between any two of these writes; a write
  that fails in the middle of a line; a full card; downloads that rewrite the
  sector they are about to read while lines are appended. Right: the log is
  exactly the lines that were accepted; a restart gives back a state the log has
  been in, never more than a flush interval old; what was flushed stays.
- **Control.** Joins fail, links vanish, sockets cannot be created, the chip
  does not start, power goes between the erase and the program of the
  credentials, requests arrive while main changes state. Right: the device
  joins on its own only what has worked; portal credentials belong to this
  portal; servers run beside their interface and are not leaked; the device is
  always reachable again.
- **POST handlers and file layer.** One static buffer, URI, and serve pointer
  for all connections. Right: what reaches main was sent by one client; a
  client receives the response it asked for, whole; responses end.
- **DHCP.** A lease keeps the upper 16 bits of its expiry, compared with a
  counter that wraps; offers are not reservations; answers are lost. Right: two
  clients never hold one address.
- **Serial sensors.** An answer comes after its timeout and is taken for the
  answer of the next request. Right: a value is the value of the register
  that was asked for.
- **Log ring.** A full ring whose oldest line is where the next one goes; a copy
  into a buffer that may be too small; escape sequences cut off by the end of a
  line. Right: the page shows the last lines, in order, whole, and all of them.
- **SD driver.** Any command of the identification can fail, and the card can be
  swapped between any two steps. Right: a block is where it was written, a call
  succeeds only if an identified card took it, and a wrong addressing has one
  known cause.
- **Modem.** An answer does not say which command it is for, and may come after
  its timeout and after the flush of the next command. Right: a page shows the
  answer to its own command.
- **Scan.** Reports come while main polls, repeat themselves, and may belong to a
  scan of an earlier portal session; the table and the page can be full. Right:
  the page lists each network once, strongest first, and scans go on.
- **Timer of the readings.** An absolute time on a counter that wraps. Right: the
  pace is that of the mode, except around the wrap, in two known ways.
- **RTC.** A write that breaks off leaves a mixed date; BCD, years in eight bits,
  a quotient that loses its sign. Right: the date told is the date shown.

The full list, line by line, is under "hazards" in `PROJECT.json`; a hazard
without a property says why.

## 2. The modules

| Module | What it is | Checked by | Proved in |
|---|---|---|---|
| `CsvLog` | abstract log: append, sync, power cut | `datalog_crash` (refinement) | `DatalogProofs` (refinement) |
| `Datalog` | `storage/datalog.cpp` down to single block writes, with the `/sd-csv` download | `datalog_*` | `DatalogProofs` |
| `CaptivePortal` | flags, POST callbacks and sockets of the portal; actions on its own variables only | through `AppControl` | through `AppControlProofs` |
| `AppControl` | main's state machine composed with the portal, Wi-Fi and flash | `app_*` | `AppControlProofs` |
| `HttpFiles` | `fs_open_custom`, `fs_read_custom`, `fs_close_custom` on several connections | `http_*` | `HttpProofs` |
| `DhcpServer` | the lease table, the wrapping clock, and clients on a lossy network | `dhcp_leases` | `DhcpProofs` |
| `ParticleSensor` | `sensors/nextpm.cpp`: the transactions of a reading, and the sensor | `sensor_readings` | `SensorProofs` |
| `BlockStore` | abstract card: blocks read and written one at a time | `sdcard_blocks` (refinement) | `SdCardProofs` (refinement) |
| `SdCard` | `storage/sdcard.cpp`, and cards that are swapped | `sdcard_blocks` | `SdCardProofs` |
| `RecentLines` | abstract log of the last lines | `small_parts` (refinement) | `LogRingProofs` (refinement) |
| `LogRing` | `logger.cpp` | `small_parts` | `LogRingProofs` |
| `Clock` | the wrapping millisecond counter of main's loops | through the next two | through `SmallPartsProofs` |
| `WifiScan` | the scan of `wifi/wifi_manager.cpp` and main's PORTAL_RUNNING | `small_parts` | `SmallPartsProofs` |
| `MeasureTimer` | when main's CONNECTED loop reads the sensor; `device_mode.cpp` | `small_parts` | `SmallPartsProofs` |
| `ModemLink` | `modem/modem.cpp` and the pages that use it | `small_parts` | `SmallPartsProofs` |
| `Rtc` | `sensors/ds3231.cpp`, its pages, the date of a line | `small_parts` | `SmallPartsProofs` |
| `SmallParts` | the last five of these components side by side | `small_parts` | `SmallPartsProofs` |
| `MC*` | values for the constants of the runs | | |

### Datalog

`cardHdr` is sector 0, `card` the data sectors end to end. `s_hdr`, `s_buf`,
`s_ready` are the static variables. Since nothing else runs while a call of
the log runs, except the power cut, a call is a sequence of steps named by
`pc`; `tmp` and `written` are append's locals, `dl` the file httpd has open on
the log.

- `BootWithoutCard`, `BootResume`, `BootFresh`: the three outcomes of `init`. A
  header that cannot be read takes the fresh branch, as `read_header` returns
  one `false` for both.
- `Append_`, `CopyChunk`, `WriteSector`, `WriteSectorFails`, `AppendEnd`: the
  guards, the turns of the copy loop, the write of a full sector and its early
  return, and the line count with the flush every `FlushEvery` lines.
- `FlushData`, `FlushHeader`: the two writes of `flush`, neither result looked
  at.
- `OpenDownload`, `FixLength`, `RequestChunk`, `ReadChunk`, `CloseDownload`:
  `fs_open_custom` flushes and then takes the length, `read_data` flushes and
  then copies from the card up to the first sector it cannot read.
- `Crash` at any point. A block write happens or does not; a write reported as
  failed may have reached the card (the wait for the card's busy signal can time
  out).

`log`, `synced`, `clean` are ghosts: what append accepted, what the last flush
without failure made durable, whether the running one has failed.

`CsvLog` promises a file of whole lines with durable points; `Datalog`
implements it with the refinement mapping `durable <- OnCard` (the bytes the
header on the card covers) and `unsynced <- lines counted since that header`.
That holds on a sound card: the faults of the other runs break it, and each of
those is a run.

### CaptivePortal and AppControl

`CaptivePortal` has the portal's static variables under their names and one
action per callback or call. POST texts are sequences of fields, each tagged
with the user whose value it carries; `httpd_post_begin` resets the length but
not the text, so what an earlier POST left behind is visible to
`extract_field` (`Extracted`). `/rtc-set` reads its fields into arrays that
nobody initialised: where the text has none, `ExtractedClock` allows what the
stack held.

Two ghosts say whose the credentials are. `owner` is the connection whose POST
was begun in the running session and has had the buffer to itself since: a begin
on another connection, a button, data of another connection and a new session
end that. `submitter` is the user whose form `s_submitted` came from, set when an
owner's POST finishes with its whole body; any other POST that finishes in a
session leaves `Garbled`, and one that finishes in none leaves `Empty`, as does
the next `start`. `FreshCredentials` says what a session may rely on: main takes
no credentials that were ready before the session began, and a form that was sent
whole and undisturbed is what main takes, whatever text lies in the buffer. Of a
POST that ends early, or shares the buffer, it says nothing, because the code
does hand over old text then: that is the run `app_mixed_posts`.

`AppControl` splits main's states at blocking calls: PORTAL_CONNECTING is
`PORTAL_CONNECTING` (portal and access point still up), `PORTAL_JOIN` (the
blocking connect) and `PORTAL_SAVE` (sector erased, not programmed); CONNECTED
is `CONNECTED` (start of the status server), `STATUS_LOOP`, and `REBOOTING`
(ten more polls, then the watchdog). `Polling` says in which of them httpd's
callbacks run, `Interface` over which of the two a client can reach it, and
`Accepted` what `httpd_post_begin` takes there: all four URIs over either
interface, whatever its page offers, as far as the constant `Requests` of the run
goes. The poll
and the test of a flag that follow each other in the code are separate actions,
which only adds interleavings that a slower client produces. `Join` succeeds
only with a network's own password. `known` is a ghost: the credentials that
have worked and were not erased.

### HttpFiles

A response is measured in pieces, each a triple of the buffer, the request it
was composed for and its position. Opening composes into the one buffer of the
URI and sets the one serve pointer; reading takes pieces from the log if anyone
streams it, else from the buffer opened last, as it is now; closing clears the
streaming flag. `/rtc-set-result` is composed by the end of a POST: a client that
asks for it itself is served what stands in the buffer, at first nothing
(`Stands`, `LenOf`). `legible` is how much of the log the card reads at the moment
(`CardChanges`): at a sector that cannot be read, `read_data` stops short, or
returns nothing. httpd counts the reads in a row that got nothing (`retries`) and
closes such a connection at `MaxRetries` (`GiveUp`), which is external. `got` is
what the client of an open file received.

### DhcpServer

The clock is modulo `Ticks` (2^32 ms), a lease keeps the clock divided by
`Unit` (2^16 ms), and is compared as a signed difference of that width, as the
macros of the code do. `Discover` and `Request` are the two messages the server
handles; a lost answer leaves the client as it was and the server's table
changed. The clients are external: a client counts its lease from the moment it
first sends the request, asks again for an address it remembers, leaves, and
comes back after the access point restarted with an empty table.

### ParticleSensor

`read()` is six transactions (`Values`): `Send` empties the FIFO and sends the
request, `Take` is a turn of the receiving loop, `Silence` and `Timeout` are its
two ends, `Conclude` is what `read_holding_registers` and `read` do next:
`Accepted` are the tests of the answer, `NextField` the next value. An answer
names no register, and the three PM answers have one shape, as the status,
temperature and humidity answers have: `Count` is all the code can tell. So that
a silence can fall inside a frame, a frame has two parts; its register and
the parity of the reading that asked for it are there for the properties only.
The sensor (`Arrive`, `Replies`) answers, garbles, or is silent; where `Pauses`
allows it, it is slower than the 500 ms or the 5 ms the code waits. `slow` is the
ghost that says that this happened in the running reading. What the code
then does is known from the model: the answers of that reading shift by one
request, and one PM value can be logged as another. `RightUnlessSlow` is what is
left: the shift never reaches another reading, and nothing else causes one.

### LogRing

`log_out_chars` is split by character: `OutChar` and `OutNewline`.
Characters are ESC, a letter or another, as `flush_line` tells no more apart.
`Kept` is the ring from its oldest line on, `GetLines(size)` the text `get_lines`
leaves in a buffer of that size. `RecentLines` is a list that drops its first
line when it is full; the refinement mapping is `kept <- Kept`. What a line
shows is the same operator in both, `Stripped`, which follows the nested loops
of the code; `ShownIsVisible` compares it with a definition by positions.

### SdCard and BlockStore

`sd_init_card` is `Identify` and one action per command: `GoIdle` (CMD0),
`SendIfCond` (CMD8), `SendOpCond` (ACMD41 until it succeeds or `TimedOut`),
`ReadOcr` (CMD58) and `ReadCsd` (CMD9). Each has a disjunct for the command that
fails, with what the code makes of it: for most no card, for CMD8 a card of
version 1, for CMD58 a card that counts in bytes, for CMD9 a card without
capacity. `Call` begins `read_block` or `write_block`; `ReadAccepted`, `ReadData`,
`WriteAccepted`, `SendData`, `WriteDone` are their phases and `TransferFails`
their early returns. `Program` is the card's own step. `Swap`, `PowerCut` and
`Reboot` come between any two steps; a reboot finds the card still ready.

A driver that lost the answer to CMD58 multiplies the block number of a
high-capacity card by 512. `OnlyOcrMisleads` says that this is the only way a
card that answers is misaddressed, and `BlockStore` what such a session (`astray`)
still promises: block 0, the header of the log, is found, and no write to
another block reaches it. In a `sound` session every block is where it was
written. A card takes a call (`Take`) only in the session that identified it, and
only a call that was taken can succeed: one that begins on a card swapped in
since fails. The exception is a card that is lost after it took the call, as the
driver sees only the lines: then a read may give anything, and a write that is
reported done may be missing. The mapping is `blocks <- store,
session <- Session, pending <- req, taken <- pc \in {"token", "busy"}`.

### Clock, WifiScan and MeasureTimer

`Clock` has the counter, the step of a turn of a loop (`Passes`) and the
difference of two `uint32_t` (`Minus`). Real time is a ghost in both modules.

`WifiScan`: `StartScan` and `ScanCallback` write the table, `Results` sorts it
once the scan ended, by the exchanges of the code (`Exchanged`, `Pass`, `Sorted`;
networks of one strength keep the order they give), `PortalTurn` is a turn of
PORTAL_RUNNING, and `Listed` what `update_networks_html` puts on the page, one
network after the other (`Entered`). `inTime` is the ghost of
the strongest signal that the running scan reported of each network before the
table was full; `Faithful` says that the page has exactly that. What a full table
does to later reports is section 3's.

`MeasureTimer`: `TimerTurn` reads if `ReadingDue`, and plans the next reading as
`now + Interval`. `SetMode` leaves the planned one. `due` and `elapsed` are
what the modes promise and the time since the last reading. Two things happen at
the wrap, and the properties say that nothing else does: a reading planned just
before the counter wraps and not yet taken when it does is overdue for the next
49.7 days (`OverdueOnlyAfterWrap`); if the sum wraps first, every turn reads
until the counter has wrapped too (`PacedUnlessWrapped`).

### ModemLink

A command is `SendAt` (with the flush, and the modem's decision to answer with
OK, with ERROR or not at all), then `ReadPart` until OK or ERROR, or `TimeOut`.
Answers are parts without a name; `own` and `late` are ghosts. `Verdict` is what
the pages of the modem, the SIM and the LED conclude from the text. Once an
answer is late every following one is taken for the wrong command as long as the
modem keeps answering; `AnswerIsOwn` says that nothing else confuses them.

### Rtc

The seven registers, `set_time` (BCD, and a write that breaks off after any
number of bytes), `Decoded` with the driver's masks, the form of `/rtc-set`, the
page of `/rtc-test` with its temperature, and the date of a line. A field of the
form is cast to eight bits (`FromForm`), the year less 2000; that the other fields
are those of a date, as the page takes them from a `Date` of the browser, is
`RtcAssumption`. A shown temperature keeps as ghosts what the chip was at and
whether it was read: the date and the temperature are two transfers, and if only
the second fails the reading is still ok and the page says 0.0. `TemperatureShown`
leaves that case out, and the sign lost between -0.75 and -0.25 degrees; both are
in section 3.

### SmallParts

The scan, the timer, the modem, the clock chip and the log ring share no
variable but the counter, and none calls another, so that their interleavings
say nothing. `SmallParts` chooses one at the start (`part`, which is not a
variable of the code) and leaves the others alone: one run checks the sum of
their states.

### What is assumed of code that is not in the repository

- httpd calls its callbacks inside a poll only; for a POST with an empty body
  it calls begin and finished one after the other; it calls
  `httpd_post_finished` also when a connection is closed before its body came;
  it gives up connections that make no progress over several polls
  (`HTTPD_MAX_RETRIES`).
- A DHCP client stops using its address when its lease ends, counted from its
  request, and disassociates when the access point goes away. Its renewal
  carries no requested-address option, which the server does not answer.
- Ten seconds after a reading began, the sensor has sent whatever it still had
  to send of the reading before (the shortest interval between two readings is
  10 s). Inside a reading nothing of the kind is assumed.
- In `Datalog`, a block transfer of the card is atomic and reading a sector that
  cannot be read is reported; `SdCard` is the module about what a transfer is.
- A card answers transfers only once it is ready, a high-capacity card gets
  ready only for a host that announced HCS, and a block is programmed whole or
  not at all.
- The modem answers in order; it may drop an answer when the next command
  comes. The UART keeps up while someone reads, and may lose what nobody reads.
- A scan of the CYW43 that is running when the portal starts anew may still
  report, and ends.
- The DS3231 keeps what a transfer wrote before it broke off. No second passes
  between a setting and a display, as counting is the chip's.
- A turn of a loop of main takes at least one tick of the counter and at most
  `MaxTurn`.

## 3. The runs

| Run | Question | Answer |
|---|---|---|
| `datalog_crash` | With a power cut between any two block writes, and downloads between appends: is the log exact, and is it a `CsvLog`? | yes: `Mirror`, `LineCountExact`, `DownloadExact`, `ImplementsCsvLog` |
| `datalog_faults` | On a blank and tiny card whose writes fail and fill up: is anything overrun, lost after a flush, or stuck? | no: `TypeOK`, `DurablePrefix`, `CallsReturn` |
| `datalog_boot_read` | Is an existing log always resumed? | no: a header that cannot be read once is overwritten |
| `app_portal` | Two users' forms, buttons, failures and one power cut: `JoinsOnlyKnown`, `FreshCredentials`, `ServersMatch`, `EventuallyUsable`? | yes |
| `app_stale_forget` | Are credentials erased only when that was asked of the server being rebooted? | no: the forget flag outlives the session |
| `app_mixed_posts` | Are the submitted credentials one client's? | no: shared buffer, and finish without a body |
| `http_files` | With sectors that cannot be read and connections cut off: is a response nobody overlaps whole, is none too long, does each end? | yes: `WholeAlone`, `LengthHonoured`, `ResponsesEnd` |
| `http_shared` | Is every response whole? | no: one serve pointer for all connections |
| `dhcp_leases` | Does a client that has an address stay its holder? | yes: `HolderKnown` |
| `sensor_readings` | With answers that are lost, garbled, late or interrupted: is a value that of the register asked for, and does a reading end? | yes, in every reading in which the sensor kept the code's times: `RightUnlessSlow`, `ReadingEnds` |
| `sdcard_blocks` | With any command failing, cards swapped and the power cut: is a block where it was written? | yes, unless the answer to CMD58 was lost, and then the header still is: `OnlyOcrMisleads`, `ImplementsBlockStore`, `CallsReturn` |
| `small_parts`, scan | Is the page a list of one scan, and does scanning go on at its pace? | yes: `ListFaithful`, `RescansPaced`, `RescansGoOn` |
| `small_parts`, timer | Are readings taken at the pace of the mode, at every position of the counter? | yes, but for the wrap: `PacedUnlessWrapped`, `OverdueOnlyAfterWrap` |
| `small_parts`, modem | Is what a page says the answer to its command? | yes, unless an answer was owed when it was sent: `AnswerIsOwn` |
| `small_parts`, clock chip | Is the date shown the one that was set, and the temperature the chip's? | yes: `ClockTrue`, `TemperatureShown` |
| `small_parts`, log ring | Is the ring the last lines, is a copy whole lines and the page all of them? | yes: `ImplementsRecentLines`, `ShownIsVisible`, `CopyExact`, `AllShown` |

The runs that find a violation state what a comment, a header or the change log
says; `PROJECT.json` quotes it under "findings". The properties of the other runs
name the cases they leave out, and a maintainer should know of them too. In five
the code differs from what a text of the repository says, although no run is
about them:

- The column line of a fresh card is lost when the device reboots before the
  first flush: `init` writes only the header, which counts it already, and leaves
  the line in RAM (`datalog.cpp:84`). The comment at `datalog.cpp:78` says "Write
  the CSV column header as first line".
- A full scan table drops every later report, also a stronger signal of a network
  in it (`wifi_manager.cpp:18`). The comment at `wifi_manager.cpp:23` says "Skip
  duplicates (keep strongest signal)".
- Around the wrap of the counter the sensor is read in every turn, or not for 49.7
  days (`main.cpp:367`). `CHANGELOG.md:40` says "Mode Mobile (10s) / Stationnaire
  (60s)".
- A temperature that was not read is shown as 0.0 (`ds3231.cpp:99`), although
  `ds3231.h:26` says "Read date/time and temperature".
- From -0.75 to -0.25 degrees the temperature is shown without its sign
  (`captive_portal.cpp:951`), although `ds3231.h:19` gives it a resolution of 0.25.

The others contradict no text: a card can be misaddressed after a lost answer to
CMD58; answers of the modem can shift by one command, values of the sensor by one
request; a failed write to the clock chip leaves a mixed date.

### Bounds

- `datalog_crash`: sectors of 4 bytes, lines of 2 and 3 bytes with their
  newline, so that a line ends before, at and after the end of a sector, and
  crosses it at every offset; a flush every 3 lines, 6 lines, so that the
  counter passes two flushes and sectors fill between and inside them; chunks of
  3 and 5 bytes, below and above a sector. The longest line is the longest the
  code accepts, and the six sectors hold every log that can come about with one
  to spare, so that the run is an instance of `SoundCard` (section 4).
- `datalog_faults`: two sectors, so that the card fills up; a flush every
  second line; any write may fail; nothing is read back. `MaxLines` bounds the
  lines accepted, not the attempts.
- `app_portal`: one connection and two users, so that text of one user is in the
  buffer when the other's form comes, in the same session or the next; the
  credentials form on the hotspot, the clock form and the two buttons on the
  status page. A form of one session may still end in the next, of either kind, and
  the flags of a button may outlast theirs. One power cut and one failure of chip or sockets: a power cut resets
  everything but the flash sector, the clock and the ghost `known`, so a second one
  can only meet a combination of those that the first one met already. Two
  connections are in `app_mixed_posts`. The invariants are proved for any number of
  connections, users, failures and power cuts, and any requests; only
  `EventuallyUsable` rests on the bounds.
- `http_files`: two connections and two requests in a run, each of any way of composing a response,
  responses of up to 3 pieces read by 2, a log of up to 2, with a download
  header that is longer for the longer log, as its decimal length is. The card
  reads any beginning of the log, and that changes at any time; httpd gives up at
  the second read that gets nothing, so that the count also starts over.
- `dhcp_leases`: two clients, two slots, a counter of 32 ticks that starts
  anywhere and wraps, a lease of 6, rounding of 4. The inequality the
  code's numbers satisfy, lease + rounding < half the counter, is `DhcpAssumption`.
  Symmetry of the clients is sound: only invariants are checked.
- `sensor_readings`: all six values, so that an answer can be one, two or more
  requests behind; each request answered, garbled or unanswered; both
  pauses. Two parities of readings are enough: what is owed when a reading
  starts is nothing, so only the FIFO can carry an answer over, and the first
  request empties it.
- `sdcard_blocks`: three sectors, and callers that also ask for one more than the
  card has; blocks of two bytes, so that an address multiplied by mistake falls
  on another sector of the card or outside it; two values; ACMD41 sent twice;
  all kinds of card, and a swap to any card with any contents.
- `small_parts`: a counter of 6 ticks that starts anywhere, turns of 1 or 2,
  intervals of 2 and 4, which is the largest that `TimerAssumption` allows, so
  that the sum, the counter, both or neither wrap between two readings; a
  rescan after 2. Three networks, a table of three, entries of two sizes of which
  not all fit on the page; two signals, and names that are empty. Five parts of
  answers on their way, so that two answers can be late. Of the clock, the first
  and last second of its century, a Sunday and a year outside, writes that break
  off at the first, an inner and the last byte, temperatures on both sides of
  zero. Of the log ring, three lines, so that an order can be rotated without
  being reversed; lines of three characters, enough for an escape sequence that
  ends, one that is cut off, one in another, and a line that is nothing else; a
  buffer one byte larger than a full ring of full lines, as the inequality in
  `LogAssumption` asks at least, and every smaller size.

### Fairness

- `Datalog!LiveSpec`: a call that has begun takes its steps. The processor does
  not stop in the middle of one; a power cut is a `Crash`.
- `AppControl!LiveSpec`: `WF(Main)`: the main loop keeps turning. No fairness
  on clients, on joins, on the link. That the chip and the sockets fail only
  finitely often is the bound `MaxFailures`; without it the retries of INIT and
  START_PORTAL go on for ever, and so does the code.
- `HttpFiles!LiveSpec`: httpd serves a connection again and again, when its client
  acknowledges or its poll timer runs: `WF` of a read, the close at the end of the
  file, or giving up, per connection. Opening, aborting and the card are not fair:
  a sector may stay unreadable for ever. A read that gets nothing counts a retry,
  so `ResponsesEnd` rests on the file layer telling httpd that nothing came.
- `ParticleSensor!LiveSpec`: `WF` of the processor's steps, since its loop and
  its clock go on, and of `Arrive`, as the sensor sends what it has begun to
  send. Readings are not fair: nobody has to start one.
- `SdCard!LiveSpec`: `WF(Identification)` and `WF(Transfer)`: the driver's waits
  have timeouts, so that some step of it always comes. Nothing is assumed of the
  card: a failing step is a step.
- `SmallParts!LiveSpec`: `WF` of `PortalTurn`, as main keeps turning while the
  portal runs, and of `ScanEnds`, as the chip's scan has an end. That a scan can
  be started is not assumed: the next one is tried 15 s later anyway.

## 4. The proofs

All for every value of the constants that satisfies the module's assumptions.

- `DatalogProofs!TypeCorrect`: `Spec => []TypeOK`. Its content is that the copy
  loop never overruns the sector buffer and that committed bytes are whole
  sectors of the card (`Sized`), for every sector size, set of lines and pattern
  of failing transfers. `TypeOK` is inductive.
- `DatalogProofs!Durability`: `Spec => []DurablePrefix`, if reads do not fail.
  The inductive invariant is `DurableInv`: `Covered` (the card alone has the
  synced bytes), `DataBeforeHeader` (the header of a clean flush is written only
  when its data is there) and `Control`. `DurablePrefix` alone is not inductive,
  as it says nothing of the card, from which a boot restores the buffer. The
  key lemma is `WriteKeepsSynced`: rewriting the partial sector repeats the
  synced bytes it holds. `datalog_boot_read` shows that the assumption is
  needed.
- `DatalogProofs!LogIsExact`, `DownloadIsExact`, `LogIsCsvLog` and
  `LineCountIsExact`: `Mirror`, `DownloadExact`, the refinement of `CsvLog` and
  `LineCountExact`, on a sound card (`SoundCard`): no transfer fails, the card has
  a log, and it has room for `MaxLines` lines and a sector more. Each is
  needed: a full card and a failing write leave the beginning of a line in the
  buffer, and after a failing read a boot starts anew. These are the
  subjects of the other two runs. Nothing is assumed of when the power goes. The
  inductive invariant is `SoundInv`: between the calls and inside them, the card
  up to what RAM has committed and then the sector buffer are the log and the
  part of a line that is being copied (`InRam`); the card alone is the log up to
  what its header covers (`OnDisk`); the header of a running flush is one its
  data is there for (`Flushing`); a download's snapshot is on the card
  (`Downloading`); the line counts of the card and of RAM lie between the same
  two multiples of `FlushEvery`, or the flush that makes the next is running
  (`Interval`), which is why a power cut costs fewer lines than that. `Mirror`
  alone says nothing inside a call and nothing of the card, from which a boot
  restores RAM. `Room` is where the size of the card matters, `SectorWritten` the
  effect of a write. `LineCountIsExact` also needs that an appended line has no
  newline in it and that the column header is one line (`PlainLines`).
- `AppControlProofs!KnownJoined`: `Spec => []JoinsOnlyKnown`, with `KnownInv`,
  which also follows the credentials in RAM from a successful join up to the
  reconnections.
- `AppControlProofs!ServersMatchAlways`: `Spec => []ServersMatch`, which is
  inductive.
- `AppControlProofs!Fresh`: `Spec => []FreshCredentials`. `FreshInv` says that of a
  running server's ready credentials someone is the submitter, and that those of a
  user are that user's; and, which the property does not say, that the text of an
  owner is the part of its form it has sent (`OwnText`), with nothing after it:
  that is why older text cannot get into a form that comes whole (`FormExtracted`).
  `ServersMatch` says that the server runs whenever main looks at the credentials.
- `AppControlProofs!TypeCorrect`: its content is that a POST text that was
  mixed from several, and left over from others, still yields only values that
  some client sent, or none (`ExtractedType`).
- `HttpProofs!TypeCorrect`, `Lengths` and `OneAtATime`: `TypeOK`, `LengthHonoured`
  and `WholeAlone`, for every number of connections. The inductive invariant is
  `Typed`, `Counted` (the index of a file is the number of pieces received) and
  `Alone`: while a response has been the only one since it was opened, the one
  serve pointer, the one streaming flag and the one buffer of its URI are still
  its own (`Served`), and what was received is its beginning (`Matches`).
  `WholeAlone` alone says nothing of these variables, from which the next
  read takes its pieces. The log may grow while it is streamed, which is
  why `Served` compares lengths and does not equate them; and the card may stop
  reading anywhere, which shortens a read and changes none of its pieces
  (`FromCsvPieces`).
- `DhcpProofs!HoldersKnown` and `TypeCorrect`. `LeaseInv` relates the two
  clocks: what the server still grants a bound client, `(ExpiresAt - now) %
  Ticks`, is at least what the client counts and at most a lease plus one unit
  (`Backed`); being below half the counter it is not `Expired`. `FreshLease` is
  the arithmetic of the rounding, `ModStep` and `ModShift` that of a tick across
  the wrap.

- `SensorProofs!RightReadings`: `Spec => []RightUnlessSlow` for all `Pauses`.
  The inductive invariant is `OneReply`: while the sensor has kept the times, the
  bytes received, waiting and owed are, joined, one reply to the running request,
  and outside a transaction nothing is owed. `RightUnlessSlow` alone says nothing
  of the wire. `SilenceEnds` is the step where the times matter.
- `SensorProofs!TypeCorrect`: `Spec => []TypeOK`. `TypeOK` is inductive with the
  invariant of the theorem above and `Taken`: a value is an answer the sensor can
  give or none, and a field is being read exactly while a reading runs.
- `LogRingProofs!RingIsRecentLines`: `Spec => ImplementsRecentLines`, by step
  simulation, with `RingInv` (until the ring is full, the head is the count).
  `HeadMoves` is the arithmetic of a full ring. It holds for whatever stripping a
  line returns, so nothing is assumed of that fold.
- `LogRingProofs!LogTyped`, `Visibility`, `Exact` and `Whole`: `TypeOK`,
  `ShownIsVisible`, `CopyExact` and `AllShown`, for every length of a line, number
  of lines and size of buffer, with `LogInv` (`RingInv` and `TypeOK`, together
  inductive). What is hard is not the step but the operators: `Stripped` folds over
  the characters of a line, `GetLines` over the lines of the ring. `StrippedLine`
  says of every line what positions the fold keeps: exactly those that `Hidden`
  does not place inside an escape sequence, which it decides from the whole line
  and the code from one flag. `StrippedAppend` is its step. `FlattenIs` and
  `FlattenGrows` give the text of the first lines and its length, `CopyOf` says that
  a buffer whose size lies between two such texts holds the shorter one, `TextFits`
  that a full ring of full lines fits the page's buffer (`LogAssumption`).
- `SdCardProofs!TypeCorrect`, `Addressing` and `Refines`, for every size of card,
  block and address space. The inductive invariant is `IInv`: `InCall` (a call
  runs exactly while `pc` is in a transfer), `Identified` (at CMD58 the card is
  of version 2; from CMD9 on, `OnlyOcrMisleads`) and `InRange` (a transfer the
  card accepted is about a block it has). `OnlyOcrMisleads` alone says nothing of
  the identification, where the type is decided. `Refines` is a step simulation;
  its lemmas say where a block of a misaddressed card is looked for (block 0 at
  0, no other there), which is where `MaxBlock * BlockSize < AddressSpace` is
  used. The card's acceptance of a command maps to `Take`, without which no call
  succeeds.
- `SmallPartsProofs!Overdue` and `Paced`: the invariant relates what is left of
  the promised interval to what is left until the planned time (`Ahead`, `Behind`),
  as long as neither the counter nor the sum has wrapped. That an interval plus a
  turn is no longer than the counter (`TimerAssumption`) is needed: otherwise a
  turn could pass the planned time and the wrap at once.
  `ScansPaced`: the ghost time is at least the difference of counters the
  code takes, to the tick. `OwnAnswers`: without a late answer, everything received, waiting and
  owed is the running command's, and joined is what the modem answered.
- `SmallPartsProofs!ListsFaithful`: `ListFaithful`, for every number of networks and
  size of table and page. The inductive invariant is `ListInv`: at every moment, and
  not only when a list is made, the table holds each network once, with the
  strongest signal heard before it was full, and every network heard by then
  (`HeardOf`); a scan that was started is running or its table is not yet sorted,
  and a sorted table is not written to again unless a start failed. `ListFaithful`
  alone says nothing while a scan runs. `PassIs` and `SortedIs` prove the sort of the
  code: the networks stay, each pass puts one more in its place (`Placed`).
  `ListedIs` proves the page: the entries are taken in order, and one that is left
  out is at least as long as the room that remains (`Pages`). Nothing is
  assumed of the chip: it reports what it likes, when it likes.
- `SmallPartsProofs!ClockIsTrue` and `TemperatureIsShown`: `ClockTrue` for every date
  a form can set, `TemperatureShown` for all 1024 values of the chip but the three it leaves out. `RtcInv` says
  that the registers hold the digits of the date that was told, whatever settings
  broke off before, and that what is shown was read from them; `BackFromBcd` is the
  round trip through a register and its mask, `Degrees` the truncating quotients.
- `SmallPartsProofs!PartsTyped`: `PartsTypeOK`, from `PartsInv` and `ContentsInv`, the
  conjunction of the invariants of the five parts. That the answers which Reset and
  check leave fit the model's bound is `ModemAssumption`.

What these theorems need beyond a step of the system is induction over data: over
the positions of a line, the lines of the ring, the passes of a sort, the entries
of a page. The induction theorems of the library take an operator as a parameter,
which the provers here cannot instantiate. `LogRingProofs` has it for sets instead
of predicates: a set of naturals that is not empty has a least member (`LeastNat`,
from the library's theorem on well-founded relations), so a set that has 0 and, with
each number, the next, has all (`Induction`); a function that follows steps, each
of which keeps to a set, exists (`RecursionKeeps`) and stays in those sets
(`RecursiveKeeps`). The recursive functions of the model are `CHOOSE`s of such a
function; each proof shows that there is one, and then that any does what is
claimed.

Only model-checked: liveness (`CallsReturn` of the log and of the driver,
`EventuallyUsable`, `ResponsesEnd`, `ReadingEnds`, `RescansGoOn`), as TLAPS has no
rule for fairness and `ENABLED` here. Every invariant and every action property
without liveness that a passing run checks is a theorem.

## 5. Plan

Every component with a state of its own has its module, and every safety property
is proved. What remains is a run for each of the five differences of section 3, and `Datalog` over `BlockStore` instead of its own card, so
that the log's faults are the driver's.

## 6. Not modelled

- HTML and JSON composition, parsing and scaling of register contents, status
  bits, DNS answers: pure functions of one input.
- The SPI bytes of a command, its CRC and the retries inside it: a command is one
  step that succeeds or fails.
- The second registration with mDNS on every entry of CONNECTED (`main.cpp:57`):
  what it does is lwIP's, and main looks at no result.
- The `init`, `test` and `get_last` of the clock chip, which probe it or have no
  caller.
- lwIP, the CYW43 driver and the SDK: not in the repository; their assumed
  behaviour is in section 2.
- Disconnecting the station and reading its RSSI: nothing in main depends on
  them.
- The format of a log line: a line is a sequence of bytes without newline.
