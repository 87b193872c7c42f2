# i-Telex in TLA+

i-Telex connects teleprinters over the Internet. The firmware in this repository
runs on an ATmega 2561 or 1284P with an Ethernet chip; it sits between the
two-wire (TWI) bus of a local telex exchange, to which the terminals are
connected, and TCP connections to other stations. This directory holds models of the
core of that firmware, the TLC runs that check them and proofs about them. Names are
those of the source (mostly German); line numbers refer to `src/`.

1. [The system](#1-the-system)
2. [Hard behaviours](#2-hard-behaviours)
3. [Modules](#3-modules)
4. [How the models correspond to the code](#4-how-the-models-correspond-to-the-code)
5. [Runs](#5-runs)
6. [Fairness](#6-fairness)
7. [What is proved](#7-what-is-proved)
8. [Where the code goes wrong](#8-where-the-code-goes-wrong)
9. [What is not modelled](#9-what-is-not-modelled)
10. [Plan](#10-plan)

## 1. The system

There is one main loop (`main.c`). `THREAD_mainloop` (`system/thread/thread.c`)
calls every registered function in turn; nothing preempts them but interrupts:

* the timer interrupt, 900 Hz, calls `itelex_timerEvent` (timers, the serial
  converter that shifts characters to and from the terminal at 50 baud);
* the Ethernet interrupt takes packets and runs the TCP state machine (`tcp`),
  and a one second tick runs `TCPTimeOutHandler`.

| Component | State it keeps | Operations | Talks to | Correct when |
|---|---|---|---|---|
| Line (`iTelex/iTelex.c`): mode machine, telex socket, blind socket | `Modus`, `iTelexSocketMode`, `…Handle`, `…IP`, `…AbbauGeplant`, `…Protokoll`, `iTelexBlindSocketHandle`, six buffers, timers | one pass of `itelex_thread`: codes from the bus, watchdog, `SocketBearbeiten`, evaluation of telegrams, timed steps, button | terminal by bus codes, socket table by handle, directory, server client, Centralex | one partner per call; nothing of one call reaches another; the terminal never runs without a reason; every end leads to rest |
| Data path of a call (`iTelex.c` 3191–3317) | `EmpfPuffer`, `SendePuffer`, socket buffers, four counters | code a block, send, receive, print, acknowledge | timer interrupt, line | every character printed once and in order; nothing acknowledged that has not been taken |
| Serial converter (`iTelex.c` 1079–1205) | two shift registers with their bit and tick counters | a tick: sample, shift | two-wire bus, data path | what is typed here is received there |
| Socket table (`system/net/tcp.c`) | `TCP_sockettable`: state, peer, sequence numbers, FIFO, timeout | `tcp` (SYN, data, FIN, ACK, RST), timeout handler, `CheckPortRequest`, `GetSocketData`, `PutSocketData_RPE`, `Connect2IP`, `CloseTCPSocket` | interrupt side and every client in the main loop | an entry has one owner; data arrive in order and once; every entry is given back |
| FIFO (`system/buffer/fifo.c`) | ring buffers, indices | put, get, flush | interrupt and main loop | bytes leave in order, none twice |
| Centralex client (`iTelex/Centralex.c`) | `CentralexLinkState`, handle, buffer, server index, back-off | connect, confirm, heartbeat, hand over a call, reject, disconnect, next server | socket table; gives its socket to the line | one owner of the socket at the hand-over; reconnects for ever |
| Dynamic address, number query, self call (`iTelex.c` 3319–3516, 4140–4295, 5123–5446) | `DynIP_Phase`, `SelbstAnrufPhase`, error counters, one server socket | renew, confirm, ask, search, call oneself, retry | subscriber servers, socket table, line | the address at the server becomes right again |
| Subscriber server (`iTelex/TlnServer.c`) | channels, a date per other server | answer stations, synchronise with other servers, full queries | socket table, directory | no change is forgotten; all servers come to agree |
| Directory (`iTelex/TlnBuch.c`) | entries in memory, a check sum, a copy in EEPROM | find, add, replace, remove, evict, sort, list, sum up, save, load | server, line, web pages | one entry per number; a listing and a sum see every entry |
| E-mail client (`iTelex/eMail.c`) | `ProtokollPhase`, socket | POP3 and SMTP dialogues | line (prints), socket table | no mail deleted unread, none sent with a gap |
| Call log (`iTelex/Protokoll.c`) | message buffer, file name | add, save, withdraw a block of regular messages | file system, serial line | every message once and in order |
| File system (`system/filesystem/fat.c`), data base (`system/nano_DB`) | blocks of the SD card | create, write, resize, seek, delete, list | log, web pages | a power failure spoils no file |
| Bus to the terminal (`iTelex/SwTwi.c`, git submodule `itelex-misc`) | TWI lines | send and receive codes and levels | line | outside the tree |
| In-system programmer (`iTelex/IspMaster.c`) | flash image state | program another controller | web pages | sequential |
| UDP, DHCP, DNS, NTP, DynDNS, ARP | tables, retry timers | request, answer, time-out | Ethernet interrupt | a lost answer is asked for again |
| Clock, cron, threads | timer and callback tables | register, remove, tick | all | a callback runs when it is due |
| Configuration (`system/config/eeconfig.c`, `xeemem.h`) | key/value records | read, write | all | the last value written is read |
| Web server, telnet, shell, drivers, boot loader | – | – | – | inherited or vendored, not telex logic |
| Host tests (`tests/`) | – | unit tests for Baudot code, parsing, FIFO, checksums, strings | – | do not touch the mode machine or the sockets |

The whole list with its sources and status is in `PROJECT.json`
(`components`).

## 2. Hard behaviours

What the host tests cannot reach, and what the properties are for
(`PROJECT.json`, `hazards`, has every item with its line):

* **Interleaving.** A pass of the thread consists of some twenty blocks. Between
  any two of them the network may free, fill or reuse a socket entry, and
  characters are printed and typed. The directory is listed, summed up and saved in
  pieces while it changes.
* **Stale handles.** A handle is an index into the table. The entry it refers to may
  have been closed, freed and given to another caller.
* **Loss and reconnect.** A lost connection is taken up again by the caller (2204)
  or accepted again from the same address (1980), up to 30 s later, while other
  callers try and while the rest of a torn block waits in the buffer. Packets are lost,
  repeated and overtake each other.
* **One end, many ways.** The partner, the terminal, the button, the bus watchdog,
  four time-outs, repeated send errors and a refused call end a call, at any stage
  of its start. Each place resets its own choice of variables.
* **Distributed state.** Subscriber servers hold copies of one directory, and tell each
  other what has changed by one date per server. Two stations hold counters of one
  another's characters, modulo 256.
* **Crashes.** The card and the EEPROM are written in pieces; the power may fail between
  any two of them. A server restarts with its dates lost.
* **Bounded resources.** Two sockets per line, buffers that may be full when an END
  telegram must be queued, a directory, a card and counters that are full, stop or wrap.

## 3. Modules

| Module | What it is |
|---|---|
| `TcpSockets` | the socket table: the interrupt's actions, and what the main loop calls as operators on the table |
| `Verbindung` | one line: extends `TcpSockets`, adds the station's variables and the blocks of a pass; properties and fairness |
| `Leitung` | what a telex line promises, without sockets, buffers and timers: three variables, seven steps; `Verbindung` implements it (`ImplementiertLeitung`) |
| `Centralex` | the Centralex client, composed with the line (the steps of `Leitung`, with the table entries it holds) over the same socket table |
| `TcpStrom` | the byte stream of one connection: sequence numbers, acknowledgements, retransmission, the receive FIFO |
| `Zeichenweg` | the way of a character through two stations |
| `Umsetzer` | two serial converters on the two-wire bus |
| `TlnServer` | subscriber servers with their channels and dialogues |
| `TlnBuch` | the directory in its memory, its lister, check sum and backup |
| `DynIP` | the station as a client of the subscriber servers; the self call |
| `EMail` | the e-mail client with the part of the mode machine that carries it |
| `Dateisystem` | the FAT16 file system, one write to the card at a time |
| `Protokoll` | the log: extends `Dateisystem` |
| `MCVerbindung`, `MCCentralex`, `MCTlnServer`, `MCEMail` | instances for TLC; values are in the `.cfg` files |
| `MCDienste` (`TlnBuch`, `TcpStrom`), `MCWege` (`TlnServer`, `Zeichenweg`, `Umsetzer`), `MCStation` (`DynIP`, `Dateisystem`, `Protokoll`) | several parts that share no state, each checked by itself in one run: the initial state says which part moves |
| `*Proofs` | theorems and lemmas, checked by TLAPS (section 7); `DiensteProofs` about both parts of `MCDienste` |

`Verbindung` EXTENDS `TcpSockets` because the two share the table: an action of the
thread changes entries, an action of the interrupt changes what the thread will see.
`Centralex` uses `Leitung` in place of `Verbindung`: what the client sees of the line is
whether it is at rest (`Modus`, `iTelexSocketMode`), and `ImplementiertLeitung` shows that
the line does no other steps. What `Leitung` leaves out and the client shares with it, the
table, is added as `belegt`: the line takes waiting callers, opens and closes sockets
whenever the table allows it.

## 4. How the models correspond to the code

### TcpSockets

`tcp` is `TCP_sockettable`; an entry has its state `st`, the address `peer`
(`SourceIP`) and its receive FIFO `rx`. `SynEmpfangen`, `DatenEmpfangen`,
`FinEmpfangen` are the branches of `tcp`, `Zeitueberschreitung` the branch of
`TCPTimeOutHandler` that sends a FIN to a silent partner, `SocketFrei` the end of
either closing handshake. `Ready2Use` also stands for the two handshake states
before it, which the main loop never touches. `CheckPortRequest` is
`PortRequest`/`Angenommen`: the scan turns **every** entry to `SOCKET_READY` whose time left
is smaller than those before it and returns the last; what the times are is up to
the network, so K is any non-empty set of waiting entries and the result its largest
member. `CloseTCPSocket` works on `SOCKET_READY` only.

Telegrams have kinds: `Null`, `Durchwahl`, `Kopf` and `Rest` (a block of Baudot
data in two pieces, so that it can be torn), `Ende` (END and STOP), `Quitt`, `Version`,
`Ascii`; from a Centralex server also `Confirm` and `Call`. Each carries the station that sent it as a ghost tag.

### Verbindung

`itx` is a record of the static variables of `iTelex.c`; the comment at each field
names the variable. `pc` is the block of `itelex_thread` that runs next:

| `pc` | Action(s) | Code |
|---|---|---|
| Twi | `KeinCode`, `BusVerbaufnahme`, `BusKdoEin`, `BusQuittEin`, `Wahlziffer`, `BusQuittSchluss`, `BusKdoSchluss` | 4343–4580 |
| Waechter | `Waechter` | 4586–4602 |
| Port | `KeinAnruf`, `AnrufNochNichtSichtbar`, `AnrufAnnehmen`, `AnrufAbweisen` | 1934–2048 |
| Trennung | `Trennung`, `PlanmaessigerAbbau`, `KeineTrennung` | 2052–2136 |
| Empfang | `Empfang` | 2140–2184 |
| Senden | `Senden` (life sign, reconnect, send) | 2188–2319 |
| Abbruch | `BlindBleibt`, `BlindEnde`, with `Aufgegeben` | 2334–2371 |
| Auswerten | `Auswerten` | 4610–4669 |
| Dekodieren | `Dekodieren` (one telegram), `DekodierenEnde` | 2823–3185 |
| Weiterleiten | `Weiterleiten` | 3191–3317 |
| Einschalten | `TerminalStarten` | 4673–4720 |
| Wahl5, Wahl15 | `Wahl5`, `Wahl15` | 4862–4887 |
| Fristen | `SchlussFrist`, `EinschaltFrist`, `FunkstilleFrist`, `KeineFrist` | 4889–4918 |
| Taste | `Deaktivieren`, `Aktivieren`, `RestdruckAbbrechen`, `Meldungsdruck` | 4924–5044 |
| Schluss | `Schluss` with `AsciiDruckPufferVerarbeiten` | 5046–5111 |

A helper of the source that changes the station (`ModusWechsel`,
`InterneVerbindungBeenden`, `ExterneVerbindungBeenden`, `SendeStopkommando`,
`WahlAbbruchMeldung`, …) is an operator of the same name that maps a station to the
station after it. So an action is one expression with the calls in their order.

**Interrupts.** `Netz` (Ethernet), `Drucken` and `Tippen` (serial converter) run between
blocks. An interrupt that commutes with a block need not be tried on both
sides of it, so `NetzSichtbar` and `Seriell` name the blocks before which the interrupt is
enabled: those that read or write what it changes.

**Time.** A comparison with a timer is a choice: the step may or may not be taken. The one
exception is `iTelexSocketAbbruchTimer`, whose 30 s are the flag `abbruchUm`
because it is started and tested at several places. What orders two timers
(0.8 s of typing pause before 4 s of life sign, …) is not modelled, so the model has
more behaviours than the code and no property depends on the durations.

**A terminal that starts.** With the new handshake on the bus (`TWIHandshakeNeu`) the terminal of a station that
has dialled confirms its start, and nothing is printed before it does (1158, `WarteStartupQuitt`, here `warte`): the
confirmation is a disjunct of `BusQuittEin`, and the modes that clear the flag are `OhneStartup`. With the old one 1.5 s are waited
for instead, which is a delay only. The send errors (`fehler`, `uint8_t`) are not stopped by the limit: the
count goes on after the socket was closed (2288) and is 0 again after a success or when a new call begins; it wraps at 256.

**Data.** A character in a buffer is the tag of the station it came from or is meant for
(`Lokal` for a text of the station). That is exactly what `NurDieserAnruf`
needs.

**Ghosts.** `geraet` (the terminal was told to start and not told to stop, nor has it
stopped by itself), `von` in a telegram, and `offen` in a socket entry (the head of a block
was sent).

**Switches.** `BusAusfall` and `Funkstille` allow the 4 s bus watchdog and the ten minute
timer. `GeraetKorrekt = TRUE` restricts the terminal to codes in the modes that expect
them; with `FALSE` it may send `BusKdoSchluss` and `BusQuittSchluss` in any mode, which
the code accepts. `Neuvergabe = TRUE` is the table as it is; `FALSE` looks only at
histories in which a freed entry is not given away while a handle still refers to it. (The
finding `x_neuvergabe` shows what happens otherwise; every other run asks what else
could go wrong.) `LangeDienstmeldungen = TRUE` is the configuration in which a short
service message is not printed at the own terminal. `TextBeimWaehlen = FALSE` (in `anrufe` only) looks at histories in
which a station that is being dialled sends no plain text before it confirms the call: such text is kept for the
next call (section 8). `TWIHandshakeNeu` is on in `verlust`, where it matters whether printing ends.

### Centralex

`cx` holds the static variables of `Centralex.c` and the count of refused PINs; one pass of
`CentralexProcess` has four blocks, with `pc = "Leitung"` standing for the rest of the main loop:

| `pc` | Action(s) | Code |
|---|---|---|
| Leitung | `LeitungsSchritt`, `Konfigurieren` (rest of the loop); `Empfang` with `NichtsEmpfangen`, `Bestaetigung`, `RufUebergeben`, `RufOhneSocket`, `RufAbweisen`, `ServerEnde` | 267–420 |
| Verlust | `Verlust`, `Zeitablauf` | 422–449 |
| Aufbau | `Trennen`, `AufbauGelingt`, `AufbauMisslingt`, `KeinAufbau` | 451–579 |
| Senden | `Senden` (`Gesendet`, `Sendefehler`), `SpaetesSchliessen`, `NichtsZuSenden` | 581–601 |

The early returns are edges back to `Leitung`: after a hand-over (354), with an unprocessed rest in the
buffer (449), after a failed connect (540, 557). The buffer is one sequence for what came in and
what is to go out, as in the code; `von` tells who wrote a telegram. `Sendefehler` may happen at
any send: it includes a partial one. A hand-over whose confirmation fails is `RufOhneSocket`: the
line is initialised with handle -1, its partner is read before the table, so it is any.
`AndererServer` is any other configured server, or the same if it is the only one.

### TcpStrom

The receiver is `tcp` (236–318) with `stEmpf.ack` for `AcknowledgeNumber` and `unsort` for `TCP_Unsort`, and
`GetSocketData`; `stFifo` is `FIFO_Table[fifo]` with its three indices. The sender is
`PutSocketData_RPE` (941–1095), one packet at a time, whose states are `lauf`; or any partner that keeps several
packets on the way. `stHin` and `stHer` hold every packet and confirmation ever sent: one
that is taken stays, so it may be lost, come late or come twice. A byte is its place in the stream. Bounds:
`StMaxBytes`; the rest are parameters of the code.

### Zeichenweg

`zw[s]` has the buffers and counters of station s: `EmpfPuffer`, `SocketOutBuf`, `SocketInBuf`, `SendePuffer`,
`AnzahlGesendet`, `AnzahlEmpfangen`, `AnzahlQuittiert`, `SocketSendeQuittung`. `pc` walks through the blocks of one
pass (`Auswerten`: 2931–2979, `BaudotBlockSenden`: 3201–3241, `QuittSenden` and `QuittungErledigt`: 3243–3259, two
steps because the flag may be set in between, `SocketEmpfangen`, `SocketSenden`); `Getippt` and `Gedruckt` are the
timer interrupt, which may come between any two of them. `Abriss` loses what is on the way and keeps the
counters. `ZwUmlauf` is the 256 of the one-byte counts.

### Umsetzer

`um[s]` has the variables 144–184 of `iTelex.c`; `Schritte` is one interrupt (1079–1205) of both stations, which
are in step (the drift of two clocks is part of `UmVerzug`). The bus is external: a change of level is
a message that takes up to `UmVerzug` ticks. The run takes half the ticks of the code for a bit
(9 and 13: SendenBeschleunigen and 100 baud are the code's own values; 18 and 27 behave the same with twice the delay).

### TlnServer

`kanal[s][k]` is `TTlnServKanal`; `buch`, `stichzeit` (`TlnServSyncStichzeit`), `letzte`, `vollErfolg` are the static
variables. `SocketBearbeiten(s, k)` is one call of the function of that name for one channel with one telegram: a
disjunct for every telegram and phase (`AuskunftEmpfangen`, `QuittungEmpfangen`, …, `Unerwartet` for
the default branch). `AktivSyncMeldungKanalOeffnen` and `VollAbfrageKanalOeffnen` open channels, `Annehmen` accepts one,
`Zeitueberschreitung`, `VerbindungBricht`, `GegenseiteZu`, `SelbstAbbau` end them, `Neustart` loses the memory that is not saved.
`FremdRuft` and `FremdSendet` are stations that register and ask. An entry is who
changed it and when; `Lokale` are entries a server keeps for itself. Left out: addresses and names, search
patterns, the error counters.

### TlnBuch

`tb` is the memory as the sequence of its entries, each with its size; an insertion evicts (`TlnPlatzschaffen`),
replaces or appends as in 293–414, with the modes of `TlnHinzufuegen`; sorting (574–622) takes the least entry to the front, again and again,
through the same free memory. A lister has the position in
bytes and the head of the entry it expects there (421–456). `PruefsummeSchritt` sums one byte per pass;
`SichernBeginnen`, `SichernEintrag`, `SichernKopf` save one record per pass, so that `Neubeginn` (a restart) falls between
any two. `tbTeil` bounds a behaviour to one of listing, summing and saving, which do not meet.

### DynIP

`Durchlauf` is what a pass of `itelex_thread` does for the client: `OhneSocket`, `Aktualisierung` (5123–5446),
`Selbstanruf` (4140–4295), the answer (3319–3516), in this order. `diStation.socket` holds what is on the way in
either direction. `UhrDyn`, `UhrSelbst`, `UhrSperre` are the times; `Antwortet`, `Abbruch`, `Ausfall`, `Adresswechsel`,
`TelegrammVerloren` the world. `DiMaxEreignisse` bounds what the world does.

### EMail

One pass is `ElDurchlauf`: a code of the bus, `SocketBearbeiten` with up to the whole queue
of lines, the line of the dialogue (`POP3DatenVerarbeiten`, `SMTPDatenVerarbeiten`), the time-outs, the transition to rest. A command,
an answer and a line are one token; `lang` and `halb` are the pieces of a line that is cut by the buffer
or by TCP. `POP3Abbrechen` writes `DELE` into the buffer and leaves its length as it was (622): `Ueberschrieben` says what is sent
instead of a command that waits there, a DELE in the place of RETR (as long), the beginning of one (`BRUCH`, no end of the line) in the place of a
shorter command. `verworfen` remembers that a RETR was overwritten. `elGeist` remembers what was typed and printed; `elServer` is a server
as the code uses it (external).

### Dateisystem

`fsKarte` is the card: the cluster table, the places of the root directory, the blocks. A call (`FsAnlegen`,
`FsSchreiben`, `FsKuerzen`) works out from the card the single writes it will do, in the order of the code:
an accumulator record (`Beginn`, `Schreibt`) holds the card as it will be and the writes. Then `FsKarteSchreibt` does one write, and
`FsAusfall` drops the rest. This is right because the calls of the main loop follow one another and the card does not change
under them; the one caller outside it is the log's minute (below, and section 8). `FsSchreiben` is
the record write of `nano_db.c` with a seek before it; `FsKuerzen` is `fat_resize_file`; files are also deleted by the
log's web page. A block holds the number of the call that wrote it, so that contents can be compared.

### Protokoll

`pr` has `Puffer`, the state of the card (`SdGestoert`), the file name, the flags of the regular block.
`Speichern` is `ProtokollSpeichern` (106–298), its writes to the card as those of
`Dateisystem`. A message is one block. `Anlauf` is a restart, `DateiLoeschen` the web page.

`SpeichernBeiIdle` (554) is a callback of the clock and runs in the timer's interrupt (`clock.c` 109–167, `timer1.c` 111–116), so it may come at any
point of the main loop. The first minute without a message only marks the log as idle: `IdleSetzen`, at any time. The second one saves:
`SpeichernBeiIdle` between two calls of the file system; `SpeichernNochmals` between the last write of a save and the
emptying of its buffer (282–288, `gerade`), where the same text is written once more (`doppelt`); `HaengtBeiIdle` with a disturbed card, where the interrupt
waits for the serial line, which only an interrupt could empty, until the watchdog restarts the station. The save is taken at the end of
`ProtokollSpeichern` only when the log was idle before: every message takes the mark away, so only the begin of a regular block
(500–505) and the debug page (6027) save with the mark set. The callback in the middle of another call of the file system is left out (section 8).

## 5. Runs

"States" are distinct states.

| Run | Properties | Configuration | States |
|---|---|---|---|
| `anrufe` | `NurDieserAnruf`, `LeitungFrei`, `SocketDesPartners`, `PartnerBleibt` | a and b call, b is dialled; two entries, two connections, blocks of data, plain text, any terminal, ten minutes of silence | 7.1 million |
| `telegramme` | `TypeOK`, `VerbundenMitPartner`, `GeraetAus`, `ImplementiertLeitung` | one partner that calls or is dialled, every kind of telegram, any terminal | 2.0 million |
| `abbau` | `GrundstellungErreicht` | one partner, both directions, two entries | 202 000 |
| `blind` | `FehlerWirdGeheilt`, `BlindSocketFrei` | a caller at a busy line, send errors in the call | 550 000 |
| `verlust` | `VerlustEndet`, `RestdruckEndet` | one entry, two connections, two telegrams and a torn block, unbounded typing, a terminal that may not confirm its start, ten minutes of silence | 593 000 |
| `centralex` | `CxTyp`, `LinkMitSocket`, `EinBesitzer`, `AnmeldungEndet` | two entries, a server and a caller, every kind of telegram of a server | 603 000 |
| `tlnserver` | `NichtsVergessen`, `Konvergenz` | two servers, one number, in three situations: one change with a loss or restart; one change and a station that calls; two telegrams of stations, nothing changes | 367 000 |
| `wege` | `NurNeuere`, `WegeTyp`, `ZeichenFolge`, `QuittungStimmt`, `UmsetzerTreu` | servers with stations that register (223 000), the data path (825 000), the converters (96 000) | 1.15 million |
| `dienste` | `EindeutigUndPassend`, `ListeVollstaendig`, `SummeStimmt`, `SicherungGanz`, `RingPasst`, `StromTreu`, `ErfolgHeisstDa` | a directory of six entries in five bytes; a stream of four bytes | 753 000 |
| `station` | `LaeuftMitSocket`, `AdresseWirdBekannt`, `SelbstAnrufEndet`, `DateienGanz`, `NichtsVerloren`, `ProtokollFolge` | the address against two servers (232 000), the file system (36 000), the log (183 000) | 451 000 |
| `email` | `GeloeschtNurGelesen`, `AngenommenIstAnfang`, `ElSitzungEndet` | one session, one loss of the connection or failure of the bus | 445 000 |
| `x_neuvergabe` | `SocketDesPartners` | see section 8 | counterexample |

The runs of the line and of Centralex, and `tlnserver`, check for deadlock. In the others the bounds
themselves bring a part to a stop (all characters typed, all calls made), and `CHECK_DEADLOCK` is off.

What they show:

* **`NurDieserAnruf`** – what waits to be evaluated, printed or sent during a call came
  from its partner (or the station itself) or is meant for it. Six buffers, cleared in
  six functions. Two of the switches are off here: `Neuvergabe` and `TextBeimWaehlen`.
* **`GeraetAus`** – in the modes that mean "terminal off" it is off, whatever path led
  there, as long as the ten minute timer does not run out.
* **`PartnerBleibt`** – the address of the partner never changes during a call.
* **`LeitungFrei`** – a line at rest, switched off or only seized has no connection, and
  an open socket always belongs to a connection.
* **`SocketDesPartners`** – the open socket leads to the partner of the call and is never
  the socket of the busy signal, through a loss and a reconnect.
* **`VerbundenMitPartner`** – the end of a connection is found in one block, the terminal
  told in another; in between lies the only time a connected terminal has no partner.
* **`TypeOK`** – beside the types: no buffer of the line ever holds more than its size. `SocketOutBuf` is filled at nine places,
  each with its own test for room.
* **`FehlerWirdGeheilt`** – while send errors are counted in an accepted call, neither a sign of life (2192) nor an acknowledgement (3249) is put in; the
  call depends on something being left in the buffer that will be sent. The count survives the close of the socket and is
  cleared at two places.
* **`ImplementiertLeitung`** – under the mapping of the modes to six phases (`Phase`) every step of
  the thread and of the interrupts is a step of `Leitung` or changes nothing there: a call is taken
  at rest only, made only by a terminal that has seized the line, and a line being released comes to rest
  only when its call has ended.
* **`GrundstellungErreicht`**, **`BlindSocketFrei`**, **`VerlustEndet`**, **`RestdruckEndet`** –
  a release ends at rest; the blind socket is given back; a lost connection is taken up
  again or given up; what is left is printed and the terminal switched off. Both are stated without the terminal that has not confirmed
  its start: `VerlustEndet` excepts one whose call is to be closed (nothing is printed, so the loss is not seen, and the ten minutes begin anew in every pass,
  3204), `RestdruckEndet` speaks of it only once the connection has ended, when the ten minutes release it (section 8).
* **`LinkMitSocket`** – link state, handle and buffer of the Centralex client, set at nine places, agree
  between two passes. **`CxTyp`** is also the bound of the buffer and of the refused PINs.
* **`EinBesitzer`** – while sockets change hands, are closed by either side and lost, an entry has
  one owner and the client's leads to the server it has chosen.
* **`AnmeldungEndet`** – a connection attempt or an end of the client does not last for ever, whatever the
  server leaves unsaid.
* **`NichtsVergessen`** – while a server has a newer entry than another (and neither has been restarted) the
  change is still to be reported or a synchronisation is on its way with it. **`Konvergenz`** – in the end all
  agree, with losses and restarts. **`NurNeuere`** – an entry is only replaced by a newer one.
* **`ZeichenFolge`** – what is printed is what was typed, each character once and in order, but for the end of it lost with a
  connection. **`QuittungStimmt`** – the count of unacknowledged characters, kept modulo 256 at two
  places, is never more than what is really on the way. **`UmsetzerTreu`** – a converter receives
  the codes the other has sent.
* **`EindeutigUndPassend`** – whatever is inserted, evicted and sorted, numbers are unique and the entries fit.
  **`ListeVollstaendig`**, **`SummeStimmt`** – a listing or a sum that goes on while the directory changes has
  seen what it must. **`SicherungGanz`** – a backup that counts as valid is one whole directory.
* **`RingPasst`** – the three indices of a FIFO agree. **`StromTreu`** – what is read is the stream, each byte
  once, in order. **`ErfolgHeisstDa`** – success is reported only for bytes that have arrived.
* **`LaeuftMitSocket`** – a report of the address said to be under way has a socket; **`AdresseWirdBekannt`** – the address
  gets known in the end; **`SelbstAnrufEndet`** – a self call does not last for ever.
* **`DateienGanz`** – after every single write to the card the chains of the files are whole and disjoint, and a finished call has done
  what it promised. **`NichtsVerloren`** – without a power failure no cluster is lost, on a full card either.
  **`ProtokollFolge`** – no message is missing from what the log has written, on card or serial line, but those known to be
  lost; and but for those the clock's callback has written once more, each is there once and in order.
* **`GeloeschtNurGelesen`** – a mail deleted at the server has been printed as a whole, unless a line was cut, the bus failed, or
  the session was given up while RETR waited to be sent (the DELE that takes its place is the one case, section 8); **`AngenommenIstAnfang`** – what a
  server takes is what was typed, from its beginning, without a gap; **`ElSitzungEndet`** – the line comes free again.

**Bounds and why they are enough.** `MAX_TCP_CONNECTIONS = 2` is what one line uses (telex
and blind socket, or telex and Centralex); with one entry the second caller cannot exist, with more the third waits as the
second does. Two stations are needed for a stranger. `MaxAnrufe = 2` allows a call and
one more: a second caller, a reconnect, or a second call after the first, which is every pair that
can disturb each other. `MaxTele` bounds the telegrams; the head of a block costs one
and its rest nothing, so one telegram is a torn block. `FehlerGrenze` 2 (1 in `verlust` and `anrufe`) instead of 10
has the count below, at and above the limit, after the socket was closed and taken up again; 256 errors, where the count wraps, are out of the runs' reach and within that of the theorems (any
`FehlerGrenze` up to 255). `FalschGrenze = 1` instead of 3 is likewise below and at its limit. `MaxPuffer = 1`,
`MaxRx = 1`, `CxBufMax = 2`, `SocketInBufMax` and `SocketOutBufMax` 1 or 2 make every buffer empty, filled and
full: a block needs two places, so a full input buffer with an incomplete block exists where blocks are
sent and `SocketInBufMax = 2`.
The liveness runs take the smallest instance in which all the fair steps occur.

`tlnserver` has two channels per server, the least with which a server can call and be called at once. Its three situations (`LagenSpec`) are one change and one disturbance; one change and a station that
calls while it is told on; and two telegrams of stations while nothing changes. A second number would only repeat the first. In `wege`, `ZwMaxPuffer = 3`, blocks of 2 and `ZwUmlauf = 8` fill the print buffer, send
part of a block and bring the counts to half their range; four characters one way, one with an announcement
or two with a loss, are what it takes for a block to wait for room. `dienste`: six versions of three
numbers do not fit five bytes together, so inserting evicts, sorting moves and listing is overtaken; a FIFO of three bytes is
full and wraps under packets of two. `station`: two servers are needed for an error of one to matter to the other; two
clusters of two blocks, five directory places and four calls allow to fill the card, to
delete, to use a place again; one power failure, since the next call begins with whatever it left. The log has three minutes (file names; the second idle one is the first that saves), three messages, a buffer of two.
`email`: one session with one disturbance at any moment; buffers of three and two lines are empty, part filled and full.

What the runs do not show: three or more calls that overlap with each other, a second Centralex server
(a failed attempt chooses the same one; the theorems hold for any number), three subscriber servers, and two disturbances of one dialogue.

Every property has a mutant: an operator marked "Mutant:" that
changes one definition as a plausible bug would. Put in its place it violates the property
under the run's own configuration. The mutants of
`GeraetAus` (the terminal that has not confirmed its start is not switched off) and of
`VerbundenMitPartner` (the accepted call whose terminal has not been started is
forgotten) are single missing cases of `InterneVerbindungBeenden`; that of `EinBesitzer` is the missing
assignment 348; that of `DateienGanz` frees a file's chain before its entry is gone.

## 6. Fairness

Each liveness property gets the fairness it needs and no more, and nothing is assumed of a
partner, the user or the terminal.

* `WF_vars(Thread)`: the main loop goes on (a hardware watchdog and the 90 s check at
  1061 reset the station otherwise). Deadlock checking shows that the thread is never stuck.
* `SF_vars(PlanmaessigerAbbau)`: the 1.5 s run from the last transmission; with a close
  planned nothing new is queued for ever, since the network delivers finitely many telegrams
  and what is typed is not sent faster than the buffers empty.
* `SF_vars(Sendeversuch)` (`abbau`), `SF_vars(WiederaufbauPause)` (`blind`): their timers (1.5 s, 2 s) are started only by the
  step itself. `SF_vars(SchlussFrist)` (`abbau`): the terminal's confirmation of its end is waited for 3 s.
* `SF_vars(Lebenszeichen \/ Sendeversuch \/ WiederaufbauPause)`: a pass at the block of sending does one of the three or
  waits, and their timers (4 s, 1.5 s, 2 s) are started only by these steps. What is assumed (in `verlust`) is that one of them, not each, is taken again and again. `Sendeversuch` is an
  attempt: whether it succeeds is free.
* `SF_vars(AbbruchZeit)`: the 30 s pass when nothing starts the timer anew.
* `SF_vars(BlindEnde)`: the blind socket's 3 s are started anew only by a
  further refused caller.
* `SF_vars(Drucken \/ SchlussFrist \/ FunkstilleFrist)`: the serial converter prints in the gaps between typed characters,
  since a teleprinter's characters have a stop bit, but only to a terminal that has confirmed its start (`Drucken` is not enabled
  before). A terminal that does not is not assumed to answer in the end: it is released by the 3 s for the confirmation of its
  end or by the ten minutes. These pass when nothing starts them anew (3204, 3279), which is the guard of `FunkstilleFrist`.
* `Centralex` (`FairSpec`): `WF_vars(CentralexProcess)` as above; `SF_vars(Zeitablauf)` and
  `SF_vars(SpaetesSchliessen)`: the 25 s, 35 s and 3 s are started anew only by received telegrams, of which
  there are finitely many, and by the client's own steps.
* `TlnServer` (`TlnFairness`, in `LagenSpec`): every server's thread goes on (weak); it accepts calls (weak); a due synchronisation or full
  query is opened in the end (strong: it waits until the first two channels are free, 1251–1282, and these
  are free again and again because every dialogue has a time-out).
* `DynIP` (`DiFair`, in `StationSpec`): the main loop and the clocks go on; a server answers or the connection ends (the
  tcp time-out); a call of the line ends; an outage is over some time. All weak.
* `EMail` (`ElFair`): the main loop and the clocks go on; `tcp.c` closes a connection on which nothing comes. All weak;
  nothing is assumed of the server.

Strong fairness is needed where weak would not do: a step at one block is not continuously
enabled, since `pc` moves on.

## 7. What is proved

`VerbindungProofs` proves, for every value of the constants that satisfies `TcpAnnahme` and
`VerbindungAnnahme` (any number of entries, stations, buffer sizes, every switch):

| Theorem | Statement |
|---|---|
| `TypKorrekt` | `Spec => []TypeOK` (no buffer above its size, whichever of the places fills it) |
| `FehlerWirdGeheiltGilt` | `Spec => []FehlerWirdGeheilt` |
| `LeitungFreiGilt` | `Spec => []LeitungFrei` |
| `VerbundenMitPartnerGilt` | `Spec => []VerbundenMitPartner` |
| `PartnerBleibtGilt` | `Spec => PartnerBleibt` (an action property) |
| `SocketDesPartnersGilt` | `~Neuvergabe /\ Spec => []SocketDesPartners` |
| `LeitungImplementiert` | `Spec => ImplementiertLeitung` (the refinement of `Leitung`) |

None of the invariants is inductive. Why `LeitungFrei` needs more: the mode may become
`GehendVerbunden` when characters wait to be printed at a dialling station (4673), so one has to
know that they do so only while there is a connection; they come from decoding, so decoding must
happen only during a connection, and what is decoded must be gone before the next pass. The
inductive invariant `IInv == NetzOK /\ itx \in Station /\ pc \in Bloecke /\ Haelt(itx, pc)` says:

* an entry in use has a real station as its peer (`Tabelle`), and so does a call;
* in the resting modes there is no connection, an open handle means a connection;
* outside the socket blocks (Empfang, Senden, Abbruch, Auswerten) the connected modes have a connection;
* in Dekodieren and Weiterleiten there is a connection;
* `SendePuffer` is empty in `GehendReserv`, and in `GehendWaehlen` it holds something only from Dekodieren to
  Einschalten of one pass, during a connection;
* unless freed entries are given away under a handle, the entry of the handle belongs to the partner and is not the
  blind socket's, and neither waits to be accepted (`SocketPasst`).

The proof has a lemma for each helper (what becomes of the fields the invariant reads), a lemma for
each block of the thread and for the interrupts, that the step keeps `IInv` and the partner
(`Schritt`; the third thing it keeps, `Erlaubt`, is that the phases before and after are those of a step of `Leitung`
or the same, which is the refinement step by step), `JederSchritt` that puts them together, `AnfangGilt` and `InvarianteGilt`. TLC checked `IInv` as an
invariant of the configuration `telegramme.cfg` before it was proved.

`CentralexProofs` proves, for every value that satisfies `TcpAnnahme` and `CentralexAnnahme`:

| Theorem | Statement |
|---|---|
| `CxTypKorrekt` | `Spec => []CxTyp` |
| `LinkMitSocketGilt` | `Spec => []LinkMitSocket` |
| `EinBesitzerGilt` | `ASSUME Neuvergabe = FALSE PROVE Spec => []EinBesitzer` |

`LinkMitSocket` speaks of the moment between two passes; the invariant has to say what holds before
each block (`LinkPasst`): the link state fits the handle everywhere, and `StopPending` exists only before the
block that ends the connection. `EinBesitzer` needs more (`Besitz`): the client's entry
does not wait to be accepted, or the scan for callers (`CheckPortRequest`) would give it to the line as well. The
assumption is needed: with `Neuvergabe = TRUE` a freed entry may be taken by a caller and accepted by the
line while the client still has its index (as in `x_neuvergabe`).

What the proofs of the line and of Centralex need of the table is in `TcpSocketsProofs`: `Tabelle` (an entry in use has a real peer) is kept by
every step of the network and the main loop, and `Fortsetzung` says what a holder of a handle may rely on
between two looks at the table: every entry keeps its peer, and none begins to wait for acceptance, unless
a new connection takes it.

Two properties of the whole station go on from `IInv` (second part of `VerbindungProofs`):

| Theorem | Statement |
|---|---|
| `GeraetAusGilt` | `~Funkstille /\ Spec => []GeraetAus` |
| `NurDieserAnrufGilt` | `~Neuvergabe /\ ~TextBeimWaehlen /\ Spec => []NurDieserAnruf` |

`GeraetAus` speaks of the modes in which the terminal is off; an accepted call passes through two more
(`KommendVerbVorstufe`, `KommendEinschalten`) from which the code returns to rest without a word to the terminal, so
`Abgeschaltet` adds them. `NurDieserAnruf` says nothing of a line that dials, but what is in its buffers then
is there when the call begins: `Ordentlich` adds what they must not hold, and `TabellePasst` that
what waits in the FIFO of an entry was sent by its peer, and that there is no text in the FIFO of a station that
is being dialled. Most helpers keep both for whatever station they are given (`Erhaelt`), so a block of the thread is a chain of
helpers and the proof looks at each of them once. TLC checked both invariants on `telegramme.cfg` and `anrufe.cfg` first. The
assumptions are those of the runs; without each of them section 8 has a counterexample.

`DiensteProofs` (part 2) proves of the byte stream, for every value that satisfies `StAnnahme`:

| Theorem | Statement |
|---|---|
| `StTypKorrekt` | `StSpec => []StTyp` |
| `RingPasstGilt` | `StSpec => []RingPasst` |
| `StromTreuGilt` | `Regelmaessig /\ StSpec => []StromTreu` |
| `ErfolgHeisstDaGilt` | `Regelmaessig /\ StSpec => []ErfolgHeisstDa` |

`Regelmaessig` says that all packets have one size and that a telegram has less than two full packets; the two defects
of `tcp.c` it leaves out are in section 8 (the stash, the telegram given up). The
invariant behind the last two (`StromInv`) is about the receiver's number, which is the count of the bytes that have arrived;
the contents of the ring, which are the next bytes of the stream place by place (the copying in one or two pieces and byte by
byte comes to the same); the packet put aside, which is a piece of the stream and ends where its confirmation says; and
every packet and confirmation that was ever sent, since each may come again.

`TlnServerProofs` proves, for every value that satisfies `TlnServerAnnahme` (any number of servers, numbers and channels):

| Theorem | Statement |
|---|---|
| `TlnTypKorrekt` | `TlnSpec => []TlnTyp` |
| `NurNeuereGilt` | `TlnSpec => NurNeuere` (an action property) |
| `NichtsVergessenGilt` | `ASSUME ~Verkuerzt PROVE TlnSpec => []NichtsVergessen` |

The invariant `TlnInv` has four parts. `Werte`: the types. `NetzGut`: the two ends of a connection name each other and have at most one
telegram under way; a client that is no server is never trusted and never has the secret; a channel that reports changes hears nothing but
confirmations and errors; and entries are true, those in the directories and those in telegrams: who made an entry still has it or a newer
one, and so has the server that sent it, unless it was restarted (`Echt`, `Belegtes`). This is what `NurNeuere` needs. `RestGut`: what is listed is
there. `MeldungGut`, for `NichtsVergessen`: for each number that two servers that were never restarted share, the one knows what the other
has, or the date from which it is reported is not later (`Gemeldet`), or a synchronisation runs whose date is not later
(`Laeuft`); and at each point of its dialogue what has not been delivered is still in the listing or in the telegram under way
(`DialogGut`), so that the date need not go back when the end mark is sent. The date moves on when a synchronisation begins and back
when it fails, so neither of the two alone is an invariant.

A step is often several changes: an entry is stored, the listings follow, the date moves, the telegram is read, the answer sent or the channel
closed. The invariant is therefore stated of values (`Gut(K, B, Z, L, N, z)`), one lemma per such change takes it from one value to the next
(`GutGespeichert`, `GutZurueck`, `GutFort`, `GutGesendet`, `GutSchliessen`, `GutVerlassen`, `GutErsetzt`), and each action has a lemma that
puts them together (`...Erhaelt`). TLC checked `TlnInv` on the instance of `tlnserver.cfg` first. Without `~Verkuerzt` the theorem
is false: a listing that loses its last entry ends without having sent it (section 8).

`DynIPProofs` proves, for every value that satisfies `DiAnnahme` (any number of servers, addresses, limits):

| Theorem | Statement |
|---|---|
| `DiTypKorrekt` | `DiSpec => []DiTyp` |
| `LaeuftMitSocketGilt` | `DiSpec => []LaeuftMitSocket` |

A pass is a chain of operators on the station, and `LaeuftMitSocket` does not hold between them: the report loses its socket before the
pass notices it. Each operator is therefore shown to keep `Gut` (the types, and that a self call waits exactly as long as it has a handle),
and the last one, `OhneSocket`, to make `LaeuftMitSocket` true again. The servers are tried in a loop, which the model writes as a recursive function; that
there is such a function, and that each of its values is good, is shown by induction.

`ZeichenwegProofs` proves, for every value that satisfies `ZwAnnahme` (any sizes of buffers and blocks):

| Theorem | Statement |
|---|---|
| `ZwTypKorrekt` | `ZwSpec => []ZwTyp` |
| `ZeichenFolgeGilt` | `ZwSpec => []ZeichenFolge` |
| `QuittungGilt` | `ZwSpec => [](Kurz => QuittungStimmt)` |

Neither property is inductive: a block is on paper, in `SendePuffer`, in one of three sequences of telegrams or in `EmpfPuffer`, and
all of them together must be in order. The invariant `WegInv` says for each direction (`Richtung`) that these places, one after the other, hold
increasing numbers, each at most once, and while the connection holds all of them up to what has been typed; and for each station (`Zaehlung`) that what
it has sent, what the partner has taken and what it believes to be acknowledged are the counts of characters at those places, old
acknowledgements under way included. `Kurz` says that no station has typed as many characters as a count can tell apart
(254 of 256). The code has no such limit (3208): beyond it `QuittungStimmt` is false (section 8), and `Zaehlung` is stated only up to there; what is printed, and in which order, does not depend on it.

`DiensteProofs` (part 1) proves of the directory, for every value that satisfies `TbAnnahme` (any memory, any numbers and sizes of entries):

| Theorem | Statement |
|---|---|
| `TbTypKorrekt` | `TbSpec => []TbTyp` |
| `EindeutigUndPassendGilt` | `TbSpec => []EindeutigUndPassend` |
| `ListeVollstaendigGilt` | `TbSpec => []ListeVollstaendig` |
| `SummeStimmtGilt` | `TbSpec => []SummeStimmt` |
| `SicherungGanzGilt` | `TbSpec => []SicherungGanz` |

The loops of the source (the search for the oldest entry, evicting until there is room, sorting by taking the least to the front) are recursive
functions; `Bleibt` says that what each step of a loop keeps holds after each of them, and `Lauf` steps that the loop comes to
its end. The sum of the sizes is one such function, and how it changes when an entry goes, comes or moves is `MemEntfernt`, `MemAnhang`,
`MemErsetzt`, `MemVorgeholt`. The invariant `TbInv` has four parts. `Gut`: the directory has entries of the right kind, each number once,
and fits. `ListerGut`: a lister that was not disturbed has found everything that stands before the entry it expects, and is at the end of
the memory only when it has found everything; without the entry it expects, the property of the end would not be inductive.
`PruefGut`: a sum begun after the last change is that of a beginning of the bytes that are there, which is what makes it right after the
second round. `EepromGut`: while the directory is saved, what has been written and what is still to be written is together
the directory as it is, and the head is invalid; a valid head stands before one whole directory. TLC checked `TbInv` on
the instance of `dienste.cfg` first.

The induction axiom of the library takes an operator as a parameter, which no installed prover can instantiate. `AlleZahlen` says it of a set, and is proved from
the well-foundedness of the natural numbers; with it, and a step-by-step construction of the function, what a recursive function
over numbers gives can be proved.

`EMailProofs` proves, for every value that satisfies `ElAnnahme` (any sizes of the buffers, any mails, any text, any number of
sessions and failures, with and without `ElZerrissen`):

| Theorem | Statement |
|---|---|
| `ElTypGilt` | `ElSpec => []ElTyp` |
| `AngenommenIstAnfangGilt` | `ElSpec => []AngenommenIstAnfang` |
| `GeloeschtNurGelesenGilt` | `ElSpec => []GeloeschtNurGelesen` |

Both properties speak of what the server has done, and what it will do is decided by tokens that are still in
`SocketOutBuf` or on the way. The invariant `Gerecht` therefore follows a session through all of them. `Smtp`: what is on the way
(`Post`) is what the phase says. Before DATA it has no text (`Anfang`); in the mail there is one DATA at most and all text comes after it, and
the text at the server, then the one on the way, then what is left in `EmpfPuffer` is what was typed (`Stand`); with a connection that is
lost, what arrives is a beginning of it, and a server that never got DATA refuses the text (`Abgelehnt`). `Pop`: in the
log-in one command or answer at most is under way (`Einer`), so that the lines which come while a mail is printed are those of RETR, and
the lines given to the printer are the first k of them (`Gelesen`), the pieces of a line that is cut by the buffer or by TCP included. `Loeschen`: once DELE is anywhere, all lines
of the mail have gone to the printer, the buffer was cut, the bus has failed, or the DELE took the place of a RETR that had not been sent
(`verworfen`). `Bus`: while a mail is printed the bus
answers or its failure is on record, so that the watch over the bus (`TwiWache`) takes the line away from an unfinished mail only after a
failure. Each function of the code keeps the invariant for whatever station it is given, so a pass (`ElDurchlauf`) is
a chain of lemmas. The assumptions say what a server sends (a line "." of the mail itself as "..", the rest of a long line after its
beginning) and that typed text is no command; a typed "." is the exception of section 8.

Only model-checked:

* the liveness properties: fairness and ENABLED are beyond the prover;
* `Dateisystem`, `Protokoll`: what a step leaves on the card is the fold of a sequence of writes over chains of clusters, and
  the properties compare the chains before and after it;
* `Umsetzer`: it is right for the tick numbers of the code and wrong for others, so that there is nothing to say for every value.

## 8. Where the code goes wrong

A disagreement that a run shows (`PROJECT.json`, `findings`):

| Run | Code | Comment |
|---|---|---|
| `x_neuvergabe` | a freed entry is given away before the line has looked; the handle leads to a stranger | reconnect "nur von gleicher IP erlaubt" (`iTelex.c` 1983) |

Others were met while modelling. The models have the behaviour of the code; where it would violate a property
that is worth having, a switch or a bound leaves it out, and this is the list of what is left out.

*Line.* Plain text of a dialled station that comes before it confirms the call is appended to `AsciiDruckPuffer`
(2843–2853). If that station goes away and the terminal dials on, `Verbindungsaufbau` clears the socket's buffers (3686) and
not this one, so the text is printed in the next call (`TextBeimWaehlen`). The ten minute timer (`Funkstille`) ends an incoming call and leaves the terminal on
(`iTelex.h` 263). An unexpected end confirmation of the terminal (`GeraetKorrekt = FALSE`) leaves the connection open for
ever (`iTelex.h` 262). A dialled terminal that does not confirm its start (1158,
`WarteStartupQuitt`) prints nothing; if the end of its call is planned while text waits to be printed, each pass starts the ten minutes anew (3204), the loss of the connection is not
seen (2054), and nothing but the user or the watchdog of the bus ends the call. The count of send errors goes on after the socket was
closed (2288) and survives a second dialling within one seizure of the line, since only a new seizure or call clears it; from 255 it wraps to 0. Two calls seen in one scan of `CheckPortRequest` are both marked as taken, one is reported
(`tcp.c` 770–790).

*Centralex.* The line is initialised for a call whose socket was closed because the confirmation could
not be sent (346). The rejection of a call waits in the buffer for incoming data and is evaluated as a STOP of the
server; it is never sent and counts as a refused PIN (363).

*TCP.* When no countdown timer is free an attempt to send fails with its numbers moved on (972, 978), so the next one sends the same
bytes as new ones (the model always has a timer). With two early packets under way the stash (271, 301) puts data into the stream twice (`StSegmente` has one size only). A telegram of more
than two full packets loses one when it is given up (1039–1063; `StTelegramme` ends at 3). Old data are
confirmed with a number in the wrong byte order (292). A packet that does not fit the FIFO is dropped without
confirmation (239–242), and the sender does not look at the window. `Get_Block_from_FIFO` returns the length of its buffer when fewer bytes
are there (`fifo.c` 348), `Read_Byte_ahead` tests the wrong way round (453), `FlushSocketData` is not
locked (398–400). When no timer is free `Connect2IP` leaves its entry in SYNINIT (1327–1328), and RST is ignored.

*Subscriber server.* Changes of one entry in the same second at two servers never meet (`TlnBuch.c` 393–397; the
model changes an entry once a second, `NeueSekunde`). Numbers that are locked are given out in listings. `TlnServer.c` 1225 reads one
element behind the table. `iTelex.h` 337 says that dynamic addresses are reported as fixed ones; they are sent as they
are. A listing during which an entry becomes shorter loses its last one (`Verkuerzt`). A directory that is full evicts the oldest entries of others, or
refuses the new one when all are its own (`TlnBuch.c` 376, 403; `TlnServer.c` 362, 403, 773): the servers of `TlnServer` have room for every entry, so what eviction
does to a synchronisation is not shown.

*Directory.* A listing loses entries when entries went or changed places. Sorting evicts entries when memory is tight. An empty backup that is loaded
leaves the directory as it was; an interrupted save leaves no valid backup; deleted entries are not saved.

*Dynamic address.* After an error of the server 15 minutes are set (5372) and at once replaced by 5 (5443). "Es wird
immer nur ein Telegramm gesendet und empfangen" (5214) does not hold (3514, 5416). `SelbstAnrufPeriode · 100`
wraps above 655 s (4212). The name search has no time-out of its own (5434).

*E-mail.* A connection that breaks in the middle of a line of the log-in hangs the line (2054; `ElZerrissen = FALSE`). After a
failure of the two-wire bus a mail may be deleted with lines missing (514–541; `gestoert`). A full buffer is cut and the mail
deleted all the same (573–582; `gekuerzt`). A session that is given up while RETR waits to be sent sends DELE in its place, and the mail is deleted unread (622;
the buffer's length stays 8; `verworfen`); a STAT or QUIT that waits is replaced by the beginning of a DELE. A rest "." of a long line, when
the part before it has been used already, is taken for the end of the mail (514, 528–542; the model's lines do not end so). Codes of the
terminal are those its mode expects, though the code takes the end of a call in any mode (4532–4569). Printing does not wait for the terminal to have started; it may be as late as it likes.
A refused RETR is not recognised (405–408). A typed "." ends the
mail (908). `AsciiDruckPuffer` is written one past its end (519).

*Data path, converter.* Characters typed while `EmpfPuffer` is full are lost. A block that was sent again after a send error
although it had arrived is printed twice. 256 unacknowledged characters count as none. The converter is exact up to a delay of 8 ticks (of 18); the comment at 606 says a
stop bit at 100 baud has 14 ticks, the code makes it 13.

*File system.* Only the first copy of the cluster table is written. When a write fails in `fat_append_clusters` after the join, clusters that
belong to a file are freed (599–604); writes that fail are left out. After a power failure between the two
names of an entry the file keeps its short name only; clusters may be lost. `nano_db.c` 148 tests `!x != n`, which is
always true.

*Log.* After a restart within the minute the file name is taken and the log goes to the serial line for good. A partial write
on a full card counts as success and loses messages (`prVerloren`). The clock's callback that comes between 282 and 288 writes the buffer a second time
(`doppelt`). With a disturbed card and text in the buffer it waits in the interrupt for room in the serial line's buffer (129–132), until the
watchdog ends it. Not modelled: the callback, or the save before a restart (`iTelex.c` 1064), in the middle of another call of the file system (nothing
in `fat.c` or `sd_raw.c` locks the card, so what is written then depends on the place); `ProtokollierenC` from the
timer interrupt, which may save inside it (1120, 1164); and that what is added between 270 and 288 is cleared.

## 9. What is not modelled

* In the line: the name search and HTML chat modes; the long press that resets the station
  (4958); which of several terminals a call reaches (`KommendInternAnwaehlen` is "reached or refused"); the dialling
  pause after which the server is asked for an unknown number (4853); the telegram FERNKONFIG (3136–3151);
  configuration and diagnosis texts.
* In the Centralex client: the lengths of telegrams (a telegram is whole, so an incomplete one that waits for
  its rest is not there), the length of the growing pause, the order of the servers, what the user is told.
* In the socket table: windows as the sender uses them, wrap of sequence numbers, ARP.
  `Connect2IP` is one step, as the thread sees it, although a SYN may come between its search and its
  mark (hazard at `tcp.c` 1259).
* In the servers: memory. A directory is never full and evicts nothing there (`TlnBuch` has it).
* In the log: the timer's interrupt in the middle of a call of the file system.
* In the e-mail client: a terminal that hangs up or confirms in a mode that does not expect it; the delay until it prints.
* In the file system: subdirectories, FAT32, failing writes, torn blocks, the protocol of the card.
* Durations: a timer that is compared may have run out or not; where the order of two timers matters it is named.
* Components marked `not_modelled` in `PROJECT.json`, with the reason. The submodule `itelex-misc` (BusKomm,
  FifoPuffer, BaudotCode) is not in the tree: bus codes are inputs, FIFOs are bounded sequences.

## 10. Plan

Models: `Connect2IP` and `RegisterSocket` in their steps (`tcp.c` 1259–1280) and the races on a free entry; incomplete
telegrams of the Centralex client; the UDP clients (DHCP, DNS, NTP) with their sockets and time-outs; the software TWI with
arbitration; small tables (threads, cron, ARP cache).

Proofs: `Protokoll` and `Dateisystem` (what the single writes of a call leave on the card).
