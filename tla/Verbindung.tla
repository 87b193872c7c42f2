---------------------------- MODULE Verbindung ----------------------------
(***************************************************************************)
(* One i-Telex line: the mode machine of iTelex/iTelex.c (Modus), its      *)
(* telex socket, the second ("blind") socket that carries the busy signal, *)
(* and the buffers between the network and the teleprinter on the TWI bus. *)
(*                                                                         *)
(* The main loop calls itelex_thread over and over.  One pass is a         *)
(* sequence of blocks; pc names the block that runs next, and each block   *)
(* is one action.  Between two blocks the Ethernet interrupt (TcpSockets)  *)
(* and the timer interrupt (printing and typing at 50 baud, the timers)    *)
(* may run any number of times.                                            *)
(*                                                                         *)
(* Abstracted: what a telegram or a printed character says (only whose it  *)
(* is), diagnosis texts, lamps and the log.  A buffer is a sequence of     *)
(* tags: the partner a character came from or is meant for.  Times are     *)
(* not counted: where the code compares a timer, the step may or may not   *)
(* be taken; only the 30 seconds of iTelexSocketAbbruchTimer are a flag.   *)
(***************************************************************************)
EXTENDS TcpSockets

CONSTANTS
    Verzeichnis,        \* the remote stations the terminal can dial
    SocketInBufMax,     \* telegrams that fit SocketInBuf
    SocketOutBufMax,    \* telegrams that fit SocketOutBuf
    MaxPuffer,          \* characters that fit SendePuffer, EmpfPuffer and the
                        \* two Ascii buffers together
    FehlerGrenze,       \* send errors in a row that close the socket (10)
    TWIHandshakeNeu,    \* a called terminal confirms its start on the bus
    LangeDienstmeldungen, \* long service messages are only logged
    Funkstille,         \* the ten minute timer BeideRuhigTimer may run out
    BusAusfall,         \* the TWI bus may fall silent for four seconds
    GeraetKorrekt,      \* the terminal hangs up only when it takes part in a
                        \* call and sends BusQuittSchluss only when asked
    TextBeimWaehlen,    \* a station that is dialled may answer with text before
                        \* it has confirmed; FALSE: only histories without
    Neuvergabe          \* TRUE as in tcp.c: an entry that is SOCKET_NOT_USE is
                        \* given away even while a handle still refers to it;
                        \* FALSE: only histories in which that never happens

CONSTANT Lokal          \* tag of a text the station itself prints

ASSUME VerbindungAnnahme ==
    /\ Verzeichnis \subseteq Gegenstellen
    /\ SocketInBufMax \in Nat \ {0} /\ SocketOutBufMax \in Nat \ {0}
    /\ MaxPuffer \in Nat \ {0} /\ FehlerGrenze \in 1 .. 255
    /\ {LangeDienstmeldungen, Funkstille, BusAusfall, TWIHandshakeNeu,
        GeraetKorrekt, TextBeimWaehlen, Neuvergabe} \subseteq BOOLEAN
    /\ Lokal \notin Gegenstellen \cup {Niemand}

TModus ==
    {"Ruhe", "GehendReserv", "GehendWaehlen", "GehendVerbunden",
     "KommendVerbVorstufe", "KommendEinschalten", "KommendWarteEinQuitt",
     "KommendVerbunden", "PufferDruckUndSchluss", "WarteSchlussQuitt",
     "MeldungsdruckWarteEinQuitt", "Deaktiviert", "WarteGrundstellung"}

SocketModes == {"Idle", "Originate", "Answer"}
Protokolle == {"Unknown", "iTelex", "Ascii"}
Partner == Gegenstellen \cup {Niemand}
Herkunft == Partner \cup {Lokal}

Bloecke ==
    {"Twi", "Waechter", "Port", "Trennung", "Empfang", "Senden", "Abbruch",
     "Auswerten", "Dekodieren", "Weiterleiten", "Einschalten", "Wahl5",
     "Wahl15", "Fristen", "Taste", "Schluss"}

(* A buffer of n places. *)
Bis(inhalt, n) == {s \in Seq(inhalt) : Len(s) <= n}

(* The static variables of iTelex.c. *)
Station ==
    [modus: TModus,                        \* Modus
     mode: SocketModes,                    \* iTelexSocketMode
     handle: Slots \cup {NO_SOCKET_USED},  \* iTelexSocketHandle
     blind: Slots \cup {NO_SOCKET_USED},   \* iTelexBlindSocketHandle
     ip: Partner,                          \* iTelexSocketIP
     abbau: BOOLEAN,                       \* iTelexSocketAbbauGeplant
     prot: Protokolle,                     \* iTelexSocketProtokoll
     ziel: Partner,      \* GewaehlterTln while WahlVerbAufbauNach5SekundenVersuchen
     in: Bis(Item, SocketInBufMax),        \* SocketInBuf
     out: Bis(Partner, SocketOutBufMax),   \* SocketOutBuf, by addressee
     fehler: 0 .. 255,                     \* SocketSendeFehlerZaehler (uint8_t)
     druck: Bis(Herkunft, MaxPuffer),      \* SendePuffer
     ascii: Bis(Herkunft, MaxPuffer),      \* AsciiDruckPuffer and AsciiHilfPuffer
     tipp: Bis(Partner, MaxPuffer),        \* EmpfPuffer, by the partner of the moment
     geraet: BOOLEAN,    \* ghost: the terminal was switched on and not off again
     warte: BOOLEAN,     \* WarteStartupQuitt
     abbruchUm: BOOLEAN] \* iTelexSocketAbbruchTimer has reached 30 s

VARIABLES itx, pc

vars == <<tcp, anrufe, tele, itx, pc>>

(* Every variable has its type, and no buffer ever holds more than its     *)
(* size: SocketOutBuf is filled at nine places, each with a test of its    *)
(* own for room (2195, 2497, 2609, 3095, 3214, 3250, 3286, 3736, 4596),    *)
(* SendePuffer and the Ascii buffers at five.                              *)
TypeOK ==
    /\ TcpTyp
    /\ itx \in Station
    /\ pc \in Bloecke

Init ==
    /\ TcpInit
    /\ itx = [modus |-> "Ruhe", mode |-> "Idle", handle |-> NO_SOCKET_USED,
              blind |-> NO_SOCKET_USED, ip |-> Niemand, abbau |-> FALSE,
              prot |-> "iTelex", ziel |-> Niemand, in |-> << >>, out |-> << >>,
              fehler |-> 0, druck |-> << >>, ascii |-> << >>, tipp |-> << >>,
              geraet |-> FALSE, warte |-> FALSE, abbruchUm |-> FALSE]
    /\ pc = "Twi"

(***************************************************************************)
(* Helpers of iTelex.c: each maps the station x to the station after it.   *)
(***************************************************************************)

Anhaengen(puffer, wert, max) ==
    IF Len(puffer) < max THEN Append(puffer, wert) ELSE puffer

(* Mutant: an accepted call starts with what the last one left to print. *)
NeuerAnrufOhneKommend == {"GehendReserv", "MeldungsdruckWarteEinQuitt"}

NeuerAnruf == {"GehendReserv", "KommendVerbVorstufe", "MeldungsdruckWarteEinQuitt"}

(* The modes in which no confirmation is awaited for what was switched on. *)
OhneStartup == NeuerAnruf \cup {"Ruhe", "KommendWarteEinQuitt", "WarteGrundstellung"}

ModusWechsel(x, neu) ==
    IF neu = x.modus THEN x
    ELSE [x EXCEPT
            !.modus = neu,
            !.druck = IF neu \in NeuerAnruf THEN << >> ELSE @,
            !.tipp = IF neu \in NeuerAnruf THEN << >> ELSE @,
            !.fehler = IF neu \in NeuerAnruf THEN 0 ELSE @,
            !.warte = @ /\ neu \notin OhneStartup,
            !.prot = IF neu = "GehendReserv" THEN "iTelex" ELSE @,
            !.ziel = IF neu = "GehendWaehlen" THEN Niemand ELSE @,
            !.ascii = IF neu \in {"Ruhe", "GehendReserv", "KommendVerbVorstufe",
                                  "WarteGrundstellung"} THEN << >> ELSE @]

(* The modes in which the terminal on the bus takes part. *)
ModusTwiVerbunden(x) ==
    x.modus \in {"GehendReserv", "GehendWaehlen", "GehendVerbunden",
                 "KommendWarteEinQuitt", "KommendVerbunden",
                 "PufferDruckUndSchluss", "MeldungsdruckWarteEinQuitt"}

(* The modes in which the timer interrupt moves characters. *)
Fernschreibend(x) ==
    x.modus \in {"KommendVerbunden", "GehendVerbunden", "PufferDruckUndSchluss"}

SendeBusKdoSchluss(x) == [x EXCEPT !.geraet = FALSE]

Einschalten(x) == [x EXCEPT !.geraet = TRUE]

(* The terminal that has dialled is switched on; with the new handshake    *)
(* nothing is printed until it confirms (1158), with the old one after 1.5 *)
(* seconds.                                                                *)
EinschaltenGehend(x) == [x EXCEPT !.geraet = TRUE, !.warte = TWIHandshakeNeu]

(* Mutant: a terminal that has not confirmed its start is not switched off. *)
InterneVerbindungBeendenOhneAus(x, force) ==
    CASE x.modus \in {"GehendReserv", "GehendWaehlen", "MeldungsdruckWarteEinQuitt"}
           -> IF force THEN ModusWechsel(SendeBusKdoSchluss(x), "WarteSchlussQuitt") ELSE x
      [] x.modus \in {"KommendVerbVorstufe", "KommendEinschalten", "KommendWarteEinQuitt"}
           -> ModusWechsel(x, "WarteGrundstellung")
      [] x.modus \in {"KommendVerbunden", "GehendVerbunden"}
           -> ModusWechsel(x, "PufferDruckUndSchluss")
      [] OTHER -> x

(* Mutant: the accepted caller who has not sent anything yet is forgotten. *)
InterneVerbindungBeendenLueckenhaft(x, force) ==
    CASE x.modus \in {"GehendReserv", "GehendWaehlen", "MeldungsdruckWarteEinQuitt"}
           -> IF force THEN ModusWechsel(SendeBusKdoSchluss(x), "WarteSchlussQuitt") ELSE x
      [] x.modus = "KommendEinschalten" -> ModusWechsel(x, "WarteGrundstellung")
      [] x.modus = "KommendWarteEinQuitt"
           -> ModusWechsel(SendeBusKdoSchluss(x), "WarteGrundstellung")
      [] x.modus \in {"KommendVerbunden", "GehendVerbunden"}
           -> ModusWechsel(x, "PufferDruckUndSchluss")
      [] OTHER -> x

InterneVerbindungBeenden(x, force) ==
    CASE x.modus \in {"GehendReserv", "GehendWaehlen", "MeldungsdruckWarteEinQuitt"}
           -> IF force THEN ModusWechsel(SendeBusKdoSchluss(x), "WarteSchlussQuitt") ELSE x
      [] x.modus \in {"KommendVerbVorstufe", "KommendEinschalten"}
           -> ModusWechsel(x, "WarteGrundstellung")
      [] x.modus = "KommendWarteEinQuitt"
           -> ModusWechsel(SendeBusKdoSchluss(x), "WarteGrundstellung")
      [] x.modus \in {"KommendVerbunden", "GehendVerbunden"}
           -> ModusWechsel(x, "PufferDruckUndSchluss")
      [] OTHER -> x

(* A telegram for the partner of the moment, if SocketOutBuf has room. *)
InSocketOutBuf(x) == [x EXCEPT !.out = Anhaengen(@, x.ip, SocketOutBufMax)]

ExterneVerbindungBeenden(x) ==
    LET y == [x EXCEPT !.ascii = << >>]
    IN  IF x.mode = "Idle" THEN y
        ELSE LET z == [y EXCEPT !.abbau = TRUE]
             IN  IF x.prot = "iTelex" THEN InSocketOutBuf(z) ELSE z

(* Mutant: STOP is always put in. *)
SendeStopkommandoOhnePlatz(x) == [x EXCEPT !.out = Append(@, x.ip), !.abbau = TRUE]

(* A STOP telegram; the close is planned even when there was no room. *)
SendeStopkommando(x) == [InSocketOutBuf(x) EXCEPT !.abbau = TRUE]

(* The short service message of a call that failed or was refused. *)
WahlAbbruchMeldung(x) ==
    IF LangeDienstmeldungen \/ Len(x.ascii) >= MaxPuffer THEN x
    ELSE LET y == [x EXCEPT !.ascii = Append(@, Lokal)]
         IN  IF x.modus = "GehendWaehlen"
             THEN ModusWechsel(EinschaltenGehend(y), "PufferDruckUndSchluss")
             ELSE y

(* Mutant: the mode of the socket is forgotten. *)
OhneVerbindungImModus(x) ==
    [x EXCEPT !.ip = Niemand, !.abbau = FALSE, !.abbruchUm = FALSE]

(* The data of the call are cleared; its timer has no meaning any more. *)
OhneVerbindung(x) ==
    [x EXCEPT !.mode = "Idle", !.ip = Niemand, !.abbau = FALSE, !.abbruchUm = FALSE]

OhnePuffer(x) == [x EXCEPT !.in = << >>, !.out = << >>]

KommendeVerbindungInitialisieren(x, h) ==
    ModusWechsel(OhnePuffer([x EXCEPT !.handle = h, !.ip = tcp[h].peer,
                                      !.mode = "Answer", !.abbau = FALSE,
                                      !.prot = "Unknown", !.abbruchUm = FALSE]),
                 "KommendVerbVorstufe")

(***************************************************************************)
(* Verbindungsaufbau and the reconnect use Connect2IP, which takes a free  *)
(* entry and blocks until the partner answers or the time is up.           *)
(***************************************************************************)
Frei(s) == Getfreesocket(s) /\ (Neuvergabe \/ s \notin {itx.handle, itx.blind})

(* The entry s is overwritten with a new connection, at the cost of         *)
(* one of the bounded number of connections.                               *)
Connect2IP(s) ==
    /\ anrufe > 0 /\ Frei(s)
    /\ anrufe' = anrufe - 1

(* Mutant: the address of the partner is not kept. *)
AufgebautOhneIP(x, p, s, alsAscii) ==
    LET y == OhnePuffer([x EXCEPT !.handle = s, !.mode = "Originate",
                                  !.abbau = FALSE, !.abbruchUm = FALSE,
                                  !.prot = IF alsAscii THEN "Ascii" ELSE "iTelex"])
    IN  IF alsAscii THEN ModusWechsel(EinschaltenGehend(y), "GehendVerbunden")
        ELSE InSocketOutBuf(y)

Aufgebaut(x, p, s, alsAscii) ==
    LET y == OhnePuffer([x EXCEPT !.ip = p, !.handle = s, !.mode = "Originate",
                                  !.abbau = FALSE, !.abbruchUm = FALSE,
                                  !.prot = IF alsAscii THEN "Ascii" ELSE "iTelex"])
    IN  IF alsAscii THEN ModusWechsel(EinschaltenGehend(y), "GehendVerbunden")
        ELSE InSocketOutBuf(y)

VerbindungGelingt(x, p) ==
    \E s \in Slots, alsAscii \in BOOLEAN :
        /\ Connect2IP(s)
        /\ alsAscii => "Ascii" \in Telegramme
        /\ tcp' = [tcp EXCEPT ![s] = NeuerSocket("Ready", p)]
        /\ itx' = Aufgebaut(x, p, s, alsAscii)

(* No answer, or no valid entry: the handle and the mode say so. *)
Misslungen(x, p) ==
    [x EXCEPT !.ip = p, !.handle = NO_SOCKET_USED, !.mode = "Idle"]

(***************************************************************************)
(* Block 1: a code from the terminal, if one has arrived.                  *)
(***************************************************************************)
Weiter(von, nach) == pc = von /\ pc' = nach

TwiCode(neu) ==
    /\ Weiter("Twi", "Waechter")
    /\ itx' = neu
    /\ UNCHANGED netz

KeinCode == TwiCode(itx)

(* The terminal asks for the line. *)
BusVerbaufnahme ==
    /\ itx.modus = "Ruhe"
    /\ TwiCode(ModusWechsel(itx, "GehendReserv"))

(* The terminal is switched on to dial; it gets the dialling release. *)
BusKdoEin ==
    /\ itx.modus = "GehendReserv"
    /\ TwiCode(ModusWechsel(Einschalten(itx), "GehendWaehlen"))

(* The terminal called by the station runs.  Date and time are printed on  *)
(* both sides if so configured.  The one that has dialled may print now.   *)
BusQuittEin ==
    \/ /\ itx.modus = "KommendWarteEinQuitt"
       /\ \E datum \in BOOLEAN :
            LET y == ModusWechsel(itx, "KommendVerbunden")
            IN  TwiCode(IF datum
                        THEN [y EXCEPT !.druck = Anhaengen(@, Lokal, MaxPuffer),
                                       !.tipp = Anhaengen(@, y.ip, MaxPuffer)]
                        ELSE y)
    \/ /\ itx.modus = "MeldungsdruckWarteEinQuitt"
       /\ TwiCode(ModusWechsel(itx, "PufferDruckUndSchluss"))
    \/ /\ itx.modus \notin {"KommendWarteEinQuitt", "MeldungsdruckWarteEinQuitt"}
       /\ itx.warte
       /\ TwiCode([itx EXCEPT !.warte = FALSE])

(* A digit: the number is not complete yet, or it is in the directory.  A  *)
(* local entry is called at once, any other after a pause of five seconds. *)
Wahlziffer ==
    /\ itx.modus = "GehendWaehlen" /\ itx.mode = "Idle"
    /\ LET y == [itx EXCEPT !.ziel = Niemand]
       IN  \/ TwiCode(y)
           \/ \E p \in Verzeichnis : TwiCode([y EXCEPT !.ziel = p])
           \/ \E p \in Verzeichnis :
                /\ Weiter("Twi", "Waechter")
                /\ VerbindungGelingt(y, p)
                /\ UNCHANGED tele
           \/ \E p \in Verzeichnis :
                TwiCode(InterneVerbindungBeenden(WahlAbbruchMeldung(Misslungen(y, p)), TRUE))

(* The terminal confirms its end: taken in every mode, a wrong one is only logged. *)
BusQuittSchluss ==
    /\ GeraetKorrekt => itx.modus = "WarteSchlussQuitt"
    /\ TwiCode(ModusWechsel([itx EXCEPT !.ascii = << >>, !.geraet = FALSE],
                            "WarteGrundstellung"))

(* The terminal hangs up: taken in every mode. *)
BusKdoSchluss ==
    /\ GeraetKorrekt => ModusTwiVerbunden(itx)
    /\ TwiCode(ModusWechsel(IF itx.modus = "Ruhe" THEN itx
                            ELSE ExterneVerbindungBeenden([itx EXCEPT !.geraet = FALSE]),
                            "WarteGrundstellung"))

Twi == \/ KeinCode \/ BusVerbaufnahme \/ BusKdoEin \/ BusQuittEin
       \/ Wahlziffer \/ BusQuittSchluss \/ BusKdoSchluss

(* Block 2: four seconds without the terminal's sign of life end the call. *)
Waechter ==
    /\ Weiter("Waechter", "Port")
    /\ \/ itx' = itx
       \/ /\ BusAusfall /\ ModusTwiVerbunden(itx)
          /\ LET y == [InterneVerbindungBeenden(itx, TRUE) EXCEPT !.abbau = TRUE]
             IN  itx' = InSocketOutBuf(y)
    /\ UNCHANGED netz

(***************************************************************************)
(* SocketBearbeiten, first part: new callers.                              *)
(***************************************************************************)
(* Mutant: a line without a connection takes calls, at rest or not. *)
AnnehmbarOhneRuhe(neu) ==
    \/ itx.mode = "Idle"
    \/ /\ itx.mode = "Answer" /\ itx.handle = NO_SOCKET_USED
       /\ itx.ip = tcp[neu].peer

Annehmbar(neu) ==
    \/ itx.mode = "Idle" /\ itx.modus = "Ruhe"
    \/ /\ itx.mode = "Answer" /\ itx.handle = NO_SOCKET_USED
       /\ itx.ip = tcp[neu].peer

(* In WarteGrundstellung nobody takes the received data any more. *)
OhneAbnehmer(x) == IF x.modus = "WarteGrundstellung" THEN [x EXCEPT !.in = << >>] ELSE x

KeinAnruf ==
    /\ Wartend = {}
    /\ itx' = OhneAbnehmer(itx)
    /\ UNCHANGED tcp

(* A pending call is invisible until the clock has ticked once. *)
AnrufNochNichtSichtbar ==
    /\ Wartend # {}
    /\ itx' = OhneAbnehmer(itx)
    /\ UNCHANGED tcp

(* Mutant: a call whose connection is lost counts as none. *)
AnrufAnnehmenNachVerlust(K, neu) ==
    /\ itx.handle = NO_SOCKET_USED
    /\ itx' = KommendeVerbindungInitialisieren(itx, neu)
    /\ tcp' = Angenommen(tcp, K)

AnrufAnnehmen(K, neu) ==
    /\ Annehmbar(neu)
    /\ itx' = IF itx.mode = "Idle"
              THEN KommendeVerbindungInitialisieren(itx, neu)
              ELSE OhneAbnehmer([itx EXCEPT !.handle = neu])
    /\ tcp' = Angenommen(tcp, K)

(* The busy signal goes out on the blind socket; an older blind socket is  *)
(* closed first.  If nothing arrives at the caller, PutSocketData closes.  *)
AnrufAbweisen(K, neu) ==
    /\ ~Annehmbar(neu)
    /\ itx' = OhneAbnehmer([itx EXCEPT !.blind = neu])
    /\ LET t == CloseTCPSocket(Angenommen(tcp, K), itx.blind)
       IN  \/ tcp' = t
           \/ tcp' = CloseTCPSocket(t, neu)

Port ==
    /\ Weiter("Port", "Trennung")
    /\ \/ KeinAnruf
       \/ AnrufNochNichtSichtbar
       \/ \E K \in SUBSET Slots, neu \in Slots :
            /\ PortRequest(K, neu)
            /\ AnrufAnnehmen(K, neu) \/ AnrufAbweisen(K, neu)
    /\ UNCHANGED <<anrufe, tele>>

(***************************************************************************)
(* SocketBearbeiten, second part: the end of the connection.               *)
(***************************************************************************)
VerbindungGetrennt ==
    /\ itx.handle # NO_SOCKET_USED
    /\ CheckSocketState(tcp, itx.handle) = "NotUse"
    /\ itx.in = << >>

(* A lost i-Telex connection is kept for the partner to come back, any     *)
(* other is over; either way SocketBearbeiten returns here.                *)
Trennung ==
    /\ VerbindungGetrennt
    /\ Weiter("Trennung", "Auswerten")
    /\ LET y == [itx EXCEPT !.handle = NO_SOCKET_USED, !.abbruchUm = FALSE]
       IN  itx' = IF itx.prot = "iTelex" /\ ~itx.abbau THEN y
                  ELSE OhneVerbindung(OhnePuffer(y))
    /\ tcp' = CloseTCPSocket(tcp, itx.handle)
    /\ UNCHANGED <<anrufe, tele>>

KeineTrennung ==
    /\ ~VerbindungGetrennt
    /\ Weiter("Trennung", "Empfang")
    /\ UNCHANGED <<netz, itx>>

(* 1.5 seconds after the last transmission a planned close is carried out. *)
PlanmaessigerAbbau ==
    /\ ~VerbindungGetrennt
    /\ itx.handle # NO_SOCKET_USED /\ itx.abbau
    /\ itx.out = << >> /\ itx.in = << >>
    /\ Weiter("Trennung", "Empfang")
    /\ itx' = OhneVerbindung([itx EXCEPT !.handle = NO_SOCKET_USED])
    /\ tcp' = CloseTCPSocket(tcp, itx.handle)
    /\ UNCHANGED <<anrufe, tele>>

(***************************************************************************)
(* SocketBearbeiten, third part: receive, sign of life, reconnect, send.   *)
(***************************************************************************)
Kleiner(a, b) == IF a < b THEN a ELSE b

(* As much as fits is moved from the FIFO of the entry to SocketInBuf.     *)
Empfangen ==
    IF itx.handle = NO_SOCKET_USED \/ Len(itx.in) >= SocketInBufMax
    THEN itx' = itx /\ tcp' = tcp
    ELSE LET rx == tcp[itx.handle].rx
             n == Kleiner(Len(rx), SocketInBufMax - Len(itx.in))
         IN  /\ itx' = [itx EXCEPT !.in = @ \o SubSeq(rx, 1, n), !.abbruchUm = FALSE]
             /\ tcp' = [tcp EXCEPT ![itx.handle].rx = SubSeq(rx, n + 1, Len(rx))]

Empfang ==
    /\ Weiter("Empfang", "Senden")
    /\ Empfangen
    /\ UNCHANGED <<anrufe, tele>>

(* Every four seconds without another telegram a NULL telegram goes out.   *)
MitLebenszeichen(x) ==
    IF /\ x.mode # "Idle" /\ x.prot = "iTelex" /\ x.out = << >>
       /\ x.fehler = 0 /\ ~x.abbau /\ x.handle # NO_SOCKET_USED
    THEN InSocketOutBuf(x) ELSE x

WiederaufbauNoetig(x) ==
    /\ x.mode = "Originate" /\ x.handle = NO_SOCKET_USED
    /\ x.out # << >> /\ ~x.abbau

(* PutSocketData: everything, a part, or nothing was sent; after nothing   *)
(* the entry is closed.  On an entry that is not SOCKET_READY it fails.    *)

(* Mutant: the errors are forgotten only when a new call begins.           *)
AllesGesendetOhneNull(x) == [x EXCEPT !.out = << >>]

AllesGesendet(x) == [x EXCEPT !.out = << >>, !.fehler = 0]

TeilGesendet(x) == [x EXCEPT !.out = Tail(@), !.fehler = 0]

(* Mutant: the handle is kept after the planned end. *)
NichtsGesendetMitHandle(x) ==
    LET y == [x EXCEPT !.fehler = (@ + 1) % 256]
    IN  IF y.fehler < FehlerGrenze THEN y
        ELSE IF y.abbau THEN OhneVerbindung(OhnePuffer(y))
        ELSE [y EXCEPT !.handle = NO_SOCKET_USED]

(* The count goes on after the close, when the connection is taken up again. *)
NichtsGesendet(x) ==
    LET y == [x EXCEPT !.fehler = (@ + 1) % 256]
    IN  IF y.fehler < FehlerGrenze THEN y
        ELSE LET z == [y EXCEPT !.handle = NO_SOCKET_USED]
             IN  IF y.abbau THEN OhneVerbindung(OhnePuffer(z)) ELSE z

(* The transmission of x.out over the open socket of x in the table t. *)
Senden1(x, t) ==
    \/ /\ CheckSocketState(t, x.handle) = "Ready"
       /\ tcp' = t
       /\ \/ itx' = AllesGesendet(x)
          \/ Len(x.out) > 1 /\ itx' = TeilGesendet(x)
    \/ /\ tcp' = CloseTCPSocket(t, x.handle)
       /\ itx' = NichtsGesendet(x)

SendenOderWarten(x, t) ==
    IF x.handle = NO_SOCKET_USED \/ x.out = << >>
    THEN itx' = x /\ tcp' = t
    ELSE \/ Senden1(x, t)
         \/ x.fehler # 0 /\ itx' = x /\ tcp' = t    \* 1.5 s after an error

Gesendet(x) ==
    /\ ~WiederaufbauNoetig(x)
    /\ Weiter("Senden", "Abbruch")
    /\ SendenOderWarten(x, tcp)
    /\ UNCHANGED anrufe

(* Mutant: the pause before the next attempt leaves SocketBearbeiten too. *)
WiederaufbauSpaeterVorzeitig(x) ==
    /\ WiederaufbauNoetig(x)
    /\ Weiter("Senden", "Auswerten")
    /\ itx' = x
    /\ UNCHANGED <<tcp, anrufe>>

(* Less than two seconds since the loss: not yet. *)
WiederaufbauSpaeter(x) ==
    /\ WiederaufbauNoetig(x)
    /\ Weiter("Senden", "Abbruch")
    /\ itx' = x
    /\ UNCHANGED <<tcp, anrufe>>

(* Connect2IP failed: SocketBearbeiten returns. *)
WiederaufbauMisslungen(x) ==
    /\ WiederaufbauNoetig(x)
    /\ Weiter("Senden", "Auswerten")
    /\ itx' = x
    /\ UNCHANGED <<tcp, anrufe>>

Wiederaufbau(x) ==
    /\ WiederaufbauNoetig(x)
    /\ Weiter("Senden", "Abbruch")
    /\ \E s \in Slots :
         /\ Connect2IP(s)
         /\ SendenOderWarten([x EXCEPT !.handle = s],
                             [tcp EXCEPT ![s] = NeuerSocket("Ready", x.ip)])

Senden ==
    /\ \E x \in {itx, MitLebenszeichen(itx)} :
         Gesendet(x) \/ WiederaufbauSpaeter(x) \/ WiederaufbauMisslungen(x) \/ Wiederaufbau(x)
    /\ UNCHANGED tele

(***************************************************************************)
(* SocketBearbeiten, last part: 30 seconds without a connection; the blind *)
(* socket goes when its caller has gone or after three seconds.            *)
(***************************************************************************)
Aufgegeben(x) ==
    IF x.mode # "Idle" /\ x.handle = NO_SOCKET_USED /\ x.abbruchUm
    THEN OhneVerbindung(OhnePuffer(x)) ELSE x

BlindBleibt ==
    /\ CheckSocketState(tcp, itx.blind) # "NotUse"
    /\ Weiter("Abbruch", "Auswerten")
    /\ itx' = Aufgegeben(itx)
    /\ UNCHANGED netz

(* Mutant: the blind socket waits for its caller to go. *)
BlindEndeOhneFrist ==
    /\ itx.blind # NO_SOCKET_USED /\ CheckSocketState(tcp, itx.blind) = "NotUse"
    /\ Weiter("Abbruch", "Auswerten")
    /\ itx' = [Aufgegeben(itx) EXCEPT !.blind = NO_SOCKET_USED]
    /\ UNCHANGED netz

BlindEnde ==
    /\ itx.blind # NO_SOCKET_USED
    /\ Weiter("Abbruch", "Auswerten")
    /\ itx' = [Aufgegeben(itx) EXCEPT !.blind = NO_SOCKET_USED]
    /\ tcp' = CloseTCPSocket(tcp, itx.blind)
    /\ UNCHANGED <<anrufe, tele>>

Abbruch == BlindBleibt \/ BlindEnde

(***************************************************************************)
(* Evaluation of the received data.                                        *)
(***************************************************************************)
(* Text in the first data of a call looks like a request of a web browser. *)
Fremdprogramm(x) == x.modus = "KommendVerbVorstufe" /\ x.in # << >> /\ x.in[1].art = "Ascii"

FremdeVerworfen(x) == ModusWechsel([x EXCEPT !.in = << >>, !.abbau = TRUE], "WarteGrundstellung")

(* Without a connection the call ends for the terminal too. *)
Auswerten ==
    /\ \E x \in {itx} \cup {FremdeVerworfen(y) : y \in {z \in {itx} : Fremdprogramm(z)}} :
         \/ /\ x.mode = "Idle"
            /\ Weiter("Auswerten", "Einschalten")
            /\ itx' = IF x.modus \in {"GehendVerbunden", "KommendVerbVorstufe",
                                      "KommendEinschalten", "KommendWarteEinQuitt",
                                      "KommendVerbunden"}
                      THEN InterneVerbindungBeenden(x, FALSE) ELSE x
         \/ /\ x.mode # "Idle"
            /\ Weiter("Auswerten", "Dekodieren")
            /\ itx' = x
    /\ UNCHANGED netz

Dekodiert(neu) ==
    /\ Weiter("Dekodieren", "Dekodieren")
    /\ itx' = neu
    /\ UNCHANGED netz

Rest(x) == [x EXCEPT !.in = Tail(@)]

Abgewiesen(x) == ModusWechsel(SendeStopkommando(x), "WarteGrundstellung")

(* The callee's terminal is reached by the extension number, or not. *)
InternAnwaehlen(x) ==
    {ModusWechsel(Einschalten(x), "KommendWarteEinQuitt"), Abgewiesen(x)}

(* ExternDurchwahlPruefen: the extension is allowed, or not. *)
DurchwahlGeprueft(x) == {ModusWechsel(x, "KommendEinschalten"), Abgewiesen(x)}

AsciiPlatz(x) == Len(x.ascii) < MaxPuffer

(* A character of an Ascii caller.  In the first phase the call is refused *)
(* if Ascii is switched off, or the extension number in the text is         *)
(* complete and right, or complete and wrong, or not complete.  A refusal   *)
(* does not leave the loop.                                                 *)
AsciiZeichen(x) ==
    LET y == [Rest(x) EXCEPT !.prot = "Ascii", !.abbau = FALSE,
                             !.ascii = Append(@, x.in[1].von)]
    IN  IF x.modus # "KommendVerbVorstufe" THEN {y}
        ELSE {y, [ModusWechsel(y, "WarteGrundstellung") EXCEPT !.abbau = TRUE]}
             \cup DurchwahlGeprueft(y)

DurchwahlTelegramm(x) ==
    LET y == [Rest(x) EXCEPT !.prot = "iTelex", !.abbau = FALSE]
    IN  IF x.modus = "KommendVerbVorstufe" THEN DurchwahlGeprueft(y) ELSE {y}

(* A block is printed when it is complete and SendePuffer has room. *)
BlockVollstaendig(x) == Len(x.in) >= 2 /\ Len(x.druck) < MaxPuffer

BaudotBlock(x) ==
    LET y == [Rest(Rest(x)) EXCEPT !.prot = "iTelex",
                                   !.druck = Append(@, x.in[1].von)]
    IN  {IF x.modus = "KommendVerbVorstufe" THEN ModusWechsel(y, "KommendEinschalten") ELSE y}

(* STOP (with a reason) and ENDE: the partner ends the call. *)
EndeTelegramm(x) ==
    LET y == [Rest(x) EXCEPT !.prot = "iTelex"]
        gemeldet == IF x.modus \in {"GehendWaehlen", "GehendVerbunden", "KommendVerbunden"}
                    THEN {y, WahlAbbruchMeldung(y)} ELSE {y}
    IN  {[InterneVerbindungBeenden(z, TRUE) EXCEPT !.abbau = TRUE] : z \in gemeldet}

QuittTelegramm(x) ==
    LET y == [Rest(x) EXCEPT !.prot = "iTelex"]
    IN  CASE x.modus = "KommendVerbVorstufe" -> InternAnwaehlen(y)
          [] x.modus = "GehendWaehlen" -> {ModusWechsel(EinschaltenGehend(y), "GehendVerbunden")}
          [] OTHER -> {y}

(* The version is agreed, or a counter-proposal is sent. *)
VersionTelegramm(x) ==
    LET y == [Rest(x) EXCEPT !.prot = "iTelex"] IN {y, InSocketOutBuf(y)}

(* Wirkung: what the first telegram of SocketInBuf may do.  The rest of a  *)
(* block whose head is gone is read as telegrams of any kind.              *)
Wirkung(x, art) ==
    CASE art = "Ascii" -> AsciiZeichen(x)
      [] art = "Durchwahl" -> DurchwahlTelegramm(x)
      [] art = "Kopf" -> BaudotBlock(x)
      [] art = "Ende" -> EndeTelegramm(x)
      [] art = "Quitt" -> QuittTelegramm(x)
      [] art = "Version" -> VersionTelegramm(x)
      [] art = "Rest" -> {Rest(x)} \cup DurchwahlTelegramm(x) \cup EndeTelegramm(x)
                         \cup QuittTelegramm(x)
      [] OTHER -> {Rest(x)}

Wartet(x) ==
    /\ x.in # << >>
    /\ \/ x.in[1].art = "Kopf" /\ ~BlockVollstaendig(x)
       \/ x.in[1].art = "Ascii" /\ ~AsciiPlatz(x)

Dekodieren ==
    /\ itx.in # << >> /\ ~Wartet(itx)
    /\ \E y \in Wirkung(itx, itx.in[1].art) : Dekodiert(y)

DekodierenEnde ==
    /\ itx.in # << >> => Wartet(itx)
    /\ Weiter("Dekodieren", "Weiterleiten")
    /\ itx' = IF itx.in = << >> THEN itx
              ELSE [itx EXCEPT !.prot = IF itx.in[1].art = "Kopf" THEN "iTelex" ELSE "Ascii"]
    /\ UNCHANGED netz

(* The teleprinter's characters go to the partner after a pause in typing; *)
(* an acknowledgement follows when it is due.                              *)
TippenGesendet(x) ==
    IF x.tipp # << >> /\ Len(x.out) < SocketOutBufMax
    THEN [x EXCEPT !.out = Append(@, x.tipp[1]), !.tipp = Tail(@)] ELSE x

MitQuittung(x) ==
    IF /\ x.modus \in {"KommendVerbunden", "GehendVerbunden"} /\ x.prot = "iTelex"
       /\ ~x.abbau /\ x.fehler = 0 /\ x.handle # NO_SOCKET_USED
    THEN InSocketOutBuf(x) ELSE x

Weiterleiten ==
    /\ Weiter("Weiterleiten", "Einschalten")
    /\ itx' \in {itx, TippenGesendet(itx), MitQuittung(itx), MitQuittung(TippenGesendet(itx))}
    /\ UNCHANGED netz

(***************************************************************************)
(* The timed steps of the mode machine.                                    *)
(***************************************************************************)
(* The terminal is started: by data for the dialling station, or for an    *)
(* accepted call, which is refused when no terminal is free.               *)
TerminalStarten ==
    /\ Weiter("Einschalten", "Wahl5")
    /\ itx' \in
         CASE itx.modus = "GehendWaehlen" /\ itx.druck # << >>
                -> {ModusWechsel(EinschaltenGehend(itx), "GehendVerbunden")}
           [] itx.modus = "KommendEinschalten" -> InternAnwaehlen(itx)
           [] OTHER -> {itx}
    /\ UNCHANGED netz

(* Five seconds after the last digit the directory's entry is called. *)
Wahl5 ==
    /\ Weiter("Wahl5", "Wahl15")
    /\ \/ itx' = itx /\ UNCHANGED <<tcp, anrufe>>
       \/ /\ itx.modus = "GehendWaehlen" /\ itx.mode = "Idle" /\ itx.ziel # Niemand
          /\ LET y == [itx EXCEPT !.ziel = Niemand]
             IN  \/ VerbindungGelingt(y, itx.ziel)
                 \/ itx' = Misslungen(y, itx.ziel) /\ UNCHANGED <<tcp, anrufe>>
    /\ UNCHANGED tele

(* Fifteen seconds after the last digit the call is given up. *)
Wahl15 ==
    /\ Weiter("Wahl15", "Fristen")
    /\ \/ itx' = itx
       \/ /\ itx.modus = "GehendWaehlen" /\ itx.mode = "Idle"
          /\ itx' = InterneVerbindungBeenden(WahlAbbruchMeldung(itx), TRUE)
    /\ UNCHANGED netz

(* No confirmation of the end within three seconds, none of the start      *)
(* within thirty, ten minutes of silence on both sides.                    *)
Frist(neu) ==
    /\ Weiter("Fristen", "Taste")
    /\ itx' = neu
    /\ UNCHANGED netz

KeineFrist == Frist(itx)

SchlussFrist ==
    /\ itx.modus = "WarteSchlussQuitt"
    /\ Frist(ModusWechsel(itx, "WarteGrundstellung"))

EinschaltFrist ==
    /\ itx.modus = "KommendWarteEinQuitt"
    /\ Frist(SendeStopkommando(InterneVerbindungBeenden(itx, TRUE)))

(* While there is a connection, each pass with something to print or       *)
(* something typed starts the ten minutes anew (3204, 3279).  What can be  *)
(* printed is printed in less.                                             *)
Druckfaehig(x) == Fernschreibend(x) /\ ~x.warte

FunkstilleFrist ==
    /\ Funkstille /\ ModusTwiVerbunden(itx)
    /\ itx.mode # "Idle" => itx.druck = << >> /\ itx.tipp = << >>
    /\ Druckfaehig(itx) => itx.druck = << >> /\ itx.ascii = << >>
    /\ Frist(ModusWechsel(ExterneVerbindungBeenden(InterneVerbindungBeenden(itx, TRUE)),
                          "WarteGrundstellung"))

Fristen == KeineFrist \/ SchlussFrist \/ EinschaltFrist \/ FunkstilleFrist

(* The push-button, and a message of the station for its own terminal. *)
Deaktivieren ==
    /\ itx.modus = "Ruhe"
    /\ itx' = ModusWechsel(itx, "Deaktiviert")

Aktivieren ==
    /\ itx.modus = "Deaktiviert"
    /\ itx' = ModusWechsel(itx, "WarteGrundstellung")

RestdruckAbbrechen ==
    /\ itx.modus = "PufferDruckUndSchluss"
    /\ itx' = [ModusWechsel(SendeBusKdoSchluss(itx), "WarteSchlussQuitt")
                 EXCEPT !.ascii = << >>, !.druck = << >>]

Meldungsdruck ==
    /\ itx.modus = "Ruhe"
    /\ LET y == [itx EXCEPT !.ascii = <<Lokal>>]
       IN  \/ itx' = ModusWechsel(Einschalten(y), "MeldungsdruckWarteEinQuitt")
           \/ itx' = ModusWechsel(y, "WarteGrundstellung")

Taste ==
    /\ Weiter("Taste", "Schluss")
    /\ \/ itx' = itx
       \/ Deaktivieren \/ Aktivieren \/ RestdruckAbbrechen \/ Meldungsdruck
    /\ UNCHANGED netz

(* AsciiDruckPufferVerarbeiten: text becomes printable once SendePuffer is empty. *)
AsciiDruckPufferVerarbeiten(x) ==
    IF Fernschreibend(x) /\ x.druck = << >>
    THEN [x EXCEPT !.druck = x.ascii, !.ascii = << >>] ELSE x

(* Mutant: what was typed must have been sent before the end. *)
SchlussNachEmpfPuffer ==
    /\ Weiter("Schluss", "Twi")
    /\ LET y == AsciiDruckPufferVerarbeiten(itx)
       IN  itx' = CASE /\ y.modus = "PufferDruckUndSchluss"
                       /\ y.ascii = << >> /\ y.druck = << >> /\ y.tipp = << >>
                         -> ModusWechsel(SendeBusKdoSchluss(y), "WarteSchlussQuitt")
                    [] /\ y.modus = "WarteGrundstellung"
                       /\ y.handle = NO_SOCKET_USED /\ y.mode = "Idle"
                         -> ModusWechsel(y, "Ruhe")
                    [] OTHER -> y
    /\ UNCHANGED netz

(* End of the pass: the last text has been printed, so the terminal is     *)
(* switched off; everything is closed, so the line is at rest again.       *)
Schluss ==
    /\ Weiter("Schluss", "Twi")
    /\ LET y == AsciiDruckPufferVerarbeiten(itx)
       IN  itx' = CASE y.modus = "PufferDruckUndSchluss" /\ y.ascii = << >> /\ y.druck = << >>
                         -> ModusWechsel(SendeBusKdoSchluss(y), "WarteSchlussQuitt")
                    [] /\ y.modus = "WarteGrundstellung"
                       /\ y.handle = NO_SOCKET_USED /\ y.mode = "Idle"
                         -> ModusWechsel(y, "Ruhe")
                    [] OTHER -> y
    /\ UNCHANGED netz

Thread ==
    \/ Twi \/ Waechter \/ Port \/ Trennung \/ KeineTrennung \/ PlanmaessigerAbbau
    \/ Empfang \/ Senden \/ Abbruch \/ Auswerten \/ Dekodieren \/ DekodierenEnde
    \/ Weiterleiten \/ TerminalStarten \/ Wahl5 \/ Wahl15 \/ Fristen \/ Taste \/ Schluss

(***************************************************************************)
(* The interrupts and the passing of time.  An interrupt commutes with the *)
(* blocks that do not touch what it changes, so it is enough to let it run *)
(* before the blocks that do: the Ethernet interrupt before each part of   *)
(* SocketBearbeiten and once between the last of them and the next use of  *)
(* the table, the serial converter before the buffers are used.  The 30    *)
(* seconds of the timer pass between two passes, never within one.         *)
(***************************************************************************)
NetzSichtbar ==
    pc \in {"Port", "Trennung", "Empfang", "Senden", "Abbruch", "Auswerten"}

Anruf(s, p) ==
    /\ Neuvergabe \/ s \notin {itx.handle, itx.blind}
    /\ SynEmpfangen(s, p)

Daten(s, art) ==
    /\ art = "Ascii" /\ s = itx.handle /\ itx.modus = "GehendWaehlen" => TextBeimWaehlen
    /\ DatenEmpfangen(s, art)

NetzEreignis ==
    \E s \in Slots :
        \/ \E p \in Gegenstellen : Anruf(s, p)
        \/ \E art \in Telegramme : Daten(s, art)
        \/ FinEmpfangen(s)
        \/ Zeitueberschreitung(s)
        \/ SocketFrei(s)

Netz == NetzSichtbar /\ NetzEreignis /\ UNCHANGED <<itx, pc>>

Seriell == Fernschreibend(itx) /\ pc \in {"Dekodieren", "Weiterleiten", "Schluss"}

(* The timer interrupt shifts a character out of SendePuffer to the bus,   *)
(* unless the terminal has still to confirm its start.                     *)
Drucken ==
    /\ Seriell /\ ~itx.warte /\ itx.druck # << >>
    /\ itx' = [itx EXCEPT !.druck = Tail(@)]
    /\ UNCHANGED <<netz, pc>>

(* A character typed at the terminal arrives in EmpfPuffer. *)
Tippen ==
    /\ Seriell /\ Len(itx.tipp) < MaxPuffer
    /\ itx' = [itx EXCEPT !.tipp = Append(@, itx.ip)]
    /\ UNCHANGED <<netz, pc>>

(* The timer runs out only while no pass starts it anew. *)
AbbruchZeit ==
    /\ pc = "Port" /\ itx.mode # "Idle" /\ ~itx.abbruchUm
    /\ itx.handle = NO_SOCKET_USED \/ Len(itx.in) >= SocketInBufMax
    /\ itx' = [itx EXCEPT !.abbruchUm = TRUE]
    /\ UNCHANGED <<netz, pc>>

Next == Thread \/ Netz \/ Drucken \/ Tippen \/ AbbruchZeit

Spec == Init /\ [][Next]_vars

(* The thread tries to send what waits in SocketOutBuf. *)
Sendeversuch ==
    /\ itx.handle # NO_SOCKET_USED /\ itx.out # << >>
    /\ Weiter("Senden", "Abbruch")
    /\ Senden1(itx, tcp)
    /\ UNCHANGED <<anrufe, tele>>

(* A sign of life is due and sent. *)
Lebenszeichen ==
    /\ MitLebenszeichen(itx) # itx
    /\ Gesendet(MitLebenszeichen(itx))
    /\ UNCHANGED tele

(* Two seconds pass between two attempts to take up the connection again. *)
WiederaufbauPause == WiederaufbauSpaeter(itx) /\ UNCHANGED tele

(***************************************************************************)
(* Fairness.  The main loop always goes on.  A timed step that is possible *)
(* again and again happens: its timer is not started anew for ever, since  *)
(* the network delivers only finitely many telegrams.  Each liveness       *)
(* property gets the timers it needs and no more; nothing is assumed of a  *)
(* partner, of the user or of the terminal.  Fairness of a disjunction     *)
(* asks for one of its actions only, so it assumes less than fairness of   *)
(* each.                                                                   *)
(***************************************************************************)
FairSpec == Spec /\ WF_vars(Thread)

FairAbbau == FairSpec /\ SF_vars(PlanmaessigerAbbau) /\ SF_vars(Sendeversuch)
                      /\ SF_vars(AbbruchZeit) /\ SF_vars(SchlussFrist)

FairVerlust == FairSpec /\ SF_vars(AbbruchZeit)
                        /\ SF_vars(Lebenszeichen \/ Sendeversuch \/ WiederaufbauPause)
                        /\ SF_vars(Drucken \/ SchlussFrist \/ FunkstilleFrist)

FairBlind == FairSpec /\ SF_vars(BlindEnde) /\ SF_vars(WiederaufbauPause)

(***************************************************************************)
(* Properties.                                                             *)
(***************************************************************************)
(* What the line promises (module Leitung), read off the modes. *)
Phase(m) ==
    CASE m = "Ruhe" -> "Ruhe"
      [] m = "Deaktiviert" -> "Aus"
      [] m \in {"GehendReserv", "GehendWaehlen", "GehendVerbunden"} -> "Gehend"
      [] m \in {"KommendVerbVorstufe", "KommendEinschalten", "KommendWarteEinQuitt",
                "KommendVerbunden"} -> "Kommend"
      [] m = "MeldungsdruckWarteEinQuitt" -> "Eigen"
      [] OTHER -> "Abbau"

L == INSTANCE Leitung WITH
        phase <- Phase(itx.modus), mode <- itx.mode,
        partner <- IF itx.mode = "Idle" THEN Niemand ELSE itx.ip

(* Hazard: the mode and the connection change in different blocks, at      *)
(* dozens of places.  Seen from outside, every step is one of the few      *)
(* steps that a telex line may take: no call is taken but at rest, none is *)
(* made but by a terminal that has seized the line, and a line that is     *)
(* being released only comes to rest.                                      *)
ImplementiertLeitung == L!Spec

(* Hazard: SocketBearbeiten gives up or loses a connection at five places  *)
(* (2052, 2119, 2268, 2288, 2334), ModusWechsel is called at far more.  A  *)
(* line that is at rest, switched off or only seized by its terminal has   *)
(* no connection, and an open socket always belongs to a connection.       *)
LeitungFrei ==
    /\ itx.modus \in {"Ruhe", "Deaktiviert", "GehendReserv", "MeldungsdruckWarteEinQuitt"}
         => itx.mode = "Idle"
    /\ itx.handle # NO_SOCKET_USED => itx.mode # "Idle"

(* Hazard: the end of the connection is found in SocketBearbeiten, the     *)
(* terminal is told in another block (4627).  Between the evaluation of    *)
(* one pass and the socket work of the next, a terminal that is connected  *)
(* to the network or about to be has a partner, even one that has only     *)
(* dialled when a block of data arrived (4673).                            *)
VerbundenMitPartner ==
    /\ pc \notin {"Empfang", "Senden", "Abbruch", "Auswerten"}
    /\ itx.modus \in {"KommendVerbVorstufe", "KommendEinschalten",
                      "KommendWarteEinQuitt", "KommendVerbunden", "GehendVerbunden"}
    => itx.mode # "Idle"

(* Hazard: a connection that was lost is taken up again by either side     *)
(* (1980, 2204) while others call.  The open socket leads to the partner   *)
(* of the call, however often that happened ("nur von gleicher IP", 1983), *)
(* and is never the socket of the busy signal.                             *)
SocketDesPartners ==
    itx.handle # NO_SOCKET_USED =>
        tcp[itx.handle].peer = itx.ip /\ itx.handle # itx.blind

Inhalt(puffer) == {puffer[i] : i \in 1 .. Len(puffer)}

(* Hazard: six buffers are emptied in six functions, some by ModusWechsel  *)
(* and some with the socket.  What waits to be evaluated, printed or sent  *)
(* during a call came from its partner (or the station) or is meant for    *)
(* it, never for an earlier call.  Text that comes before the call has     *)
(* been confirmed is kept (2844) for the next one, if the terminal dials   *)
(* on: it holds while TextBeimWaehlen is FALSE.                            *)
NurDieserAnruf ==
    itx.mode # "Idle" =>
        /\ {t.von : t \in Inhalt(itx.in)} \subseteq {itx.ip}
        /\ Inhalt(itx.druck) \cup Inhalt(itx.ascii) \subseteq {itx.ip, Lokal}
        /\ Inhalt(itx.tipp) \cup Inhalt(itx.out) \subseteq {itx.ip}

(* Hazard: the terminal is switched off on many paths, by the partner, the *)
(* user, a timer or the watchdog, at any moment of its start.              *)
(* ModWarteGrundstellung comes "nach Ausschaltung des lokalen Endgeraetes" *)
(* (iTelex.h 263): no path leaves a terminal running that nobody will      *)
(* switch off.  The path of the ten minute timer does (4910), so it holds  *)
(* while Funkstille is FALSE.                                              *)
GeraetAus ==
    itx.modus \in {"Ruhe", "Deaktiviert", "WarteSchlussQuitt", "WarteGrundstellung"}
        => ~itx.geraet

(* The partner of a call (iTelexSocketIP) never changes while the call     *)
(* lasts, whoever calls, dials or comes back in between (1954, 2204).      *)
PartnerBleibt ==
    [][itx.mode # "Idle" /\ itx'.mode # "Idle" => itx'.ip = itx.ip]_vars

(* Once the terminal is off or being switched off the line comes to rest   *)
(* (iTelex.h 262-264), whatever the partner does and whatever the network  *)
(* loses.                                                                  *)
GrundstellungErreicht ==
    itx.modus \in {"WarteSchlussQuitt", "WarteGrundstellung"} ~> itx.modus = "Ruhe"

(* The socket of the busy signal is given back (2354), even when its       *)
(* caller never closes it, while calls, reconnects and closes go on.       *)
BlindSocketFrei == itx.blind # NO_SOCKET_USED ~> itx.blind = NO_SOCKET_USED

OhneSocket ==
    /\ itx.mode # "Idle"
    /\ itx.handle = NO_SOCKET_USED \/ tcp[itx.handle].st = "NotUse"

(* A lost connection is taken up again or given up ("Nach 30 Sekunden      *)
(* unplanmaessigem Verbindungsverlust wird entgueltig abgebaut", 306).     *)
(* When its end is planned and the terminal does not confirm its start,    *)
(* what has been received is never printed, the loss not seen (2054), and  *)
(* the ten minutes begin anew in every pass (3204): only the user or the   *)
(* watchdog ends that.                                                     *)
VerlustEndet == OhneSocket ~> (~OhneSocket \/ (itx.warte /\ itx.abbau))

(* The rest of a call is printed and the terminal switched off, whatever   *)
(* the user types and whether or not the connection still stands.  A       *)
(* terminal that never confirms its start prints nothing (1158); it is     *)
(* given up after ten minutes (4910) once the connection has ended, and    *)
(* nothing is said of it before: the ten minutes begin anew in every pass  *)
(* (3204).                                                                 *)
RestdruckEndet ==
    itx.modus = "PufferDruckUndSchluss" /\ (itx.warte => itx.mode = "Idle")
        ~> itx.modus # "PufferDruckUndSchluss"

(* Hazard: SocketSendeFehlerZaehler is reset by a success or a new call    *)
(* and survives the close of the socket (2288).  While it counts, neither  *)
(* the sign of life (2192) nor the acknowledgement (3249) is put in, so an *)
(* accepted call whose buffer were empty by then would never try to send   *)
(* again, and never notice that its partner is gone.                       *)
FehlerWirdGeheilt == itx.mode = "Answer" /\ itx.fehler # 0 => itx.out # << >>
=============================================================================
