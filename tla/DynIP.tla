-------------------------------- MODULE DynIP --------------------------------
(***************************************************************************)
(* What a station does at the subscriber servers (iTelex/iTelex.c): it     *)
(* reports its own address there, asks for numbers that are dialled and    *)
(* searches for names, all over one socket, and it calls itself now and    *)
(* then to see whether the address it reported still leads to it.  A       *)
(* server that fails is asked more and more seldom.                        *)
(*                                                                         *)
(* A pass of itelex_thread runs the blocks modelled here in their order:   *)
(* codes of the bus and the i-Telex socket, Aktualisierung, Selbstanruf,   *)
(* Antwort.  The network, the user and time go on between two passes: what *)
(* they do within one has no other effect than before or after it.         *)
(*                                                                         *)
(* Abstracted: which record a server sends, several servers' data (they    *)
(* are one directory), how long the times are.                       *)
(***************************************************************************)
EXTENDS Integers, Sequences, FiniteSets

CONSTANTS
    ANZ_TEILNEHMER_SERVER,                \* servers configured
    TeilnehmerServerFehlerZaehlerGrenze,  \* 12 in the code
    DiErneuernAb, DiAufgebenAb,           \* failed self calls: 3 and 8 in the code
    DiGeheimzahlGrenze,                   \* refusals: 3 in the code
    DiMaxIP, DiMaxFragen,                 \* bounds: addresses, requests of one call
    DiMaxEreignisse                       \* bound: uses of the line, failures, changes of
                                          \* address or configuration, all together

ASSUME DiAnnahme ==
    /\ {ANZ_TEILNEHMER_SERVER, TeilnehmerServerFehlerZaehlerGrenze, DiErneuernAb, DiAufgebenAb, DiMaxIP} \subseteq Nat \ {0}
    /\ TeilnehmerServerFehlerZaehlerGrenze % 2 = 0
    /\ {DiGeheimzahlGrenze, DiMaxFragen, DiMaxEreignisse} \subseteq Nat

Index == 1 .. ANZ_TEILNEHMER_SERVER
IPAdr == 1 .. DiMaxIP
Phasen == {"Inaktiv", "Erneuern", "LaeuftGerade", "Bestaetigt", "Unbestaetigt", "Fehler"}
SelbstAnrufPhasen == {"Ruhe", "WarteEmpfang", "Sperre"}
Fragen == {"SELBSTAKT", "ABFRAGE", "SUCHE", "QUITTUNG"}
Antworten == {"IPRUECKMELD", "AUSKUNFT", "NICHTVERG", "SYNC_ENDE", "FEHLER"}

VARIABLES
    diStation, \* modus: Modus, as far as it matters here; fragen: requests left in it;
               \* fehler, sperrzeitUm: per server;
               \* socket: TeilnehmerServerSocket, whose handle is held (bei), as
               \* tcp.c sees it (offen), what is on the way to the server and back;
               \* dyn: phase, faellig (its time has come), eigene (address), falsch;
               \* selbst: the self call: phase, handle, faellig, fehler, periode,
               \* empfang (what has come back)
    diNetz,    \* wahr (our address), kennt (the server's idea of it), erreichbar,
               \* pin (is it right), anruf (telegrams of self calls on the way)
    diRest     \* bound: what may still happen

diVars == <<diStation, diNetz, diRest>>

(***************************************************************************)
(* Servers and their errors.                                               *)
(***************************************************************************)

(* A server with many errors is left alone for 5, 20 or 180 minutes, as    *)
(* the number of errors and the other servers suggest.                     *)
Verfuegbar(t, s) == t.fehler[s] >= TeilnehmerServerFehlerZaehlerGrenze \div 2 => t.sperrzeitUm[s]

ErfolgSpeichern(t, s) ==
    [t EXCEPT !.sperrzeitUm[s] = FALSE, !.fehler[s] = IF @ > 0 THEN @ - 1 ELSE 0]

FehlerSpeichern(t, s) ==
    [t EXCEPT !.sperrzeitUm[s] = FALSE,
              !.fehler[s] = IF @ < TeilnehmerServerFehlerZaehlerGrenze THEN @ + 2 ELSE @]

(* TeilnehmerServerSocketOeffnen: if it is not open already, the first     *)
(* server that is not locked and can be reached; those before it that are  *)
(* not locked get an error.                                                *)
KeinSocket == [bei |-> 0, offen |-> FALSE, hin |-> << >>, her |-> << >>]
SocketBei(s) == [bei |-> s, offen |-> TRUE, hin |-> << >>, her |-> << >>]
Versucht(v, s) ==
    IF v.socket.bei # 0 \/ ~Verfuegbar(v, s) THEN v
    ELSE IF s \in diNetz.erreichbar THEN [ErfolgSpeichern(v, s) EXCEPT !.socket = SocketBei(s)]
         ELSE FehlerSpeichern(v, s)
Geoeffnet(t) ==
    LET versuch[s \in 0 .. ANZ_TEILNEHMER_SERVER] == IF s = 0 THEN t ELSE Versucht(versuch[s - 1], s)
    IN  versuch[ANZ_TEILNEHMER_SERVER]

(* Asking f over it. *)
Gefragt(t, f) ==
    LET o == Geoeffnet(t) IN IF o.socket.offen THEN [o EXCEPT !.socket.hin = Append(@, f)] ELSE o

(***************************************************************************)
(* The user of the line.                                                   *)
(***************************************************************************)

(* A call in either direction, or the name search, begins and ends. *)
LeitungBelegt(m) ==
    /\ diStation.modus = "Ruhe" /\ diRest > 0
    /\ diStation' = [diStation EXCEPT !.modus = m, !.fragen = DiMaxFragen]
    /\ diRest' = diRest - 1
    /\ UNCHANGED diNetz

LeitungFrei ==
    /\ diStation.modus # "Ruhe"
    /\ diStation' = [diStation EXCEPT !.modus = "Ruhe", !.fragen = 0]
    /\ UNCHANGED <<diNetz, diRest>>

(***************************************************************************)
(* The codes of the bus and the i-Telex socket: what t may become.         *)
(***************************************************************************)

(* RufnummerBeiTlnServerAbfragen: a digit more, or the pause after it. *)
Abgefragt(t) ==
    IF t.modus = "GehendWaehlen" /\ t.fragen > 0 THEN {[Gefragt(t, "ABFRAGE") EXCEPT !.fragen = @ - 1]} ELSE {}

(* The name has been typed; without a server only our own directory. *)
Gesucht(t) ==
    IF t.modus # "NamensucheEingabe" THEN {}
    ELSE {[Gefragt(t, "SUCHE") EXCEPT !.modus =
              IF Gefragt(t, "SUCHE").socket.bei # 0 THEN "NamensucheServerAbfrage" ELSE "NamensucheAusgabe"]}

(* Our own call w comes in, is read and ended (a line that is busy gives   *)
(* it the busy signal, which is a telegram lost).                          *)
Angekommen(t, w) ==
    [t EXCEPT !.modus = "Schluss", !.fragen = 0,
              !.selbst.empfang = IF t.selbst.phase = "WarteEmpfang" THEN w ELSE @]

(***************************************************************************)
(* Reporting the address (5123-5162).                                      *)
(***************************************************************************)
MitFehler(t) == [t EXCEPT !.dyn.phase = "Fehler", !.dyn.faellig = FALSE]

(* (A report that cannot be sent closes the socket and counts as error.)   *)
Aktualisierung(t) ==
    IF t.dyn.phase # "Erneuern" \/ t.modus # "Ruhe" \/ t.socket.bei # 0 THEN {t}
    ELSE LET g == Gefragt(t, "SELBSTAKT")
         IN  IF g.socket.bei = 0 THEN {MitFehler(g)}
             ELSE {[g EXCEPT !.dyn.phase = "LaeuftGerade", !.dyn.faellig = FALSE],
                   MitFehler([FehlerSpeichern(g, g.socket.bei) EXCEPT !.socket = KeinSocket])}

(***************************************************************************)
(* ProcessSelfCall and the two steps after it (5164-5171): the renewal     *)
(* that is due, and the socket that tcp.c has closed.                      *)
(***************************************************************************)
Beendet(t) == [t EXCEPT !.selbst.phase = "Ruhe", !.selbst.handle = "keins", !.selbst.faellig = FALSE,
                        !.selbst.empfang = "nichts"]
(* (More than DiAufgebenAb failures are as good as so many.) *)
Versagt(t) == [t EXCEPT !.selbst.fehler = IF @ < DiAufgebenAb THEN @ + 1 ELSE @]
Belegt(t) == t.modus # "Ruhe"

(* What it may become when it is time for one. *)
Begonnen(t) ==
    IF t.selbst.phase # "Ruhe" \/ t.selbst.handle # "keins" \/ ~t.selbst.periode THEN {t}
    ELSE IF t.dyn.phase \notin {"Bestaetigt", "Unbestaetigt"} \/ Belegt(t) \/ t.socket.bei # 0
         THEN {[t EXCEPT !.selbst.faellig = FALSE]}
    ELSE IF ~t.selbst.faellig THEN {t}
    ELSE IF t.dyn.eigene = 0 THEN {[t EXCEPT !.selbst.phase = "Sperre"]}
    ELSE {Versagt([t EXCEPT !.selbst.faellig = FALSE, !.selbst.empfang = "nichts"]),
          [t EXCEPT !.selbst = [@ EXCEPT !.phase = "WarteEmpfang", !.handle = "offen", !.faellig = FALSE,
                                         !.empfang = "nichts"]]}

(* What has come back, what disturbs it, or five seconds without anything. *)
Ausgewertet(t) ==
    IF t.selbst.phase # "WarteEmpfang" THEN {t}
    ELSE IF t.selbst.empfang = "dieser"
         THEN {[Beendet(t) EXCEPT !.selbst.fehler = 0, !.dyn.phase = IF @ = "Unbestaetigt" THEN "Bestaetigt" ELSE @]}
    ELSE IF t.selbst.empfang = "frueherer" THEN {Beendet(Versagt(t))}
    ELSE IF Belegt(t) THEN {Beendet(t)}
    ELSE IF t.selbst.faellig THEN {Beendet(Versagt(t))} ELSE {t}

(* Three failures: ask the server; eight: give up. *)
Gefolgert(t) ==
    IF t.selbst.phase = "Ruhe" /\ t.selbst.fehler >= DiErneuernAb /\ t.dyn.phase = "Bestaetigt"
    THEN [t EXCEPT !.selbst.phase = "Sperre", !.dyn.phase = "Erneuern"]
    ELSE IF t.selbst.phase = "Ruhe" /\ t.selbst.fehler >= DiAufgebenAb /\ t.dyn.phase = "Unbestaetigt"
         THEN [t EXCEPT !.selbst.phase = "Sperre", !.selbst.periode = FALSE]
         ELSE t

(* Mutant: only what has been confirmed is renewed. *)
FaelligNurBestaetigt(t) ==
    IF t.dyn.faellig /\ t.dyn.phase = "Bestaetigt" THEN [t EXCEPT !.dyn.phase = "Erneuern"] ELSE t

Faellig(t) ==
    IF t.dyn.faellig /\ t.dyn.phase # "LaeuftGerade" THEN [t EXCEPT !.dyn.phase = "Erneuern"] ELSE t

(* ProcessSelfCallSocketTimeout, even if nothing is reported any more.     *)
SocketFort(t) == IF t.selbst.handle = "zu" THEN Beendet(t) ELSE t

(* Mutant: nothing of it is done when nothing is reported any more. *)
SelbstanrufNurAktiv(t) ==
    IF t.dyn.phase = "Inaktiv" THEN {t}
    ELSE UNION {{SocketFort(Faellig(Gefolgert(a))) : a \in Ausgewertet(s)} : s \in Begonnen(t)}

Selbstanruf(t) ==
    IF t.dyn.phase = "Inaktiv" THEN {SocketFort(t)}
    ELSE UNION {{SocketFort(Faellig(Gefolgert(a))) : a \in Ausgewertet(s)} : s \in Begonnen(t)}

(***************************************************************************)
(* The answers (5177-5446).                                                *)
(***************************************************************************)

(* FalschGeheimzahlWurdeGemeldet *)
Abgewiesen(d) ==
    IF d.falsch < DiGeheimzahlGrenze THEN [d EXCEPT !.falsch = @ + 1] ELSE [d EXCEPT !.phase = "Inaktiv"]

Sucht(t) == t.modus = "NamensucheServerAbfrage"

(* The one telegram that is looked at; what else has come is lost with it. *)
Gelesen(t, a) ==
    CASE a.code = "IPRUECKMELD" ->
            [t EXCEPT !.dyn = [@ EXCEPT !.eigene = a.ip, !.phase = "Unbestaetigt", !.falsch = 0, !.faellig = FALSE],
                      !.selbst.fehler = IF a.ip = t.dyn.eigene THEN @ ELSE 0, !.selbst.faellig = FALSE,
                      !.selbst.phase = IF @ = "Sperre" THEN "Ruhe" ELSE @]
      [] a.code = "FEHLER" /\ (Sucht(t) \/ t.dyn.phase # "LaeuftGerade") -> [t EXCEPT !.dyn.faellig = FALSE]
      [] a.code = "FEHLER" /\ ~Sucht(t) /\ t.dyn.phase = "LaeuftGerade" ->
            [t EXCEPT !.dyn = Abgewiesen([@ EXCEPT !.faellig = FALSE]),
                      !.selbst.phase = IF @ = "Ruhe" THEN "Sperre" ELSE @]
      [] OTHER -> t
ModusNach(t, code) ==
    CASE Sucht(t) /\ code \in {"NICHTVERG", "SYNC_ENDE", "FEHLER"} -> {"NamensucheAusgabe"}
      [] t.modus = "GehendWaehlen" /\ code = "AUSKUNFT" -> {"GehendWaehlen", "Verbunden", "Schluss"}
      [] OTHER -> {t.modus}

(* After it the socket is closed, unless a search goes on. *)
Beantwortet(t) ==
    IF t.socket.her = << >> THEN {t}
    ELSE LET a == Head(t.socket.her)
             g == [Gelesen(t, a) EXCEPT !.socket.her = << >>]
             w == IF Sucht(t) /\ a.code = "AUSKUNFT" /\ g.socket.offen
                  THEN [g EXCEPT !.socket.hin = Append(@, "QUITTUNG")] ELSE g
         IN  {[w EXCEPT !.modus = m, !.socket = IF m = "NamensucheServerAbfrage" THEN @ ELSE KeinSocket] :
                 m \in ModusNach(t, a.code)}

(* The socket has been closed by the server; what if the report was under  *)
(* way (5438)?                                                             *)
Geschlossen(t) == IF t.socket.offen THEN t ELSE [t EXCEPT !.socket = KeinSocket]

(* Mutant: nobody looks whether the report is still under way. *)
OhneSocketNie(t) == t

OhneSocket(t) ==
    IF t.socket.bei = 0 /\ t.dyn.phase = "LaeuftGerade"
    THEN [t EXCEPT !.dyn.phase = "Unbestaetigt", !.dyn.faellig = FALSE] ELSE t

(* The rest of a pass.  The telegram of a self call that begins is sent to *)
(* the address we believe to be ours; only if it is can it come back.      *)
Danach(t, unterwegs) ==
    \E a \in Aktualisierung(t) : \E s \in Selbstanruf(a) : \E b \in Beantwortet(s) :
        LET beginnt == a.selbst.handle = "keins" /\ s.selbst.handle = "offen"
            frueher == IF beginnt /\ unterwegs # {} THEN {"frueherer"} ELSE unterwegs
            scheitert == a.dyn.phase = "Fehler" /\ t.dyn.phase = "Erneuern" /\ Geoeffnet(t).socket.bei # 0
        IN  /\ diStation' = OhneSocket(Geschlossen(b))
            /\ diNetz' = [diNetz EXCEPT !.anruf =
                  IF beginnt /\ diNetz.wahr = a.dyn.eigene THEN frueher \cup {"dieser"} ELSE frueher]
            /\ IF scheitert THEN diRest > 0 /\ diRest' = diRest - 1 ELSE diRest' = diRest

Durchlauf ==
    \/ \E t \in Abgefragt(diStation) \cup Gesucht(diStation) \cup {diStation} : Danach(t, diNetz.anruf)
    \/ \E w \in diNetz.anruf : diStation.modus = "Ruhe" /\ Danach(Angekommen(diStation, w), diNetz.anruf \ {w})

(***************************************************************************)
(* The web page: the PIN is believed again, the address as well.           *)
(***************************************************************************)
Konfigurieren(aktiv) ==
    /\ diRest > 0 /\ diRest' = diRest - 1
    /\ diStation' = [diStation EXCEPT
          !.dyn = [@ EXCEPT !.falsch = 0, !.phase = IF aktiv THEN "Bestaetigt" ELSE "Inaktiv"],
          !.selbst.fehler = 0, !.selbst.periode = TRUE, !.selbst.phase = IF @ = "Sperre" THEN "Ruhe" ELSE @]
    /\ UNCHANGED diNetz

(***************************************************************************)
(* Time and the network.                                                   *)
(***************************************************************************)
UhrDyn ==
    /\ ~diStation.dyn.faellig
    /\ diStation' = [diStation EXCEPT !.dyn.faellig = TRUE]
    /\ UNCHANGED <<diNetz, diRest>>

UhrSelbst ==
    /\ ~diStation.selbst.faellig
    /\ diStation' = [diStation EXCEPT !.selbst.faellig = TRUE]
    /\ UNCHANGED <<diNetz, diRest>>

UhrSperre(s) ==
    /\ ~Verfuegbar(diStation, s)
    /\ diStation' = [diStation EXCEPT !.sperrzeitUm[s] = TRUE]
    /\ UNCHANGED <<diNetz, diRest>>

(* The server answers one telegram (TlnServer.c). *)
Antwortet ==
    /\ diStation.socket.offen /\ diStation.socket.hin # << >>
    /\ LET f == Head(diStation.socket.hin)
       IN  \E code \in (CASE f = "SELBSTAKT" -> IF diNetz.pin THEN {"IPRUECKMELD"} ELSE {"FEHLER"}
                          [] f = "ABFRAGE" -> {"AUSKUNFT", "NICHTVERG"}
                          [] f = "SUCHE" -> {"AUSKUNFT", "SYNC_ENDE"}
                          [] OTHER -> {"SYNC_ENDE"}) :
            /\ diStation' = [diStation EXCEPT !.socket.hin = Tail(@),
                   !.socket.her = Append(@, [code |-> code, ip |-> IF code = "IPRUECKMELD" THEN diNetz.wahr ELSE 0])]
            /\ diNetz' = IF code = "IPRUECKMELD" THEN [diNetz EXCEPT !.kennt = diNetz.wahr] ELSE diNetz
    /\ UNCHANGED diRest

(* The connection ends: the server closes it or is gone, or 30 s without   *)
(* anything (tcp.c); nobody answers any more.                              *)
Abgebrochen(t) == [t EXCEPT !.socket = IF @.bei = 0 THEN @ ELSE [@ EXCEPT !.offen = FALSE, !.hin = << >>]]
Abbruch ==
    /\ diStation.socket.offen
    /\ \/ diRest > 0 /\ diRest' = diRest - 1
       \/ diStation.socket.hin = << >> /\ diStation.socket.her = << >> /\ diRest' = diRest
    /\ diStation' = Abgebrochen(diStation)
    /\ UNCHANGED diNetz

(* A server cannot be reached for a while. *)
Ausfall(s) ==
    /\ diRest > 0 /\ s \in diNetz.erreichbar
    /\ diNetz' = [diNetz EXCEPT !.erreichbar = @ \ {s}]
    /\ diRest' = diRest - 1
    /\ UNCHANGED diStation

Wiederkehr(s) ==
    /\ s \notin diNetz.erreichbar
    /\ diNetz' = [diNetz EXCEPT !.erreichbar = @ \cup {s}]
    /\ UNCHANGED <<diStation, diRest>>

(* The provider gives us another address: what is on the way is lost.      *)
Adresswechsel(ip) ==
    /\ diRest > 0 /\ ip # diNetz.wahr
    /\ diNetz' = [diNetz EXCEPT !.wahr = ip, !.anruf = {}]
    /\ diStation' = Abgebrochen(diStation)
    /\ diRest' = diRest - 1

(* The socket of a self call is closed, by the other side or after 30 s;  *)
(* a telegram of one is lost.                                              *)
SelbstAnrufAbbruch ==
    /\ diStation.selbst.handle = "offen"
    /\ diStation' = [diStation EXCEPT !.selbst.handle = "zu"]
    /\ UNCHANGED <<diNetz, diRest>>

TelegrammVerloren ==
    /\ diNetz.anruf # {}
    /\ diNetz' = [diNetz EXCEPT !.anruf = {}]
    /\ UNCHANGED <<diStation, diRest>>

(***************************************************************************)
(* The specification and its properties.                                   *)
(***************************************************************************)
DiInit ==
    /\ diStation =
          [modus |-> "Ruhe", fragen |-> 0,
           fehler |-> [s \in Index |-> 0], sperrzeitUm |-> [s \in Index |-> FALSE],
           socket |-> KeinSocket,
           dyn |-> [phase |-> "Fehler", faellig |-> FALSE, eigene |-> 0, falsch |-> 0],
           selbst |-> [phase |-> "Sperre", handle |-> "keins", faellig |-> FALSE, fehler |-> 0,
                       periode |-> TRUE, empfang |-> "nichts"]]
    /\ diNetz \in [wahr : {1}, kennt : {0}, erreichbar : {Index}, pin : BOOLEAN, anruf : {{}}]
    /\ diRest = DiMaxEreignisse

DiNext ==
    \/ Durchlauf
    \/ \E m \in {"GehendWaehlen", "Kommend", "NamensucheEingabe"} : LeitungBelegt(m)
    \/ LeitungFrei
    \/ \E aktiv \in BOOLEAN : Konfigurieren(aktiv)
    \/ UhrDyn \/ UhrSelbst \/ \E s \in Index : UhrSperre(s)
    \/ Antwortet \/ Abbruch
    \/ \E s \in Index : Ausfall(s) \/ Wiederkehr(s)
    \/ \E ip \in IPAdr : Adresswechsel(ip)
    \/ SelbstAnrufAbbruch \/ TelegrammVerloren

(* The main loop goes round, a call ends, clocks run, a server answers or  *)
(* the connection ends, an outage is over.                                 *)
DiFair ==
    /\ WF_diVars(Durchlauf) /\ WF_diVars(LeitungFrei)
    /\ WF_diVars(UhrDyn) /\ WF_diVars(UhrSelbst) /\ \A s \in Index : WF_diVars(UhrSperre(s))
    /\ WF_diVars(Antwortet \/ Abbruch) /\ WF_diVars(SelbstAnrufAbbruch) /\ WF_diVars(\E s \in Index : Wiederkehr(s))
DiSpec == DiInit /\ [][DiNext]_diVars
DiFairSpec == DiSpec /\ DiFair

DiTyp ==
    /\ diStation.fehler \in [Index -> 0 .. TeilnehmerServerFehlerZaehlerGrenze + 1]
    /\ diStation.sperrzeitUm \in [Index -> BOOLEAN]
    /\ diStation.socket.bei \in {0} \cup Index /\ diStation.socket.hin \in Seq(Fragen)
    /\ \A i \in DOMAIN diStation.socket.her : diStation.socket.her[i].code \in Antworten
    /\ diStation.dyn.phase \in Phasen /\ diStation.dyn.eigene \in {0} \cup IPAdr
    /\ diStation.dyn.falsch \in 0 .. DiGeheimzahlGrenze
    /\ diStation.selbst.phase \in SelbstAnrufPhasen /\ diStation.selbst.fehler \in 0 .. DiAufgebenAb
    /\ (diStation.selbst.handle # "keins") = (diStation.selbst.phase = "WarteEmpfang")
    /\ diNetz.wahr \in IPAdr /\ diNetz.kennt \in {0} \cup IPAdr

(* A report said to be under way is under way on a socket, whoever else    *)
(* used the socket meanwhile; so it always comes to an end.                *)
LaeuftMitSocket == diStation.dyn.phase = "LaeuftGerade" => diStation.socket.bei # 0

(* The address that is ours gets known at the servers, after every change  *)
(* and every failure, unless the report is switched off (by the web page   *)
(* or because the PIN is refused).                                         *)
AdresseWirdBekannt ==
    (diStation.dyn.phase # "Inaktiv") ~> (diStation.dyn.phase = "Inaktiv" \/ diNetz.kennt = diNetz.wahr)

(* A self call comes to an end, whatever became of its telegram. *)
SelbstAnrufEndet == (diStation.selbst.phase = "WarteEmpfang") ~> (diStation.selbst.phase # "WarteEmpfang")
=============================================================================
