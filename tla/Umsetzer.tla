------------------------------- MODULE Umsetzer -------------------------------
(***************************************************************************)
(* The serial converter of the timer interrupt (src/iTelex/iTelex.c, 1079  *)
(* to 1205): it samples the level that comes from the terminal and turns   *)
(* it into characters, and turns characters into changes of level, 900     *)
(* times a second.  Two converters face each other over the two-wire bus,  *)
(* which carries changes of level as messages and delays each by up to     *)
(* UmVerzug ticks; the bus itself is the library BusKomm (external).       *)
(***************************************************************************)
EXTENDS Integers, Sequences, SequencesExt

CONSTANTS SerUmTicksProBit, SerUmTicksProStopBit, \* 18 and 27 at 50 baud (945, 946)
          UmVerzug,        \* longest delay of a change of level
          UmCodes,         \* five-bit codes that are typed
          UmMaxZeichen,    \* how many each side sends
          UmBeschleunigen  \* values of SendenBeschleunigen

ASSUME UmAnnahme ==
    /\ UmCodes \subseteq 0 .. 31 /\ UmVerzug \in Nat /\ UmBeschleunigen \subseteq BOOLEAN
    /\ SerUmTicksProBit \in Nat /\ SerUmTicksProStopBit \in Nat

VARIABLES um,       \* the two converters
          umBus,    \* level that each side sees, and for how long it has been out of date
          umZeichen \* what each side has taken from its SendePuffer and put into its EmpfPuffer
umVars == <<um, umBus, umZeichen>>

Seiten == {"hier", "dort"}
Andere(s) == IF s = "hier" THEN "dort" ELSE "hier"

Warte == 0   \* SerUmEmpfWarte, SerUmSendWarte
Start == 1   \* SerUmSendStart, and the start bit of a character that comes in
FertigMitFehler == 8   \* SerUmEmpfFertig: stays only after a missing stop bit

Umsetzerzustand == [empfNr : 0 .. 8, empfDaten : 0 .. 31, markZaehl : 0 .. 3, tickEmpf : 0 .. SerUmTicksProBit,
                    sendNr : 0 .. 8, sendDaten : 0 .. 255, tickSend : 0 .. SerUmTicksProStopBit, sendeMark : BOOLEAN]

UmInit ==
    /\ um = [s \in Seiten |-> [empfNr |-> Warte, empfDaten |-> 0, markZaehl |-> 0, tickEmpf |-> SerUmTicksProBit,
                               sendNr |-> Warte, sendDaten |-> 0, tickSend |-> 0, sendeMark |-> TRUE]]
    /\ umBus = [s \in Seiten |-> [mark |-> TRUE, alter |-> 0]]
    /\ umZeichen = [s \in Seiten |-> [gesendet |-> << >>, empfangen |-> << >>]]

(* A character is coming in: three samples in the middle of each bit, and  *)
(* a decision at the last of them.                                         *)
EmpfangLaeuft(u) == u.empfNr \notin {Warte, FertigMitFehler}

GezaehltOhneFenster(u, mark) ==     \* Mutant: every tick is a sample
    [u EXCEPT !.tickEmpf = @ - 1, !.markZaehl = @ + (IF mark THEN 1 ELSE 0)]

Gezaehlt(u, mark) ==
    [u EXCEPT !.tickEmpf = @ - 1, !.markZaehl = @ + (IF u.tickEmpf <= 3 /\ mark THEN 1 ELSE 0)]

NaechstesBit(u, nr, daten) ==
    [u EXCEPT !.empfNr = nr, !.empfDaten = daten, !.markZaehl = 0, !.tickEmpf = SerUmTicksProBit]

BitAusgewertet(u) ==
    CASE u.empfNr = Start -> NaechstesBit(u, IF u.markZaehl > 1 THEN Warte ELSE 2, u.empfDaten)
      [] u.empfNr = 7     -> NaechstesBit(u, IF u.markZaehl < 2 THEN FertigMitFehler ELSE Warte, u.empfDaten)
      [] OTHER            -> NaechstesBit(u, u.empfNr + 1, 2 * u.empfDaten + (IF u.markZaehl >= 2 THEN 1 ELSE 0))

Abgetastet(u, mark) ==
    LET g == Gezaehlt(u, mark) IN IF g.tickEmpf = 0 THEN BitAusgewertet(g) ELSE g

(* The decision at the stop bit: the character goes to the EmpfPuffer.     *)
Vollstaendig(u, mark) ==
    LET g == Gezaehlt(u, mark) IN u.empfNr = 7 /\ g.tickEmpf = 0 /\ g.markZaehl >= 2

StartbitErkanntAmRand(u) ==      \* Mutant: a whole bit from the edge to the first decision
    [u EXCEPT !.empfNr = Start, !.empfDaten = 0, !.markZaehl = 0, !.tickEmpf = SerUmTicksProBit]

(* Nothing is coming in: a space is the beginning of a start bit, and the  *)
(* first sample is to be in the middle of it.                              *)
StartbitErkannt(u) ==
    [u EXCEPT !.empfNr = Start, !.empfDaten = 0, !.markZaehl = 0, !.tickEmpf = (SerUmTicksProBit \div 2) + 1]

(* Only while nothing comes in a character is begun; a tick takes it from  *)
(* the SendePuffer, the next one arranges its bits: start, five, stop.     *)
Aufbereitet(u) == [u EXCEPT !.sendDaten = (@ % 32) * 4 + 3, !.tickSend = 0, !.sendNr = 2]
Genommen(u, code) == [u EXCEPT !.sendDaten = code, !.sendNr = Start]

(* A transmission goes on whatever comes in.                               *)
SendungLaeuft(u) == u.sendNr >= 2
MarkJetzt(u) == SendungLaeuft(u) /\ u.sendNr < 8 => u.sendDaten >= 128

Weitergeschoben(u, schnell) ==
    CASE ~SendungLaeuft(u) -> u
      [] u.sendNr = 8 ->
            IF u.tickSend + 1 >= SerUmTicksProStopBit - (IF schnell THEN 3 ELSE 1)
            THEN [u EXCEPT !.tickSend = @ + 1, !.sendNr = Warte]
            ELSE [u EXCEPT !.tickSend = @ + 1]
      [] OTHER ->
            IF u.tickSend + 1 >= SerUmTicksProBit
            THEN [u EXCEPT !.tickSend = 0, !.sendNr = @ + 1, !.sendDaten = (2 * @) % 256]
            ELSE [u EXCEPT !.tickSend = @ + 1]

Getaktet(u, schnell) == [Weitergeschoben(u, schnell) EXCEPT !.sendeMark = MarkJetzt(u)]

(* What the first half of the interrupt leaves: one of these, with the     *)
(* codes it has taken and stored.                                          *)
Schritte(u, mark, codes) ==
    IF EmpfangLaeuft(u)
    THEN {[u |-> Abgetastet(u, mark), nimmt |-> << >>,
           legt |-> IF Vollstaendig(u, mark) THEN <<Abgetastet(u, mark).empfDaten>> ELSE << >>]}
    ELSE IF ~mark
    THEN {[u |-> StartbitErkannt(u), nimmt |-> << >>, legt |-> << >>]}
    ELSE IF u.sendNr = Start
    THEN {[u |-> Aufbereitet(u), nimmt |-> << >>, legt |-> << >>]}
    ELSE {[u |-> u, nimmt |-> << >>, legt |-> << >>]} \cup
         (IF u.sendNr = Warte THEN {[u |-> Genommen(u, c), nimmt |-> <<c>>, legt |-> << >>] : c \in codes} ELSE {})

(* The bus brings a change of level now or, if it is not too late, later.  *)
Ankunft(s) ==
    LET soll == um[Andere(s)].sendeMark IN
    {[mark |-> soll, alter |-> 0]} \cup
    (IF soll # umBus[s].mark /\ umBus[s].alter < UmVerzug THEN {[umBus[s] EXCEPT !.alter = @ + 1]} ELSE {})

Codes(s) == IF Len(umZeichen[s].gesendet) < UmMaxZeichen[s] THEN UmCodes ELSE {}

(* One tick of both sides.                                                 *)
itelex_timerEvent ==
    \E bh \in Ankunft("hier"), bd \in Ankunft("dort"), schnell \in UmBeschleunigen :
    \E h \in Schritte(um["hier"], bh.mark, Codes("hier")), d \in Schritte(um["dort"], bd.mark, Codes("dort")) :
        /\ umBus' = [hier |-> bh, dort |-> bd]
        /\ um' = [hier |-> Getaktet(h.u, schnell), dort |-> Getaktet(d.u, schnell)]
        /\ umZeichen' = [hier |-> [gesendet |-> umZeichen["hier"].gesendet \o h.nimmt, empfangen |-> umZeichen["hier"].empfangen \o h.legt],
                         dort |-> [gesendet |-> umZeichen["dort"].gesendet \o d.nimmt, empfangen |-> umZeichen["dort"].empfangen \o d.legt]]

UmNext == itelex_timerEvent
UmSpec == UmInit /\ [][UmNext]_umVars
-----------------------------------------------------------------------------
(* Every variable keeps its range; the counters are eight bits wide.       *)
UmTyp ==
    /\ um \in [Seiten -> Umsetzerzustand]
    /\ umBus \in [Seiten -> [mark : BOOLEAN, alter : 0 .. UmVerzug]]

Still == \A s \in Seiten : um[s].sendNr = Warte /\ ~EmpfangLaeuft(um[s]) /\ um[s].sendeMark /\ umBus[s].mark

(* Whatever the bus does to the edges, a character is received as it was   *)
(* sent, none is lost, none is made up, both when the sides write in turn  *)
(* and when they begin at the same moment (1091 to 1188).                  *)
UmsetzerTreu ==
    \A s \in Seiten :
        /\ IsPrefix(umZeichen[s].empfangen, umZeichen[Andere(s)].gesendet)
        /\ Still => umZeichen[s].empfangen = umZeichen[Andere(s)].gesendet
=============================================================================
