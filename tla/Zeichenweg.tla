------------------------------ MODULE Zeichenweg ------------------------------
(***************************************************************************)
(* The way of a character from one terminal to the other, in an            *)
(* established call between two stations (src/iTelex/iTelex.c): the timer  *)
(* interrupt puts what is typed into EmpfPuffer and takes what is printed  *)
(* from SendePuffer; the main loop makes blocks of the one and fills the   *)
(* other from the blocks of the partner, and tells the partner by one-byte *)
(* counts how many of its characters have been taken.  The interrupt may   *)
(* come between any two steps of the main loop.  A broken connection loses *)
(* what is on the way and is taken up again (Verbindung models that).      *)
(* Characters are numbered as they are typed; 0 is one of the station's    *)
(* own (an announcement).                                                  *)
(***************************************************************************)
EXTENDS Integers, Sequences, FiniteSets

CONSTANTS ZwLagen,          \* what may happen in one behaviour: characters typed and announcements
                            \* of each station, losses of the connection
          ZwMaxPuffer,      \* MaxPuffer of the library FifoPuffer: SendePuffer and EmpfPuffer
          ZwBlock,          \* longest block (50, line 3219)
          ZwOutMax,         \* bytes of SocketOutBuf that blocks may use
          ZwUmlauf,         \* the counts of the protocol wrap here (256)
          ZwMaxNetz         \* telegrams on the way

ASSUME ZwAnnahme ==
    /\ ZwMaxPuffer \in Nat /\ ZwBlock \in 1 .. ZwMaxPuffer - 1 /\ ZwOutMax \in Nat /\ ZwOutMax > 2
    /\ ZwUmlauf \in Nat \ {0} /\ ZwMaxNetz \in Nat
    /\ \A l \in ZwLagen : l.tippt \in [{"A", "B"} -> Nat] /\ l.eigene \in [{"A", "B"} -> Nat] /\ l.abrisse \in Nat

VARIABLES zw,       \* the two stations
          zwNetz,   \* what is on its way to each, in order
          zwAbrisse,
          zwLage    \* one of ZwLagen
zwVars == <<zw, zwNetz, zwAbrisse, zwLage>>

Enden == {"A", "B"}
Gegenstelle(s) == CHOOSE p \in Enden : p # s

Daten(z) == [code |-> "BAUDOT_DATA", zeichen |-> z, anzahl |-> 0]
Quitt(n) == [code |-> "QUITT", zeichen |-> << >>, anzahl |-> n]

(* Bytes of a telegram: code, length, contents.                            *)
Laenge(t) == 2 + (IF t.code = "QUITT" THEN 1 ELSE Len(t.zeichen))
Belegung(ts) ==
    LET bis[i \in 0 .. Len(ts)] == IF i = 0 THEN 0 ELSE bis[i - 1] + Laenge(ts[i])
    IN  bis[Len(ts)]

ZwInit ==
    /\ zw = [s \in Enden |->
          [getippt |-> 0, eigene |-> 0, empf |-> << >>, aus |-> << >>, ein |-> << >>, sende |-> << >>,
           gedruckt |-> 0, gesendet |-> 0, empfangen |-> 0, quittiert |-> 0, quittung |-> FALSE,
           fehler |-> FALSE, pc |-> "Auswerten"]]
    /\ zwNetz = [s \in Enden |-> << >>]
    /\ zwAbrisse = 0 /\ zwLage \in ZwLagen

-----------------------------------------------------------------------------
(* Timer interrupt.  A character that finds EmpfPuffer full is gone; it    *)
(* gets no number.                                                         *)
Getippt(s) ==
    /\ zw[s].getippt < zwLage.tippt[s] /\ Len(zw[s].empf) < ZwMaxPuffer
    /\ zw' = [zw EXCEPT ![s].getippt = @ + 1, ![s].empf = Append(@, zw[s].getippt + 1)]

(* The last one of the buffer makes an acknowledgement due.                *)
Gedruckt(s) ==
    /\ zw[s].sende # << >>
    /\ zw' = [zw EXCEPT ![s].sende = Tail(@),
                        ![s].gedruckt = IF Head(zw[s].sende) = 0 THEN @ ELSE Head(zw[s].sende),
                        ![s].quittung = @ \/ Len(zw[s].sende) = 1]

-----------------------------------------------------------------------------
(* One pass of the main loop: SocketBearbeiten, then ITelexDatenVerarbeiten*)
(* in its three parts, the last of them in two steps.                      *)

PasstImmer(u, z) == TRUE     \* Mutant: the block is taken and what finds no place is lost

(* A block that does not fit waits, and with it whatever follows.          *)
PasstInSendePuffer(u, z) == Len(u.sende) + Len(z) < ZwMaxPuffer

Uebernommen(u) ==
    LET t == Head(u.ein) IN
    IF t.code = "QUITT"
    THEN [u EXCEPT !.ein = Tail(@), !.quittiert = t.anzahl]
    ELSE [u EXCEPT !.ein = Tail(@), !.empfangen = (@ + Len(t.zeichen)) % ZwUmlauf,
                   !.sende = LET n == @ \o t.zeichen
                             IN SubSeq(n, 1, IF Len(n) < ZwMaxPuffer THEN Len(n) ELSE ZwMaxPuffer)]

Verarbeitbar(u) ==
    /\ u.ein # << >>
    /\ Head(u.ein).code = "BAUDOT_DATA" => PasstInSendePuffer(u, Head(u.ein).zeichen)

ITelexOderAsciiEmpfangVerarbeiten(s) ==
    /\ zw[s].pc = "Auswerten"
    /\ zw' = [zw EXCEPT ![s] = IF Verarbeitbar(@) THEN Uebernommen(@) ELSE [@ EXCEPT !.pc = "Block"]]

(* A block is made when much has been typed, nothing for a while, or when  *)
(* the partner has taken everything; the first two may be so at any time.  *)
BlockLaenge(u) ==
    LET frei == ZwOutMax - 2 - Belegung(u.aus)
        n == IF Len(u.empf) > frei THEN frei ELSE Len(u.empf)
    IN IF n > ZwBlock THEN ZwBlock ELSE n

MitBlock(u) ==
    LET n == BlockLaenge(u) IN
    [u EXCEPT !.aus = Append(@, Daten(SubSeq(u.empf, 1, n))), !.empf = SubSeq(@, n + 1, Len(@)),
              !.gesendet = (@ + n) % ZwUmlauf, !.quittung = TRUE]

BaudotBlockSenden(s) ==
    /\ zw[s].pc = "Block"
    /\ \/ /\ zw[s].empf # << >> /\ BlockLaenge(zw[s]) > 0
          /\ zw' = [zw EXCEPT ![s] = [MitBlock(@) EXCEPT !.pc = "Quitt"]]
       \/ /\ zw[s].empf # << >> => zw[s].quittiert # zw[s].gesendet \/ BlockLaenge(zw[s]) <= 0
          /\ zw' = [zw EXCEPT ![s].pc = "Quitt"]

QuittungszahlEmpfangen(u) == u.empfangen      \* Mutant: what has been received, printed or not

(* The count is made of a counter of the main loop and the fill of the     *)
(* buffer that the interrupt empties; the mark is taken away afterwards.   *)
Quittungszahl(u) == (u.empfangen - Len(u.sende)) % ZwUmlauf

(* Without a mark every 3.5 seconds; by then the one before has arrived.   *)
NachDreieinhalbSekunden(s) == zw[s].aus = << >> /\ zwNetz[Gegenstelle(s)] = << >>

QuittSenden(s) ==
    /\ zw[s].pc = "Quitt"
    /\ \/ /\ ~zw[s].fehler /\ Belegung(zw[s].aus) + 3 <= ZwOutMax
          /\ zw[s].quittung \/ NachDreieinhalbSekunden(s)
          /\ zw' = [zw EXCEPT ![s].aus = Append(@, Quitt(Quittungszahl(zw[s]))), ![s].pc = "Quittiert"]
       \/ /\ zw[s].quittung => zw[s].fehler \/ Belegung(zw[s].aus) + 3 > ZwOutMax
          /\ zw' = [zw EXCEPT ![s].pc = "Socket"]

QuittungErledigt(s) ==
    /\ zw[s].pc = "Quittiert"
    /\ zw' = [zw EXCEPT ![s].quittung = FALSE, ![s].pc = "Socket"]

(* What has come in is added to SocketInBuf; what is to go out goes out    *)
(* from the front as far as it will, or not at all.  A telegram cut in two *)
(* is one that has not gone out yet, as its rest follows.                  *)
SocketEmpfangen(s) ==
    /\ zw[s].pc = "Socket"
    /\ \E n \in 0 .. Len(zwNetz[s]) :
        /\ Len(zw[s].ein) + n <= ZwMaxNetz
        /\ zw' = [zw EXCEPT ![s].ein = @ \o SubSeq(zwNetz[s], 1, n), ![s].pc = "Senden"]
        /\ zwNetz' = [zwNetz EXCEPT ![s] = SubSeq(@, n + 1, Len(@))]

SocketSenden(s) ==
    /\ zw[s].pc = "Senden"
    /\ \E n \in 0 .. Len(zw[s].aus) :
        /\ Len(zwNetz[Gegenstelle(s)]) + n <= ZwMaxNetz
        /\ zwNetz' = [zwNetz EXCEPT ![Gegenstelle(s)] = @ \o SubSeq(zw[s].aus, 1, n)]
        /\ zw' = [zw EXCEPT ![s].aus = SubSeq(@, n + 1, Len(@)), ![s].pc = "Auswerten",
                            ![s].fehler = IF n > 0 THEN FALSE ELSE @ \/ zw[s].aus # << >>]

(* AsciiDruckPufferVerarbeiten: an announcement, when nothing else waits   *)
(* to be printed.                                                          *)
EigenerText(s) ==
    /\ zw[s].pc = "Socket" /\ zw[s].eigene < zwLage.eigene[s] /\ zw[s].sende = << >>
    /\ zw' = [zw EXCEPT ![s].sende = <<0>>, ![s].eigene = @ + 1]

(* The connection breaks and is made again: what is on its way is lost,    *)
(* what either station holds is not.                                       *)
Abriss ==
    /\ zwAbrisse < zwLage.abrisse /\ zwAbrisse' = zwAbrisse + 1
    /\ zwNetz' = [s \in Enden |-> << >>]
    /\ UNCHANGED zw

ZwThread(s) ==
    \/ (ITelexOderAsciiEmpfangVerarbeiten(s) \/ BaudotBlockSenden(s) \/ QuittSenden(s) \/ QuittungErledigt(s)
        \/ EigenerText(s)) /\ UNCHANGED <<zwNetz, zwAbrisse>>
    \/ (SocketEmpfangen(s) \/ SocketSenden(s)) /\ UNCHANGED zwAbrisse

ZwNext ==
    /\ \/ \E s \in Enden : (Getippt(s) \/ Gedruckt(s)) /\ UNCHANGED <<zwNetz, zwAbrisse>>
       \/ \E s \in Enden : ZwThread(s)
       \/ Abriss
    /\ UNCHANGED zwLage

ZwSpec == ZwInit /\ [][ZwNext]_zwVars
-----------------------------------------------------------------------------
(* The way from the keyboard of s to the printer of its partner, from its  *)
(* end: what was printed last, what is to be printed, the telegrams, what  *)
(* has been typed.                                                         *)
Telegramme(s) == zw[Gegenstelle(s)].ein \o zwNetz[Gegenstelle(s)] \o zw[s].aus
Weg(s) ==
    <<Daten(<<zw[Gegenstelle(s)].gedruckt>>), Daten(zw[Gegenstelle(s)].sende)>>
        \o Telegramme(s) \o <<Daten(zw[s].empf)>>

Nummern(z) == {z[i] : i \in DOMAIN z} \ {0}
Steigend(z) == \A i, j \in DOMAIN z : i < j /\ 0 \notin {z[i], z[j]} => z[i] < z[j]
Vor(y, z) == \A m \in Nummern(y), n \in Nummern(z) : m < n

(* What the partner of s has been sent and its terminal has not taken.     *)
Offen(s) ==
    Nummern(zw[Gegenstelle(s)].sende)
        \cup UNION {Nummern(Telegramme(s)[i].zeichen) : i \in DOMAIN Telegramme(s)}

ZwTyp ==
    /\ \A s \in Enden : Len(zw[s].empf) <= ZwMaxPuffer /\ Len(zw[s].sende) < ZwMaxPuffer
    /\ \A s \in Enden : Belegung(zw[s].aus) <= ZwOutMax
    /\ \A s \in Enden : {zw[s].gesendet, zw[s].empfangen, zw[s].quittiert} \subseteq 0 .. ZwUmlauf - 1

(* A character is printed once, after the ones typed before it, and while  *)
(* the connection holds none is left out, over six buffers, three of them  *)
(* in the hands of both the interrupt and the main loop (1118 to 1163,     *)
(* 2936 to 2954, 3212 to 3240).                                            *)
ZeichenFolge ==
    \A s \in Enden :
        /\ \A i \in DOMAIN Weg(s) : Steigend(Weg(s)[i].zeichen)
        /\ \A i, j \in DOMAIN Weg(s) : i < j => Vor(Weg(s)[i].zeichen, Weg(s)[j].zeichen)
        /\ zwAbrisse = 0 =>
              zw[Gegenstelle(s)].gedruckt + 1 .. zw[s].getippt \subseteq Offen(s) \cup Nummern(zw[s].empf)

(* By the partner's count at least as many characters are still to be      *)
(* printed as there are, so "everything sent has been processed" (3208)    *)
(* is never claimed too early: the count is of one byte, made up of two    *)
(* variables of which the interrupt changes one (3256), and it may be old. *)
(* (ZwUmlauf exceeds what is typed; 256 of them unanswered would wrap.)    *)
QuittungStimmt ==
    \A s \in Enden : (zw[s].gesendet - zw[s].quittiert) % ZwUmlauf >= Cardinality(Offen(s))
=============================================================================
