------------------------------ MODULE Protokoll ------------------------------
(***************************************************************************)
(* The log (src/iTelex/Protokoll.c): messages are collected in a buffer    *)
(* and written to a file on the SD card, whose name is the minute in which *)
(* it was begun, when the buffer is full, when nothing has been said for a *)
(* minute, or on demand; to the serial line once the card has failed.      *)
(* A message is a block of the file.  The file system does it in single    *)
(* writes (Dateisystem), and the power may fail at any time.               *)
(*                                                                         *)
(* SpeichernBeiIdle is called by the clock from the timer's interrupt      *)
(* (clock.c 109 to 167, timer1.c 111).  It comes at any time; that it also *)
(* saves is modelled between two calls of the file system, one that reads  *)
(* included, and after the last write of a save whose buffer is not yet    *)
(* empty (282 to 288).  Left out: that it saves in the middle of a call    *)
(* (fat.c and sd_raw.c do not lock the card against it), and likewise the  *)
(* save before a restart that was asked for (iTelex.c 1064).               *)
(***************************************************************************)
EXTENDS Dateisystem

CONSTANTS PrMaxPuffer,     \* messages that Puffer holds (MaxProtPuffer)
          PrMaxDatei,      \* MaxDateigroesse
          PrMaxMeldungen, PrMaxMinuten,
          PrMaxRufe        \* calls of the file system in one behaviour

ASSUME PrAnnahme ==
    /\ PrMaxPuffer \in Nat \ {0} /\ PrMaxDatei \in Nat /\ PrMaxMeldungen \in Nat
    /\ PrMaxRufe \in Nat /\ PrMaxMinuten \in Nat /\ 1 .. PrMaxMinuten \subseteq FsNamen

VARIABLES pr,          \* the variables of Protokoll.c, and the clock
          prUart,      \* what the serial line has got
          prGesagt,    \* messages that were to be logged
          prVerloren   \* those of them that are known to get lost
prVars == <<pr, prUart, prGesagt, prVerloren, fsVars>>

Meldung(n) == FsMaxRufe + n            \* their order is that of the numbers
Meldungen == {Meldung(n) : n \in 1 .. PrMaxMeldungen}
Kopfzeile == Meldung(PrMaxMeldungen + 1)
Regelmeldung == Meldung(PrMaxMeldungen + 2)   \* "regular" messages, which may be taken back
Eigentliche(text) == SelectSeq(text, LAMBDA m : m \in Meldungen)

ProtokollInit ==
    [puffer |-> << >>, dateiname |-> Ohne, sdGestoert |-> FALSE, idle |-> TRUE,
     regelblockAktiv |-> FALSE, block |-> FALSE, ganz |-> TRUE, minute |-> 1, zahl |-> 0,
     gerade |-> << >>,     \* written, but not yet taken out of Puffer (282 to 288)
     doppelt |-> {}]       \* messages that the clock wrote once more

PrInit ==
    /\ FsInit /\ pr = ProtokollInit
    /\ prUart = << >> /\ prGesagt = {} /\ prVerloren = {}
-----------------------------------------------------------------------------
(* ProtokollSpeichern(true) with text in the buffer: what becomes of the   *)
(* variables, what is to be written, and which file it concerns.           *)
Ausgang(p, a, i, text, uart, verloren, ok) ==
    [p |-> p, a |-> a, i |-> i, text |-> text, uart |-> uart, verloren |-> verloren, ok |-> ok]

AnUart(p) == Ausgang([p EXCEPT !.puffer = << >>], Beginn, 0, << >>, p.puffer, {}, TRUE)

(* The file of the name, unless it is gone or has become too large.        *)
Fortsetzbar(p) ==
    {e \in fat_get_dir_entry_of_path(fsKarte, p.dateiname) : e.groesse + Len(p.puffer) <= PrMaxDatei}

(* A full card is noticed only if nothing at all could be written.         *)
PufferGeschrieben(p, w, i, alt, anzahl) ==
    IF anzahl = 0 THEN Ausgang([p EXCEPT !.dateiname = Ohne], w.a, i, alt, << >>, {}, FALSE)
    ELSE Ausgang([p EXCEPT !.puffer = << >>], w.a, i, alt \o SubSeq(p.puffer, 1, anzahl), << >>,
                 ToSet(SubSeq(p.puffer, anzahl + 1, Len(p.puffer))), TRUE)

PufferSchreiben(p, a, e, alt) ==
    LET w == fat_write_file(a, e, e.groesse, p.puffer) IN PufferGeschrieben(p, w, Kurzplatz(e), alt, w.bis - e.groesse)

NachKopfzeile(p, k, e, alt) ==
    IF k.bis = e.groesse THEN Ausgang([p EXCEPT !.sdGestoert = TRUE], k.a, Kurzplatz(e), alt, << >>, {}, FALSE)
    ELSE PufferSchreiben(p, k.a, k.e, Append(alt, Kopfzeile))

MitKopfzeile(p, a, e, alt) == NachKopfzeile(p, fat_write_file(a, e, e.groesse, <<Kopfzeile>>), e, alt)

InNeueDatei(p, neue) ==
    IF neue = {} THEN {Ausgang([p EXCEPT !.sdGestoert = TRUE], Beginn, 0, << >>, << >>, {}, FALSE)}
    ELSE {MitKopfzeile(p, fat_write_dir_entry(Beginn, e), e, << >>) : e \in neue}

NameAusZeit(p) == [p EXCEPT !.dateiname = p.minute]

(* A headline is due after three minutes, which may have passed or not.    *)
Speichern(p) ==
    IF p.puffer = << >> THEN {Ausgang(p, Beginn, 0, << >>, << >>, {}, TRUE)}
    ELSE IF p.sdGestoert THEN {AnUart(p)}
    ELSE IF Fortsetzbar(p) = {} THEN InNeueDatei(NameAusZeit(p), fat_create_file(fsKarte, p.minute))
    ELSE {PufferSchreiben(p, Beginn, e, fsSoll.neu[Kurzplatz(e)].text) : e \in Fortsetzbar(p)}
         \cup {MitKopfzeile(p, Beginn, e, fsSoll.neu[Kurzplatz(e)].text) : e \in Fortsetzbar(p)}

(* The call that was under way has come to its end.                        *)
Abgeschlossen(p) == [p EXCEPT !.gerade = << >>]

(* What was to be written is taken over; q is what the caller makes of p.  *)
Gespeichert(r, q, gesagt) ==
    /\ fsFolge = << >>
    /\ pr' = q
    /\ prUart' = prUart \o r.uart /\ prGesagt' = gesagt /\ prVerloren' = prVerloren \cup r.verloren
    /\ IF r.a.folge = << >> THEN UNCHANGED fsVars ELSE fsRufe < PrMaxRufe /\ Ruf(r.a, r.i, Datei(r.text))
-----------------------------------------------------------------------------
(* Protokollieren: a message that finds no place and cannot make any is    *)
(* refused.                                                                *)
Voll(p) == Len(p.puffer) >= PrMaxPuffer
Aufnehmbar(p) == IF Voll(p) THEN {r \in Speichern(p) : r.ok} ELSE {Ausgang(p, Beginn, 0, << >>, << >>, {}, TRUE)}

Protokollieren ==
    /\ pr.zahl < PrMaxMeldungen
    /\ LET p == [Abgeschlossen(pr) EXCEPT !.regelblockAktiv = FALSE, !.idle = FALSE, !.zahl = @ + 1]
       IN \/ \E r \in Aufnehmbar(p) : Gespeichert(r, [r.p EXCEPT !.puffer = Append(@, Meldung(p.zahl))], prGesagt \cup {Meldung(p.zahl)})
          \/ Voll(p) /\ \E r \in Speichern(p) : ~r.ok /\ Gespeichert(r, r.p, prGesagt)

(* A regular message, between ProtokollRegelblockStart and -Ende, does not *)
(* end the block (RegelblockAktiv).                                        *)
Regelmaessig ==
    /\ pr.zahl < PrMaxMeldungen
    /\ LET p == [Abgeschlossen(pr) EXCEPT !.idle = FALSE, !.zahl = @ + 1]
       IN \/ \E r \in Aufnehmbar(p) : Gespeichert(r, [r.p EXCEPT !.puffer = Append(@, Regelmeldung)], prGesagt)
          \/ Voll(p) /\ \E r \in Speichern(p) : ~r.ok /\ Gespeichert(r, r.p, prGesagt)

(* Before the first message of a block.  Only here the save may come when  *)
(* Idle is set.                                                            *)
ProtokollRegelblockInit ==
    \E r \in Speichern(Abgeschlossen(pr)) :
        Gespeichert(r, [r.p EXCEPT !.regelblockAktiv = TRUE, !.block = TRUE, !.ganz = r.ok,
                                   !.gerade = IF r.ok /\ pr.idle /\ ~pr.sdGestoert THEN pr.puffer ELSE << >>], prGesagt)

ProtokollRegelblockAbbruch ==
    /\ fsFolge = << >>
    /\ pr' = [Abgeschlossen(pr) EXCEPT !.regelblockAktiv = FALSE]
    /\ UNCHANGED <<prUart, prGesagt, prVerloren, fsVars>>

(* Mutant: whatever has been said meanwhile is taken back too.             *)
ZurueckgenommenImmer(p) == [p EXCEPT !.puffer = << >>]

(* When nothing else has been said the block is taken back, and with it    *)
(* what ProtokollRegelblockInit could not save.                            *)
Zurueckgenommen(p) == [p EXCEPT !.puffer = IF p.regelblockAktiv THEN << >> ELSE @]

ProtokollRegelblockLoeschen ==
    /\ pr.block /\ fsFolge = << >>
    /\ pr' = [Zurueckgenommen(Abgeschlossen(pr)) EXCEPT !.regelblockAktiv = TRUE, !.block = FALSE]
    /\ prVerloren' = prVerloren \cup (IF pr.regelblockAktiv /\ ~pr.ganz THEN ToSet(pr.puffer) ELSE {})
    /\ UNCHANGED <<prUart, prGesagt, fsVars>>

(* The clock's callback, in the timer's interrupt; the next minute has     *)
(* another name.                                                           *)
NaechsteMinute(p) == [Abgeschlossen(p) EXCEPT !.minute = @ + 1]

IdleSetzen ==
    /\ pr.minute < PrMaxMinuten /\ ~pr.idle
    /\ pr' = [NaechsteMinute(pr) EXCEPT !.idle = TRUE]
    /\ UNCHANGED <<prUart, prGesagt, prVerloren, fsVars>>

SpeichernBeiIdle ==
    /\ pr.minute < PrMaxMinuten /\ pr.idle
    /\ \E r \in Speichern(NaechsteMinute(pr)) : Gespeichert(r, r.p, prGesagt)

(* The buffer that has just been written is written once more.             *)
SpeichernNochmals ==
    /\ pr.minute < PrMaxMinuten /\ pr.gerade # << >>
    /\ \E r \in Speichern([NaechsteMinute(pr) EXCEPT !.puffer = pr.gerade]) :
        Gespeichert([r EXCEPT !.verloren = {}],
                    [r.p EXCEPT !.puffer = << >>, !.doppelt = @ \cup ToSet(pr.gerade)], prGesagt)

(* ProtokollSpeichern(false), once in every pass.                          *)
UartAusgabe ==
    /\ fsFolge = << >> /\ pr.sdGestoert /\ ~pr.regelblockAktiv /\ pr.puffer # << >>
    /\ pr' = [Abgeschlossen(pr) EXCEPT !.puffer = Tail(@)] /\ prUart' = Append(prUart, Head(pr.puffer))
    /\ UNCHANGED <<prGesagt, prVerloren, fsVars>>

AufKarte(karte) == UNION {ToSet(FsGelesen(karte)[i].text) : i \in 1 .. FsPlaetze} \cap Meldungen

DateiLoeschen ==
    /\ fsRufe < PrMaxRufe /\ cgi_SdDirectory
    /\ prGesagt' = prGesagt \ (AufKarte(fsKarte) \ UNION {ToSet(fsSoll'.neu[i].text) : i \in 1 .. FsPlaetze})
    /\ pr' = Abgeschlossen(pr)
    /\ UNCHANGED <<prUart, prVerloren>>

(* A restart: the buffer is gone, and the clock may still be in the same   *)
(* minute.                                                                 *)
Anlaufen ==
    /\ pr' = [ProtokollInit EXCEPT !.minute = pr.minute, !.zahl = pr.zahl, !.doppelt = pr.doppelt]
    /\ prUart' = << >> /\ prGesagt' = AufKarte(fsKarte) /\ prVerloren' = {}

Anlauf == FsAusfall /\ Anlaufen

(* The interrupt waits for a place in the buffer of the serial line (129   *)
(* to 132), which only an interrupt could make, until the watchdog ends it *)
(* (iTelex.c 7569); a text of a few characters does not fill that buffer.  *)
HaengtBeiIdle ==
    /\ pr.minute < PrMaxMinuten /\ pr.idle /\ pr.sdGestoert /\ pr.puffer # << >>
    /\ fsFolge = << >> /\ Anlaufen
    /\ UNCHANGED fsVars

PrNext ==
    \/ Protokollieren \/ Regelmaessig
    \/ ProtokollRegelblockInit \/ ProtokollRegelblockAbbruch \/ ProtokollRegelblockLoeschen
    \/ IdleSetzen \/ SpeichernBeiIdle \/ SpeichernNochmals \/ HaengtBeiIdle
    \/ UartAusgabe \/ DateiLoeschen \/ Anlauf
    \/ FsKarteSchreibt /\ UNCHANGED <<pr, prUart, prGesagt, prVerloren>>

PrSpec == PrInit /\ [][PrNext]_prVars
-----------------------------------------------------------------------------
(* The places where a message can be: the files, the serial line, the      *)
(* buffer.                                                                 *)
Uart == FsPlaetze + 1
Puffer == FsPlaetze + 2
Aufzeichnungen ==
    [i \in 1 .. Puffer |-> Eigentliche(CASE i = Uart -> prUart [] i = Puffer -> pr.puffer
                                         [] OTHER -> FsDatei(fsKarte, i).text)]

Davor(s, t) == \A m \in ToSet(s), n \in ToSet(t) : m < n

Einfache(text) == SelectSeq(text, LAMBDA m : m \notin pr.doppelt)
Geordnet(an) ==
    /\ \A o \in 1 .. Puffer : \A i \in 1 .. Len(an[o]) - 1 : an[o][i] < an[o][i + 1]
    /\ \A o, q \in 1 .. FsPlaetze : o # q => Davor(an[o], an[q]) \/ Davor(an[q], an[o])
    /\ \A o \in 1 .. Uart, q \in Uart .. Puffer : o # q => Davor(an[o], an[q])

(* No message gets lost unnoticed, and each is logged once, in its order,  *)
(* unless the clock wrote it once more: whatever happens to the file (it   *)
(* becomes too large, is deleted, exists already, the card is full, the    *)
(* power fails), and only regular messages are taken back (106 to 343, 496 *)
(* to 560).                                                                *)
ProtokollFolge ==
    pr.zahl > 0 /\ fsFolge = << >> =>
        \E an \in {Aufzeichnungen} :
            /\ prGesagt \ prVerloren = UNION {ToSet(an[o]) : o \in 1 .. Puffer}
            /\ Geordnet([o \in 1 .. Puffer |-> Einfache(an[o])])
=============================================================================
