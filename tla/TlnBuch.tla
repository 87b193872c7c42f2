------------------------------ MODULE TlnBuch ------------------------------
(***************************************************************************)
(* The directory of iTelex/TlnBuch.c: entries of different size, one after *)
(* the other in a block of memory that survives a reset.  When there is no *)
(* room the oldest entries that are not local give way.  While it changes  *)
(* a lister may be in the middle of it (it remembers a position and the    *)
(* head of the entry there), the main loop sums it up byte by byte (the    *)
(* sum decides after a reset whether the memory is still good), and from   *)
(* time to time it is saved in an external EEPROM.                         *)
(*                                                                         *)
(* Abstracted: the fields of an entry (its size stands for them), pages of *)
(* the EEPROM (an entry is written at once), numbers 0, which no operation *)
(* of this module writes, and the check word as a sum that never collides. *)
(* The room asked for is a uint16_t; for an entry that shrinks it wraps,   *)
(* and so does the comparison: it is the difference of integers.           *)
(***************************************************************************)
EXTENDS Integers, Sequences, FiniteSets

CONSTANTS
    TbFassung,       \* what an entry may be, but for its date
    TlnBuchMemMax,   \* the size of the memory
    TbMaxZeit,       \* bound: the clock
    TbMaxAenderungen \* bound: changes of the directory

Fassung == [nr : Nat \ {0}, gr : Nat \ {0}, lokal : BOOLEAN, geloescht : BOOLEAN]
ASSUME TbAnnahme ==
    /\ TbFassung \subseteq Fassung /\ IsFiniteSet(TbFassung)
    /\ {TlnBuchMemMax, TbMaxZeit, TbMaxAenderungen} \subseteq Nat

(* A number that is not dialled any more: the least an entry can be. *)
Geloescht(nr, lokal) == [nr |-> nr, gr |-> 1, lokal |-> lokal, geloescht |-> TRUE]
TbNummer == {f.nr : f \in TbFassung}
Datum == 0 .. TbMaxZeit
Mit(f, d) == [nr |-> f.nr, gr |-> f.gr, lokal |-> f.lokal, geloescht |-> f.geloescht, datum |-> d]
Modus == {"DatumAktualisieren", "NurNeuere", "Kopieren"}

VARIABLES
    tb,        \* TlnBuch up to TlnBuchMemUsed
    tbLister,  \* a TTlnListerDat, and what it should find
    tbPruef,   \* PruefsummeIst, PruefsummeSoll: the bytes they are made of
    tbEeprom,  \* the EEPROM: its head and its entries
    tbSichern, \* the entries still to be saved, or none
    tbTeil,    \* bound: which of these three goes on, if any; they do not meet
    tbZeit, tbAenderungen

tbVars == <<tb, tbLister, tbPruef, tbEeprom, tbSichern, tbTeil, tbZeit, tbAenderungen>>

(***************************************************************************)
(* The memory.                                                             *)
(***************************************************************************)
Summe(b) == LET summe[i \in 0 .. Len(b)] == IF i = 0 THEN 0 ELSE summe[i - 1] + b[i].gr IN summe
MemUsed(b) == Summe(b)[Len(b)]
Anfang(b, i) == Summe(b)[i - 1]
AnStelle(b, pos) == {i \in DOMAIN b : Anfang(b, i) = pos}
Nummern(b) == {b[i].nr : i \in DOMAIN b}
TlnMemSuche(b, nr) == CHOOSE i \in DOMAIN b : b[i].nr = nr /\ \A j \in 1 .. i - 1 : b[j].nr # nr
Hierin(b, p) == {i \in DOMAIN b : Anfang(b, i) < p /\ p <= Anfang(b, i) + b[i].gr}
Bytes(b) == [p \in 1 .. MemUsed(b) |-> LET i == CHOOSE i \in Hierin(b, p) : TRUE IN <<b[i], p - Anfang(b, i)>>]

(* Where the lister looks whether it is still at the entry it expects. *)
Kopf(e) == <<e.nr, e.gr, e.lokal, e.geloescht>>

(* TlnPlatzschaffen: as long as there is no room for n more bytes the      *)
(* oldest entry that is not local goes, the first of those of one date.    *)
Passt(b, n) == MemUsed(b) < TlnBuchMemMax - n
Fremd(b) == {i \in DOMAIN b : ~b[i].lokal}
Aeltester(b) ==
    CHOOSE i \in Fremd(b) : \A j \in Fremd(b) \ {i} : b[i].datum < b[j].datum \/ (b[i].datum = b[j].datum /\ i < j)
Entfernt(b, i) == [n \in 1 .. Len(b) - 1 |-> b[IF n < i THEN n ELSE n + 1]]
EinerWeniger(b, n) == IF Passt(b, n) \/ Fremd(b) = {} THEN b ELSE Entfernt(b, Aeltester(b))

TlnPlatzschaffen(b, n) ==
    LET rest[k \in 0 .. Len(b)] == IF k = 0 THEN b ELSE EinerWeniger(rest[k - 1], n)
        buch == rest[Len(b)]
    IN  [ok |-> Passt(buch, n), buch |-> buch]

(* TlnHinzufuegen, the number is not there: at the end, if there is room. *)
Datiert(e, modus) == IF modus = "DatumAktualisieren" THEN [e EXCEPT !.datum = tbZeit] ELSE e
Anhaengen(b, e, modus) ==
    LET p == TlnPlatzschaffen(b, e.gr)
    IN  IF p.ok THEN [res |-> 1, buch |-> Append(p.buch, Datiert(e, modus))]
        ELSE [res |-> -1, buch |-> p.buch]

(* Mutant: after making room the entry is taken to be where it was. *)
TlnHinzufuegenOhneSuche(b, e, modus) ==
    IF e.nr \notin Nummern(b) THEN Anhaengen(b, e, modus)
    ELSE LET i == TlnMemSuche(b, e.nr)
             p == TlnPlatzschaffen(b, e.gr - b[i].gr)
         IN  IF ~p.ok \/ i > Len(p.buch) THEN [res |-> -1, buch |-> p.buch]
             ELSE [res |-> 1, buch |-> [p.buch EXCEPT ![i] = Datiert(e, modus)]]

(* TlnHinzufuegen.  Making room moves the entries and may even take the    *)
(* one to be changed: then it is looked for again.                         *)
TlnHinzufuegen(b, e, modus) ==
    IF e.nr \notin Nummern(b) THEN Anhaengen(b, e, modus)
    ELSE LET i == TlnMemSuche(b, e.nr)
             alt == b[i]
             ersetzt(c) == [c EXCEPT ![TlnMemSuche(c, e.nr)] = Datiert(e, modus)]
             p == TlnPlatzschaffen(b, e.gr - alt.gr)
         IN  CASE modus = "NurNeuere" /\ (alt.datum > e.datum \/ alt.lokal) -> [res |-> 2, buch |-> b]
               [] modus = "NurNeuere" /\ ~alt.lokal /\ alt.datum = e.datum -> [res |-> 0, buch |-> b]
               [] OTHER ->
                    IF alt = e THEN [res |-> 0, buch |-> b]
                    ELSE IF e.gr = alt.gr THEN [res |-> 1, buch |-> ersetzt(b)]
                    ELSE IF ~p.ok THEN [res |-> -1, buch |-> p.buch]
                    ELSE IF e.nr \in Nummern(p.buch) THEN [res |-> 1, buch |-> ersetzt(p.buch)]
                    ELSE Anhaengen(p.buch, e, modus)

(* TlnBuchSortieren: the least of the rest is brought to the head of it,   *)
(* by way of the free memory behind the end (even when it is there         *)
(* already), so there must be room for it; when room had to be made all    *)
(* begins anew.                                                            *)
Schluessel(e, krit) == IF krit = "Nummer" THEN e.nr ELSE e.datum
Davor(e, f, krit, rueckwaerts) ==
    IF rueckwaerts THEN Schluessel(e, krit) > Schluessel(f, krit)
    ELSE Schluessel(e, krit) < Schluessel(f, krit)

Kleinster(b, kopf, krit, rueckwaerts) ==
    CHOOSE i \in kopf .. Len(b) :
        /\ \A j \in kopf .. Len(b) : ~Davor(b[j], b[i], krit, rueckwaerts)
        /\ \A j \in kopf .. i - 1 : Davor(b[i], b[j], krit, rueckwaerts)
Vorgeholt(b, kopf, i) ==
    [n \in DOMAIN b |-> b[IF n = kopf THEN i ELSE IF n \in kopf + 1 .. i THEN n - 1 ELSE n]]

Umgeraeumt(s, i, p) ==
    IF ~p.ok THEN [s EXCEPT !.buch = p.buch, !.ok = FALSE]
    ELSE IF p.buch # s.buch THEN [s EXCEPT !.buch = p.buch, !.kopf = 1]
    ELSE [s EXCEPT !.buch = Vorgeholt(@, s.kopf, i), !.kopf = @ + 1]
MitHilfsplatz(s, i) == Umgeraeumt(s, i, TlnPlatzschaffen(s.buch, s.buch[i].gr))
Sortierschritt(s, krit, rueckwaerts) ==
    IF ~s.ok \/ s.kopf > Len(s.buch) THEN s ELSE MitHilfsplatz(s, Kleinster(s.buch, s.kopf, krit, rueckwaerts))

(* As many steps as there can be: every new beginning is one entry less.   *)
TlnBuchSortieren(b, krit, rueckwaerts) ==
    LET schritte == (Len(b) + 1) * (Len(b) + 1)
        nach[n \in 0 .. schritte] ==
            IF n = 0 THEN [buch |-> b, kopf |-> 1, ok |-> TRUE] ELSE Sortierschritt(nach[n - 1], krit, rueckwaerts)
    IN  nach[schritte]

(***************************************************************************)
(* What changes the directory.                                             *)
(***************************************************************************)

(* Ghosts: what a running listing must find, whether it has been disturbed *)
(* (the directory got shorter, or entries went or changed places), and how *)
(* many sums have been completed since the last change.                    *)
Verlaengert(b, c) == Len(b) <= Len(c) /\ \A i \in DOMAIN b : c[i].nr = b[i].nr
Geaendert(b) ==
    /\ tb' = b
    /\ tbLister' = [tbLister EXCEPT !.soll = @ \cap Nummern(b),
                       !.gestoert = @ \/ ~Verlaengert(tb, b) \/ MemUsed(b) < MemUsed(tb)]
    /\ tbPruef' = IF b = tb THEN tbPruef ELSE [tbPruef EXCEPT !.runden = 0]
Ruhig == tbSichern = << >>
Aenderung == Ruhig /\ tbAenderungen > 0 /\ tbAenderungen' = tbAenderungen - 1

(* An entry of the web page, the keyboard or a server is stored. *)
Speichern(f, d, modus) ==
    /\ Aenderung
    /\ Geaendert(TlnHinzufuegen(tb, Mit(f, d), modus).buch)
    /\ UNCHANGED <<tbEeprom, tbSichern, tbTeil, tbZeit>>

(* TlnBuch_Anzeige_CGI: a number is changed; the old one stays as deleted. *)
Umbenennen(alt, f) ==
    /\ Aenderung
    /\ alt \in Nummern(tb) /\ alt # f.nr /\ ~f.geloescht
    /\ \A i \in DOMAIN tb : tb[i].nr = f.nr => tb[i].geloescht
    /\ LET neu == TlnHinzufuegen(tb, Mit(f, 0), "DatumAktualisieren")
           weg == Mit(Geloescht(alt, f.lokal), tbZeit)
       IN  Geaendert(IF neu.res < 0 THEN neu.buch
                     ELSE TlnHinzufuegen(neu.buch, weg, "DatumAktualisieren").buch)
    /\ UNCHANGED <<tbEeprom, tbSichern, tbTeil, tbZeit>>

KomplettLoeschen ==
    /\ Aenderung
    /\ Geaendert(<< >>)
    /\ UNCHANGED <<tbEeprom, tbSichern, tbTeil, tbZeit>>

Sortieren(krit, rueckwaerts) ==
    /\ Aenderung
    /\ Geaendert(TlnBuchSortieren(tb, krit, rueckwaerts).buch)
    /\ UNCHANGED <<tbEeprom, tbSichern, tbTeil, tbZeit>>

(***************************************************************************)
(* The lister.                                                             *)
(***************************************************************************)
KeinLister == [laeuft |-> FALSE, pos |-> 0, ref |-> << >>, soll |-> {}, geliefert |-> {},
               gestoert |-> FALSE]

TlnListerStart ==
    /\ Ruhig /\ tbTeil = "Lister" /\ ~tbLister.laeuft
    /\ tbLister' = [laeuft |-> TRUE, pos |-> 0, ref |-> IF tb = << >> THEN << >> ELSE Kopf(tb[1]),
                    soll |-> Nummern(tb), geliefert |-> {}, gestoert |-> FALSE]
    /\ UNCHANGED <<tb, tbPruef, tbEeprom, tbSichern, tbTeil, tbZeit, tbAenderungen>>

(* Mutant: at the end of the memory the head is not looked at. *)
TlnListerNaechsterOhneRef ==
    /\ Ruhig /\ tbLister.laeuft
    /\ IF tbLister.pos >= MemUsed(tb) THEN tbLister' = [tbLister EXCEPT !.laeuft = FALSE]
       ELSE LET hier == {j \in DOMAIN tb : Anfang(tb, j) <= tbLister.pos}
                i == CHOOSE j \in hier : \A k \in hier : k <= j
            IN  tbLister' = [tbLister EXCEPT !.pos = Anfang(tb, i) + tb[i].gr,
                                             !.geliefert = @ \cup {tb[i].nr}]
    /\ UNCHANGED <<tb, tbPruef, tbEeprom, tbSichern, tbTeil, tbZeit, tbAenderungen>>

(* TlnListerNaechster: the next entry; if the one expected is not there,   *)
(* from the beginning.                                                     *)
TlnListerNaechster ==
    /\ Ruhig /\ tbLister.laeuft
    /\ IF tbLister.pos >= MemUsed(tb) THEN tbLister' = [tbLister EXCEPT !.laeuft = FALSE]
       ELSE LET hier == {i \in AnStelle(tb, tbLister.pos) : Kopf(tb[i]) = tbLister.ref}
                i == IF hier = {} THEN 1 ELSE CHOOSE j \in hier : TRUE
            IN  tbLister' = [tbLister EXCEPT
                    !.pos = Anfang(tb, i) + tb[i].gr,
                    !.ref = IF i < Len(tb) THEN Kopf(tb[i + 1]) ELSE @,
                    !.geliefert = @ \cup {tb[i].nr}]
    /\ UNCHANGED <<tb, tbPruef, tbEeprom, tbSichern, tbTeil, tbZeit, tbAenderungen>>

(***************************************************************************)
(* The sum: the bytes it has been made of, and whether it began as it must. *)
(***************************************************************************)
SollStimmt == tbPruef.sollGut /\ tbPruef.soll = Bytes(tb)

(* Mutant: a sum that has come too far is not begun anew. *)
PruefsummeSchrittOhneStart ==
    /\ Ruhig /\ tbTeil = "Summe"
    /\ tbPruef' = IF Len(tbPruef.ist) >= MemUsed(tb)
                  THEN [tbPruef EXCEPT !.soll = tbPruef.ist, !.sollGut = TRUE, !.runden = IF @ < 2 THEN @ + 1 ELSE 2]
                  ELSE [tbPruef EXCEPT !.ist = Append(@, Bytes(tb)[Len(@) + 1])]
    /\ UNCHANGED <<tb, tbLister, tbEeprom, tbSichern, tbTeil, tbZeit, tbAenderungen>>

(* TlnBuchPruefsummeBerechnenSchritt: one byte, or the end of a round. *)
PruefsummeSchritt ==
    /\ Ruhig /\ tbTeil = "Summe"
    /\ tbPruef' = IF Len(tbPruef.ist) >= MemUsed(tb)
                  THEN [ist |-> << >>, soll |-> tbPruef.ist,
                        istGut |-> TRUE, sollGut |-> tbPruef.istGut,
                        runden |-> IF tbPruef.runden < 2 THEN tbPruef.runden + 1 ELSE 2]
                  ELSE [tbPruef EXCEPT !.ist = Append(@, Bytes(tb)[Len(@) + 1])]
    /\ UNCHANGED <<tb, tbLister, tbEeprom, tbSichern, tbTeil, tbZeit, tbAenderungen>>

(***************************************************************************)
(* The EEPROM.                                                             *)
(***************************************************************************)
Ausgegeben(b) ==
    LET aus[i \in 0 .. Len(b)] ==
            IF i = 0 THEN << >> ELSE IF b[i].geloescht THEN aus[i - 1] ELSE Append(aus[i - 1], b[i])
    IN  aus[Len(b)]

(* Mutant: the old head stays valid while the entries are overwritten. *)
SichernBeginnenMitAltemKopf ==
    /\ Ruhig /\ tbTeil = "Sichern"
    /\ tbSichern' = Append(Ausgegeben(tb), "Kopf")
    /\ tbEeprom' = [tbEeprom EXCEPT !.stelle = 0]
    /\ UNCHANGED <<tb, tbLister, tbPruef, tbTeil, tbZeit, tbAenderungen>>

(* TlnBuchSpeichereAufExternEeprom: first a head that is not valid; *)
SichernBeginnen ==
    /\ Ruhig /\ tbTeil = "Sichern"
    /\ tbSichern' = Append(Ausgegeben(tb), "Kopf")
    /\ tbEeprom' = [tbEeprom EXCEPT !.kopf = -1, !.stelle = 0]
    /\ UNCHANGED <<tb, tbLister, tbPruef, tbTeil, tbZeit, tbAenderungen>>

(* then the entries that are not deleted, over what was there; *)
SichernEintrag ==
    /\ Len(tbSichern) > 1
    /\ LET i == tbEeprom.stelle + 1
       IN  tbEeprom' = [tbEeprom EXCEPT !.stelle = i,
               !.daten = IF i <= Len(@) THEN [@ EXCEPT ![i] = Head(tbSichern)]
                         ELSE Append(@, Head(tbSichern))]
    /\ tbSichern' = Tail(tbSichern)
    /\ UNCHANGED <<tb, tbLister, tbPruef, tbTeil, tbZeit, tbAenderungen>>

(* at last the true head.  (Ghost: what should be there now.) *)
SichernKopf ==
    /\ Len(tbSichern) = 1
    /\ tbEeprom' = [tbEeprom EXCEPT !.kopf = tbEeprom.stelle, !.soll = Ausgegeben(tb)]
    /\ tbSichern' = << >>
    /\ UNCHANGED <<tb, tbLister, tbPruef, tbTeil, tbZeit, tbAenderungen>>

(* The bus to the EEPROM fails: what has been written stays. *)
SichernFehler ==
    /\ ~Ruhig
    /\ tbSichern' = << >>
    /\ UNCHANGED <<tb, tbLister, tbPruef, tbEeprom, tbTeil, tbZeit, tbAenderungen>>

(* TlnBuchLadeVonExternEeprom, over the directory b: a head that is not    *)
(* valid and one of length 0 leave it; a failure on the way empties it.    *)
Geladen(b) ==
    IF tbEeprom.kopf <= 0 THEN {b} ELSE {SubSeq(tbEeprom.daten, 1, tbEeprom.kopf), << >>}

Laden ==
    /\ Aenderung
    /\ \E b \in Geladen(tb) : Geaendert(b)
    /\ UNCHANGED <<tbEeprom, tbSichern, tbTeil, tbZeit>>

(* TlnBuchInit after a reset: what is in memory if the sum is right, else  *)
(* the EEPROM; after a loss of power the memory is not right, and with the *)
(* button pressed nothing is wanted.  The sum formed here is the beginning *)
(* of the next round, wrong as it may be.                                  *)
Neubeginn(kalt, taste) ==
    /\ tbAenderungen > 0 /\ tbAenderungen' = tbAenderungen - 1
    /\ tbSichern' = << >>
    /\ \E b \in IF taste THEN {<< >>}
                ELSE IF ~kalt /\ SollStimmt THEN {tb}
                ELSE Geladen(<< >>) : tb' = b
    /\ \E ist \in IF taste THEN {<< >>}
                  ELSE IF ~kalt THEN {Bytes(tb)}
                  ELSE {[i \in 1 .. n |-> "Zufall"] : n \in {0, TlnBuchMemMax}} :
          tbPruef' = [ist |-> ist, istGut |-> ~kalt /\ ~taste, soll |-> tbPruef.soll,
                      sollGut |-> tbPruef.sollGut /\ ~kalt, runden |-> 0]
    /\ tbLister' = KeinLister
    /\ UNCHANGED <<tbEeprom, tbTeil, tbZeit>>

Uhr ==
    /\ tbZeit < TbMaxZeit /\ tbZeit' = tbZeit + 1
    /\ UNCHANGED <<tb, tbLister, tbPruef, tbEeprom, tbSichern, tbTeil, tbAenderungen>>

(***************************************************************************)
(* The specification and its properties.                                   *)
(***************************************************************************)
(* The directory as it may be when the model begins: entries in the order  *)
(* they were stored, as many as fit (bound: one, if nobody lists).         *)
TbAnfang ==
    {b \in UNION {[1 .. n -> {Mit(f, d) : f \in TbFassung, d \in Datum}] : n \in 0 .. Cardinality(TbNummer)} :
        MemUsed(b) < TlnBuchMemMax /\ \A i, j \in DOMAIN b : b[i].nr = b[j].nr => i = j}

TbInit ==
    /\ tbTeil \in {"Lister", "Summe", "Sichern", "keiner"}
    /\ tb \in {b \in TbAnfang : tbTeil \in {"Lister", "keiner"} \/ Len(b) <= 1}
    /\ tbLister = KeinLister
    /\ tbPruef = [ist |-> << >>, istGut |-> TRUE, soll |-> << >>, sollGut |-> FALSE, runden |-> 0]
    /\ tbEeprom = [kopf |-> -1, daten |-> << >>, stelle |-> 0, soll |-> << >>]
    /\ tbSichern = << >>
    /\ tbZeit = 0 /\ tbAenderungen = TbMaxAenderungen

TbNext ==
    \/ \E f \in TbFassung :
          \/ \E d \in Datum, modus \in Modus : Speichern(f, d, modus)
          \/ \E alt \in TbNummer : Umbenennen(alt, f)
    \/ KomplettLoeschen
    \/ \E krit \in {"Nummer", "Datum"}, r \in BOOLEAN : Sortieren(krit, r)
    \/ TlnListerStart \/ TlnListerNaechster
    \/ PruefsummeSchritt
    \/ SichernBeginnen \/ SichernEintrag \/ SichernKopf \/ SichernFehler
    \/ Laden
    \/ \E kalt, taste \in BOOLEAN : Neubeginn(kalt, taste)
    \/ Uhr

TbSpec == TbInit /\ [][TbNext]_tbVars

TbTyp ==
    /\ tb \in Seq([nr : TbNummer, gr : Nat, lokal : BOOLEAN, geloescht : BOOLEAN, datum : Datum])
    /\ tbLister.soll \subseteq TbNummer /\ tbLister.geliefert \subseteq TbNummer
    /\ tbLister.pos \in 0 .. TlnBuchMemMax
    /\ tbPruef.runden \in 0 .. 2
    /\ tbEeprom.kopf \in -1 .. TlnBuchMemMax
    /\ tbZeit \in 0 .. TbMaxZeit /\ tbAenderungen \in 0 .. TbMaxAenderungen

(* The memory is never full, and no number is there twice, whoever had to  *)
(* give way for whom.                                                      *)
EindeutigUndPassend ==
    /\ MemUsed(tb) < TlnBuchMemMax \/ tb = << >>
    /\ \A i, j \in DOMAIN tb : tb[i].nr = tb[j].nr => i = j

(* A listing that ends has found every number that was there all the time, *)
(* however entries came and grew meanwhile; not so if entries went or      *)
(* changed places or the directory got shorter.                            *)
ListeVollstaendig ==
    ~tbLister.laeuft /\ ~tbLister.gestoert => tbLister.soll \subseteq tbLister.geliefert

(* Two sums after the last change a reset finds the memory good. *)
SummeStimmt == tbPruef.runden = 2 => SollStimmt

(* A valid head in the EEPROM means that all the entries of one state of   *)
(* the directory are there, whatever failed while saving.                  *)
SicherungGanz == tbEeprom.kopf >= 0 => SubSeq(tbEeprom.daten, 1, tbEeprom.kopf) = tbEeprom.soll
=============================================================================
