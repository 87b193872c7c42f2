----------------------------- MODULE Dateisystem -----------------------------
(***************************************************************************)
(* The FAT16 file system on the SD card (src/system/filesystem/fat.c), one *)
(* write to the card at a time (hardware/sd_raw/sd_raw.c writes a block    *)
(* at once and keeps nothing back): the power may fail between any two of  *)
(* them.  A call works out from the card what it has to write, in order.   *)
(* Calls of the main loop follow one another, and the card does not change *)
(* under them.  The one caller outside it is the log's minute (Protokoll,  *)
(* from the timer's interrupt); that it comes in the middle of a call,     *)
(* against which neither fat.c nor sd_raw.c has a lock, is left out.       *)
(***************************************************************************)
EXTENDS Integers, Sequences, FiniteSets, SequencesExt, FiniteSetsExt

CONSTANTS FsAnzahl,     \* clusters
          FsEinheiten,  \* blocks of a cluster (header.cluster_size)
          FsPlaetze,    \* places of the root directory, 32 bytes each
          FsLang,       \* places that a long name takes: (length + 12) / 13
          FsNamen,
          FsStellen,    \* positions and sizes that callers ask for
          FsMengen,     \* how many blocks they write at once
          FsMaxRufe,    \* calls in one behaviour
          FsMaxAusfaelle

ASSUME FsAnnahme ==
    /\ FsAnzahl \in Nat /\ FsEinheiten \in Nat \ {0} /\ FsPlaetze \in Nat /\ FsLang \in Nat
    /\ FsNamen \subseteq Nat \ {0} /\ FsStellen \subseteq Nat /\ FsMengen \subseteq Nat \ {0}
    /\ FsMaxRufe \in Nat /\ FsMaxAusfaelle \in Nat

VARIABLES fsKarte,     \* the card
          fsFolge,     \* what the call under way has still to write
          fsSoll,      \* what each file holds before that call and after it
          fsRufe,      \* calls; the blocks that one writes bear its number
          fsAusfaelle
fsVars == <<fsKarte, fsFolge, fsSoll, fsRufe, fsAusfaelle>>

Cluster == 2 .. FsAnzahl + 1
FREE == 0      \* FAT16_CLUSTER_FREE
LAST == 1      \* FAT16_CLUSTER_LAST_MAX
Ohne == 0      \* no cluster, no file

(* A place is free (never used or deleted), a part of a long name, or the  *)
(* 8.3 entry with the properties of the file.                              *)
Platz(art, name, teil, cluster, groesse) ==
    [art |-> art, name |-> name, teil |-> teil, cluster |-> cluster, groesse |-> groesse]
Frei == Platz("frei", Ohne, 0, Ohne, 0)

(* One write: an entry of the FAT, a place of the directory, a block.      *)
Schrieb(wo, n, block, wert, platz) == [wo |-> wo, n |-> n, block |-> block, wert |-> wert, platz |-> platz]
FatEintrag(c, wert) == Schrieb("fat", c, 0, wert, Frei)
Verzeichnisplatz(i, platz) == Schrieb("platz", i, 0, 0, platz)
Block(c, b, wert) == Schrieb("block", c, b, wert, Frei)

Geschrieben(karte, w) ==
    CASE w.wo = "fat"   -> [karte EXCEPT !.fat[w.n] = w.wert]
      [] w.wo = "platz" -> [karte EXCEPT !.platz[w.n] = w.platz]
      [] w.wo = "block" -> [karte EXCEPT !.block[w.n][w.block] = w.wert]

(* A call under way: the card as it will be, and the writes that make it.  *)
Beginn == [karte |-> fsKarte, folge |-> << >>]
Schreibt(a, w) == [karte |-> Geschrieben(a.karte, w), folge |-> Append(a.folge, w)]
SchreibtAlle(a, ws) == FoldLeft(Schreibt, a, ws)
-----------------------------------------------------------------------------
(* Chains of clusters.                                                     *)
fat_get_next_cluster(fat, c) == IF c \in Cluster /\ fat[c] \in Cluster THEN fat[c] ELSE Ohne

Kette(fat, c) ==
    IF c = Ohne THEN << >>
    ELSE FoldLeft(LAMBDA k, i : IF fat_get_next_cluster(fat, Last(k)) = Ohne THEN k
                                ELSE Append(k, fat[Last(k)]),
                  <<c>>, [i \in 1 .. FsAnzahl |-> i])

(* Head first; what is behind a free cluster stays.                        *)
Freigegeben(a, kette) == SchreibtAlle(a, [i \in DOMAIN kette |-> FatEintrag(kette[i], FREE)])
fat_free_clusters(a, c) == Freigegeben(a, Kette(a.karte.fat, c))

(* The new end is marked before the rest is freed.                         *)
fat_terminate_clusters(a, c) ==
    fat_free_clusters(Schreibt(a, FatEintrag(c, LAST)), fat_get_next_cluster(a.karte.fat, c))

(* The lowest free clusters, no more than are wanted.                      *)
NeueCluster(fat, anzahl) ==
    SetToSortSeq({n \in Cluster : fat[n] = FREE /\ Cardinality({m \in Cluster : m < n /\ fat[m] = FREE}) < anzahl}, <)

(* The new chain is made from its end.                                     *)
Verkettet(a, neue) == SchreibtAlle(a, [i \in DOMAIN neue |-> FatEintrag(neue[i], IF i = 1 THEN LAST ELSE neue[i - 1])])
Anfang(neue) == IF neue = << >> THEN Ohne ELSE Last(neue)

(* It is joined to the old one when it is complete.                        *)
Angehaengt(a, c, anfang) == [a |-> IF c = Ohne THEN a ELSE Schreibt(a, FatEintrag(c, anfang)), cluster |-> anfang]

(* Mutant: what was marked on a full card stays marked.                    *)
UnvollstaendigOhneFreigabe(a, anfang) == [a |-> a, cluster |-> Ohne]

(* If it does not become so it is freed again.                             *)
Unvollstaendig(a, anfang) == [a |-> fat_free_clusters(a, anfang), cluster |-> Ohne]

Verlaengert(a, c, anzahl, neue) ==
    IF Len(neue) < anzahl THEN Unvollstaendig(Verkettet(a, neue), Anfang(neue))
    ELSE Angehaengt(Verkettet(a, neue), c, Anfang(neue))

fat_append_clusters(a, c, anzahl) == Verlaengert(a, c, anzahl, NeueCluster(a.karte.fat, anzahl))
-----------------------------------------------------------------------------
(* The directory.  An entry that is read has the name of its parts, or the *)
(* short one when the first part is missing.                               *)
Namensteile(karte, i) ==
    {j \in 1 .. i - 1 : karte.platz[j].art = "lang" /\ \A k \in j .. i - 1 : karte.platz[k].art # "kurz"}

EintragMitTeilen(karte, i, teile) ==
    [ort |-> IF teile = {} THEN i ELSE Min(teile), name |-> IF teile = {} THEN Ohne ELSE karte.platz[Max(teile)].name,
     ganz |-> Cardinality(teile) = FsLang, cluster |-> karte.platz[i].cluster, groesse |-> karte.platz[i].groesse]
DateiEintrag(karte, i) == EintragMitTeilen(karte, i, Namensteile(karte, i))

Kurze(karte) == {i \in 1 .. FsPlaetze : karte.platz[i].art = "kurz"}
Eintraege(karte) == {DateiEintrag(karte, i) : i \in Kurze(karte)}

fat_get_dir_entry_of_path(karte, name) == {e \in Eintraege(karte) : e.name = name /\ e.ganz}

(* The first run of free places that is long enough, in the root directory *)
(* (which cannot grow).                                                    *)
Luecken(karte) == {i \in 1 .. FsPlaetze - FsLang : \A j \in i .. i + FsLang : karte.platz[j].art = "frei"}
fat_find_offset_for_dir_entry(karte) == {i \in Luecken(karte) : \A j \in Luecken(karte) : i <= j}

(* The 8.3 entry comes first, though its place is behind the name's.       *)
fat_write_dir_entry(a, e) ==
    SchreibtAlle(Schreibt(a, Verzeichnisplatz(e.ort + FsLang, Platz("kurz", e.name, 0, e.cluster, e.groesse))),
                 [i \in 1 .. FsLang |-> Verzeichnisplatz(e.ort + i - 1, Platz("lang", e.name, FsLang + 1 - i, Ohne, 0))])

(* No entry when the name exists or no place is left.                      *)
Leer(ort, name) == [ort |-> ort, name |-> name, ganz |-> TRUE, cluster |-> Ohne, groesse |-> 0]
fat_create_file(karte, name) ==
    {Leer(ort, name) : ort \in IF fat_get_dir_entry_of_path(karte, name) # {} THEN {} ELSE fat_find_offset_for_dir_entry(karte)}

(* Place by place up to the 8.3 entry, then the clusters.                  *)
Gestrichen(a, von, bis) == SchreibtAlle(a, [i \in 1 .. bis - von + 1 |-> Verzeichnisplatz(von + i - 1, Frei)])
Ende(a, e) == Min({i \in Kurze(a.karte) : i >= e.ort})

(* Mutant: the clusters before the entry.                                  *)
fat_delete_fileVonHinten(a, e) == Gestrichen(fat_free_clusters(a, e.cluster), e.ort, Ende(a, e))

fat_delete_file(a, e) == fat_free_clusters(Gestrichen(a, e.ort, Ende(a, e)), e.cluster)

-----------------------------------------------------------------------------
(* Files.  An open file is its directory entry as the library keeps it.    *)
AnzahlCluster(groesse) == (groesse + FsEinheiten - 1) \div FsEinheiten
Kleinere(x, y) == IF x < y THEN x ELSE y

(* The cluster in which to begin: an empty file gets its first, one that   *)
(* is full to the end of its last gets another.                            *)
AnfangIn(a, kette, stelle) ==
    LET n == stelle \div FsEinheiten + 1 IN
    IF n <= Len(kette) THEN [a |-> a, cluster |-> kette[n]]
    ELSE IF n = Len(kette) + 1 /\ stelle % FsEinheiten = 0
         THEN fat_append_clusters(a, IF kette = << >> THEN Ohne ELSE Last(kette), 1)
    ELSE [a |-> a, cluster |-> Ohne]

(* The next cluster is sought, or appended, only if more is to be written. *)
Folgecluster(s, naechster) ==
    IF naechster # Ohne THEN [a |-> s.a, cluster |-> naechster] ELSE fat_append_clusters(s.a, s.cluster, 1)

MitCluster(s, r) == [s EXCEPT !.a = r.a, !.cluster = r.cluster]
Weitergegangen(s) ==
    IF s.stelle % FsEinheiten # 0 \/ s.cluster = Ohne THEN s
    ELSE MitCluster(s, Folgecluster(s, fat_get_next_cluster(s.a.karte.fat, s.cluster)))

BlockGeschrieben(s, wert) ==
    IF s.cluster = Ohne THEN s
    ELSE [s EXCEPT !.a = Schreibt(@, Block(s.cluster, s.stelle % FsEinheiten, wert)), !.stelle = @ + 1]

(* The directory entry is written last, and only when the file has grown.  *)
MitGroesse(s, e) ==
    IF s.stelle <= e.groesse THEN [a |-> s.a, e |-> e, bis |-> s.stelle]
    ELSE [a |-> fat_write_dir_entry(s.a, [e EXCEPT !.groesse = s.stelle]), e |-> [e EXCEPT !.groesse = s.stelle], bis |-> s.stelle]

GeschriebenAb(anfang, e, stelle, text) ==
    MitGroesse(FoldLeft(LAMBDA s, i : BlockGeschrieben(IF i = 1 THEN s ELSE Weitergegangen(s), text[i]),
                        [a |-> anfang.a, cluster |-> anfang.cluster, stelle |-> stelle], [i \in DOMAIN text |-> i]),
               [e EXCEPT !.cluster = IF @ = Ohne THEN anfang.cluster ELSE @])

fat_write_file(a, e, stelle, text) == GeschriebenAb(AnfangIn(a, Kette(a.karte.fat, e.cluster), stelle), e, stelle, text)

(* A chain is followed to the cluster in which the size ends, or to its    *)
(* end, and made longer.  The entry is written after new clusters are      *)
(* taken and before old ones are given back.                               *)
Letzter(kette, groesse) ==
    IF kette = << >> THEN 0 ELSE Kleinere(Len(kette), IF groesse = 0 THEN 1 ELSE AnzahlCluster(groesse))

Gewachsen(r, e) ==
    [a |-> IF e.groesse <= FsEinheiten THEN fat_terminate_clusters(fat_write_dir_entry(r.a, e), r.cluster)
           ELSE fat_write_dir_entry(r.a, e),
     e |-> e, ok |-> TRUE]

Gekuerzt(a, e, letzter) ==
    [a |-> IF e.groesse = 0 THEN fat_free_clusters(fat_write_dir_entry(a, e), letzter)
           ELSE fat_terminate_clusters(fat_write_dir_entry(a, e), letzter),
     e |-> e, ok |-> TRUE]

Verlaengerung(r, e, groesse) ==
    IF r.cluster = Ohne THEN [a |-> r.a, e |-> e, ok |-> FALSE]
    ELSE Gewachsen(r, [e EXCEPT !.groesse = groesse, !.cluster = IF @ = Ohne THEN r.cluster ELSE @])

Geaendert(a, e, groesse, kette, n) ==
    CASE n = 0 /\ groesse = 0 -> [a |-> a, e |-> e, ok |-> TRUE]
      [] n = 0 /\ groesse > 0 -> Verlaengerung(fat_append_clusters(a, Ohne, AnzahlCluster(groesse)), e, groesse)
      [] n > 0 /\ groesse > n * FsEinheiten ->
            Verlaengerung(fat_append_clusters(a, kette[n], AnzahlCluster(groesse - (n - 1) * FsEinheiten)), e, groesse)
      [] n > 0 /\ groesse <= n * FsEinheiten ->
            Gekuerzt(a, [e EXCEPT !.groesse = groesse, !.cluster = IF groesse = 0 THEN Ohne ELSE @], kette[n])

fat_resize_file(a, e, groesse) ==
    Geaendert(a, e, groesse, Kette(a.karte.fat, e.cluster), Letzter(Kette(a.karte.fat, e.cluster), groesse))

(* Beyond the end: the file grows, and what it gains is not cleared.       *)
fat_seek_file(a, e, stelle) ==
    IF stelle > e.groesse THEN fat_resize_file(a, e, stelle) ELSE [a |-> a, e |-> e, ok |-> TRUE]
-----------------------------------------------------------------------------
(* What a file holds, block by block as far as its size goes; 0 is a block *)
(* that nobody has written for it.                                         *)
Inhalt(karte, e) ==
    LET kette == Kette(karte.fat, e.cluster)
    IN [i \in 1 .. e.groesse |-> karte.block[kette[(i - 1) \div FsEinheiten + 1]][(i - 1) % FsEinheiten]]

KeineDatei == [da |-> FALSE, text |-> << >>]
Datei(text) == [da |-> TRUE, text |-> text]
FsDatei(karte, i) == IF karte.platz[i].art = "kurz" THEN Datei(Inhalt(karte, DateiEintrag(karte, i))) ELSE KeineDatei
FsGelesen(karte) == [i \in 1 .. FsPlaetze |-> FsDatei(karte, i)]

(* The text of a file after a write; a gap holds anything.                 *)
Ueberschrieben(alt, stelle, text) ==
    [i \in 1 .. (IF stelle + Len(text) > Len(alt) THEN stelle + Len(text) ELSE Len(alt)) |->
        IF i > stelle /\ i <= stelle + Len(text) THEN text[i - stelle] ELSE IF i <= Len(alt) THEN alt[i] ELSE 0]

FsInit ==
    /\ fsKarte = [fat |-> [c \in Cluster |-> FREE], platz |-> [i \in 1 .. FsPlaetze |-> Frei],
                  block |-> [c \in Cluster |-> [b \in 0 .. FsEinheiten - 1 |-> 0]]]
    /\ fsFolge = << >> /\ fsRufe = 0 /\ fsAusfaelle = 0
    /\ fsSoll = [alt |-> [i \in 1 .. FsPlaetze |-> KeineDatei], neu |-> [i \in 1 .. FsPlaetze |-> KeineDatei]]

(* A call begins when the one before has come to its end: what it writes,  *)
(* and what becomes of the file whose 8.3 entry is in place i.             *)
Ruf(a, i, datei) ==
    /\ fsFolge = << >> /\ fsRufe < FsMaxRufe /\ a.folge # << >>
    /\ fsFolge' = a.folge /\ fsRufe' = fsRufe + 1
    /\ fsSoll' = [alt |-> fsSoll.neu, neu |-> [fsSoll.neu EXCEPT ![i] = datei]]
    /\ UNCHANGED <<fsKarte, fsAusfaelle>>

Kurzplatz(e) == e.ort + FsLang

FsAnlegen(name) ==
    \E e \in fat_create_file(fsKarte, name) : Ruf(fat_write_dir_entry(Beginn, e), Kurzplatz(e), Datei(<< >>))

(* Open, seek, write, close (nano_db.c, WriteDB); no place for the seek is *)
(* an error, and what it has taken is given back.                          *)
RufSchreiben(w, i, stelle, text) ==
    Ruf(w.a, i, Datei(Ueberschrieben(fsSoll.neu[i].text, stelle, SubSeq(text, 1, w.bis - stelle))))

FsSchreibenNachSeek(s, stelle, text) ==
    IF s.ok THEN RufSchreiben(fat_write_file(s.a, s.e, stelle, text), Kurzplatz(s.e), stelle, text)
    ELSE Ruf(s.a, Kurzplatz(s.e), fsSoll.neu[Kurzplatz(s.e)])

FsSchreiben(name, stelle, menge) ==
    \E e \in fat_get_dir_entry_of_path(fsKarte, name) :
        FsSchreibenNachSeek(fat_seek_file(Beginn, e, stelle), stelle, [i \in 1 .. menge |-> fsRufe + 1])

(* To a smaller size; nobody here asks for it.                             *)
FsKuerzen(name, groesse) ==
    \E e \in fat_get_dir_entry_of_path(fsKarte, name) :
        /\ groesse < e.groesse
        /\ Ruf(fat_resize_file(Beginn, e, groesse).a, Kurzplatz(e), Datei(SubSeq(fsSoll.neu[Kurzplatz(e)].text, 1, groesse)))

(* Every entry is listed and can be deleted, by a short name too.          *)
cgi_SdDirectory ==
    \E i \in Kurze(fsKarte) : Ruf(fat_delete_file(Beginn, DateiEintrag(fsKarte, i)), i, KeineDatei)

FsKarteSchreibt ==
    /\ fsFolge # << >>
    /\ fsKarte' = Geschrieben(fsKarte, Head(fsFolge)) /\ fsFolge' = Tail(fsFolge)
    /\ UNCHANGED <<fsSoll, fsRufe, fsAusfaelle>>

(* The power fails: what is on the card is what there is from now on.      *)
FsAusfall ==
    /\ fsAusfaelle < FsMaxAusfaelle /\ fsAusfaelle' = fsAusfaelle + 1
    /\ fsFolge' = << >>
    /\ fsSoll' = [alt |-> FsGelesen(fsKarte), neu |-> FsGelesen(fsKarte)]
    /\ UNCHANGED <<fsKarte, fsRufe>>

FsNext ==
    \/ \E n \in FsNamen : FsAnlegen(n)
    \/ \E n \in FsNamen, s \in FsStellen, m \in FsMengen : FsSchreiben(n, s, m)
    \/ \E n \in FsNamen, s \in FsStellen : FsKuerzen(n, s)
    \/ cgi_SdDirectory
    \/ FsKarteSchreibt
    \/ fsFolge # << >> /\ FsAusfall

FsSpec == FsInit /\ [][FsNext]_fsVars
-----------------------------------------------------------------------------
KetteHeil(karte, e) ==
    LET kette == Kette(karte.fat, e.cluster) IN
    /\ IsInjective(kette)
    /\ kette # << >> => karte.fat[Last(kette)] = LAST
    /\ e.groesse <= Len(kette) * FsEinheiten

(* Whenever the power fails, between any two writes of any call, the card  *)
(* is left so that every file can be read: its clusters are its own, none  *)
(* is free, there are enough of them; it holds what it held before the     *)
(* call or what it is to hold after it, block by block; and it bears its   *)
(* own name or none (fat.c 492 to 747, 1049 to 1160, 1244 to 1320, 1758 to *)
(* 1908, 1989 to 2024).                                                    *)
DateienGanz ==
    \A i \in Kurze(fsKarte) :
        LET e == DateiEintrag(fsKarte, i) IN
        /\ KetteHeil(fsKarte, e)
        /\ \A j \in Kurze(fsKarte) \ {i} :
            ToSet(Kette(fsKarte.fat, e.cluster)) \cap ToSet(Kette(fsKarte.fat, fsKarte.platz[j].cluster)) = {}
        /\ e.name \in {Ohne, fsKarte.platz[i].name}
        /\ \E d, f \in {fsSoll.alt[i], fsSoll.neu[i]} : d.da /\ e.groesse \in Len(f.text) .. Len(d.text)
        /\ \A b \in 1 .. e.groesse :
            \E d \in {fsSoll.alt[i], fsSoll.neu[i]} :
                b <= Len(d.text) /\ d.text[b] \in {0, Inhalt(fsKarte, e)[b]}

(* As long as the power holds no cluster is lost: between two calls what   *)
(* is not free belongs to a file, a full card or not (602, 1284, 1299).    *)
NichtsVerloren ==
    fsFolge = << >> /\ fsAusfaelle = 0 =>
        {c \in Cluster : fsKarte.fat[c] # FREE} =
        UNION {ToSet(Kette(fsKarte.fat, e.cluster)) : e \in Eintraege(fsKarte)}
=============================================================================
