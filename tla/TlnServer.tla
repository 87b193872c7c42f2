----------------------------- MODULE TlnServer -----------------------------
(***************************************************************************)
(* The subscriber servers of iTelex/TlnServer.c.  Several stations keep    *)
(* copies of one directory.  A change is stored with the time it was made  *)
(* (Datum) and reported to every other server by an active                 *)
(* synchronisation; a full query (Vollabfrage) fetches everything from     *)
(* another server, after a restart and once in a while.                    *)
(*                                                                         *)
(* Per server: the directory (TlnBuch), for every other server the time    *)
(* from which changes are still to be reported (TlnServSyncStichzeit), the *)
(* time of the newest change, and AnzTlnServKanaele channels.  A channel   *)
(* sends one telegram and waits for one.  The thread of a server handles   *)
(* one channel after the other; here each is an action of its own.         *)
(*                                                                         *)
(* Abstracted: addresses and names (an entry is known by who changed it    *)
(* when), search patterns, deleted entries and their forty days, error     *)
(* counters and the pause of a failing server (any due step may also be    *)
(* late), and the order in which a listing finds the entries.              *)
(*                                                                         *)
(* Taken for granted: there is room for every entry.  In the code an entry *)
(* that is stored may evict older ones of others, and is refused when all  *)
(* that is left is kept for the server itself (TlnBuch.c 293 to 330, 376,  *)
(* 403; the answers to that: 362, 403, 773 of TlnServer.c).  Memory and    *)
(* eviction are modelled in TlnBuch.                                       *)
(***************************************************************************)
EXTENDS Integers, Sequences, FiniteSets

CONSTANTS
    Server,             \* the subscriber servers, TeilnehmerServerAdresse
    Nummer,             \* the telex numbers
    Lokale,             \* <<s, n>>: server s keeps n for itself (TlnFlag_Lokal)
    AnzTlnServKanaele,  \* channels of a server
    Keiner,             \* no server
    Befragte,           \* the servers that other clients call
    Verkuerzt,          \* an entry may become shorter while it is listed: the
                        \* listing then loses its last entry (TlnBuch)
    Ueberfaellig,       \* a full query may be more than an hour overdue
    MaxZeit,            \* bound: seconds on the clock
    MaxAenderungen,     \* bound: changes made by users and subscribers
    MaxStoerungen,      \* bound: telegrams and connections lost, restarts
    MaxNeustarts,       \* bound: restarts of each server
    MaxFremd            \* bound: telegrams of clients that are no servers

ASSUME TlnServerAnnahme ==
    /\ Lokale \subseteq Server \X Nummer
    /\ AnzTlnServKanaele \in Nat \ {0, 1}
    /\ Keiner \notin Server /\ Befragte \subseteq Server
    /\ {Verkuerzt, Ueberfaellig} \subseteq BOOLEAN
    /\ {MaxZeit, MaxAenderungen, MaxStoerungen, MaxNeustarts, MaxFremd} \subseteq Nat

Kanaele == 0 .. AnzTlnServKanaele - 1

(* A directory entry; datum 0: there is none. *)
Eintrag == [datum : 0 .. MaxZeit, von : Server \cup {Keiner}, gesperrt : BOOLEAN]
KeinEintrag == [datum |-> 0, von |-> Keiner, gesperrt |-> FALSE]

(* Telegrams, TTlnServBuf.  Geheimzahl is what the sender takes for the    *)
(* common secret, pin whether the entry still carries its DynPin.          *)
Auskunft == [art : {"Auskunft"}, nr : Nummer, eintrag : Eintrag, pin : BOOLEAN]
Anmeldungen == [art : {"Anmeldung", "Vollabfrage"}, geheim : {"Null", "falsch", "richtig"}]
Selbstakt == [art : {"Selbstakt"}, nr : Nummer, pin : BOOLEAN]
Abfragen == [art : {"Abfrage"}, nr : Nummer]
Einfache == [art : {"Suche", "Quittung", "Ende", "Fehler", "Rueckmeldung", "NichtVergeben"}]
Telegramm == Auskunft \cup Anmeldungen \cup Selbstakt \cup Abfragen \cup Einfache
Einfach(art) == [art |-> art]

(* TTlnServKanal.  ende: a channel of the partner (gegen); not yet         *)
(* accepted; a client; or gone.  rest: what the lister has not yet passed. *)
(* ein: received, not yet read.  aus: sent to somebody who has not         *)
(* accepted yet; for a client the last it was told.                        *)
Kanal == [offen : BOOLEAN, partner : Server \cup {Keiner},
          ende : {"Kanal", "wartend", "Fremd", "zu"}, gegen : Kanaele,
          ein : Seq(Telegramm), aus : Seq(Telegramm), freigabe : BOOLEAN, vollabfrage : BOOLEAN,
          gestartet : BOOLEAN, stichdatum : 0 .. MaxZeit + 1, rest : SUBSET Nummer,
          fertig : BOOLEAN]

VARIABLES
    buch,          \* the directory of each server
    stichzeit,     \* TlnServSyncStichzeit
    letzte,        \* TlnBuchLetzteAenderung
    vollErfolg,    \* VollAbfrageErfolg
    vollFaellig,   \* VollAbfrageTimer has run out
    kanal,         \* TlnServer[], with the network between the servers
    zeit,          \* the clock, the same for all
    aenderungen, stoerungen, neustarts, fremde   \* what the bounds count

tlnVars == <<buch, stichzeit, letzte, vollErfolg, vollFaellig, kanal, zeit,
             aenderungen, stoerungen, neustarts, fremde>>
umgebung == <<vollFaellig, zeit, aenderungen, neustarts, fremde>>

TlnTyp ==
    /\ buch \in [Server -> [Nummer -> Eintrag]]
    /\ stichzeit \in [Server -> [Server -> 0 .. MaxZeit + 1]]
    /\ letzte \in [Server -> 0 .. MaxZeit]
    /\ {vollErfolg, vollFaellig} \subseteq [Server -> BOOLEAN]
    /\ kanal \in [Server -> [Kanaele -> Kanal]]
    /\ zeit \in 1 .. MaxZeit
    /\ aenderungen \in 0 .. MaxAenderungen
    /\ stoerungen \in 0 .. MaxStoerungen
    /\ neustarts \in [Server -> 0 .. MaxNeustarts]
    /\ fremde \in 0 .. MaxFremd

FreierKanal ==
    [offen |-> FALSE, partner |-> Keiner, ende |-> "zu", gegen |-> 0, ein |-> << >>, aus |-> << >>,
     freigabe |-> FALSE, vollabfrage |-> FALSE, gestartet |-> FALSE, stichdatum |-> 0,
     rest |-> {}, fertig |-> FALSE]

(* Mutant: what the channel was allowed before it is still allowed. *)
KanalInitAlteFreigabe(alt, p, e) ==
    [FreierKanal EXCEPT !.offen = TRUE, !.partner = p, !.ende = e, !.freigabe = alt.freigabe]

(* The channel alt is used anew; every field is set. *)
KanalInit(alt, p, e) ==
    [FreierKanal EXCEPT !.offen = TRUE, !.partner = p, !.ende = e]

TlnInit ==
    /\ buch = [s \in Server |-> [n \in Nummer |->
                 IF <<s, n>> \in Lokale THEN [KeinEintrag EXCEPT !.datum = 1, !.von = s]
                 ELSE KeinEintrag]]
    /\ stichzeit = [s \in Server |-> [t \in Server |-> 1]]
    /\ letzte = [s \in Server |-> 0]
    /\ vollErfolg \in {[s \in Server |-> e] : e \in BOOLEAN}   \* after a start; or later
    /\ vollFaellig = [s \in Server |-> ~vollErfolg[s]]
    /\ kanal = [s \in Server |-> [k \in Kanaele |-> FreierKanal]]
    /\ zeit \in 1 .. MaxZeit
    /\ aenderungen \in 0 .. MaxAenderungen /\ stoerungen \in 0 .. MaxStoerungen
    /\ neustarts = [s \in Server |-> 0]
    /\ fremde \in 0 .. MaxFremd

Belegt(s, n) == buch[s][n].datum > 0
Bestand(b) == {n \in Nummer : b[n].datum > 0}

(***************************************************************************)
(* Storing an entry.                                                       *)
(***************************************************************************)

(* TlnHinzufuegen with TlnHinzNurNeuereUebernehmen: "gespeichert" (1),     *)
(* "veraltet" (2) or "unveraendert" (0).                                   *)
Vergleich(s, n, e) ==
    CASE ~Belegt(s, n) -> "gespeichert"
      [] Belegt(s, n) /\ (buch[s][n].datum > e.datum \/ <<s, n>> \in Lokale) -> "veraltet"
      [] Belegt(s, n) /\ <<s, n>> \notin Lokale /\ buch[s][n].datum = e.datum -> "unveraendert"
      [] OTHER -> "gespeichert"

(* TlnServTlnbuchEintragGeaendert: what is to be reported is reported from *)
(* this entry on; the server it came from needs nothing if it was up to    *)
(* date before.                                                            *)
StichzeitNach(s, datum, von) ==
    LET warOk == von # Keiner /\ stichzeit[s][von] > letzte[s]
    IN  [i \in Server |->
            IF i = s THEN stichzeit[s][i]
            ELSE IF i # von THEN IF stichzeit[s][i] > datum THEN datum ELSE stichzeit[s][i]
            ELSE IF warOk /\ stichzeit[s][i] <= datum THEN datum + 1
            ELSE stichzeit[s][i]]

LetzteNach(s, datum) == IF letzte[s] < datum THEN datum ELSE letzte[s]

(* The listings that run while entry n changes.  A new entry comes last: a *)
(* listing that is at its end begins anew.  Where the listing stands, a    *)
(* changed head makes it begin anew; a shortened entry loses the last one. *)
ListerNach(k, s, n, b) ==
    IF ~k.offen \/ ~k.gestartet THEN {k.rest}
    ELSE IF ~Belegt(s, n) THEN {IF k.rest = {} THEN Bestand(b) ELSE k.rest \cup {n}}
    ELSE {k.rest} \cup (IF n \in k.rest THEN {Bestand(b)} ELSE {})
                  \cup (IF Verkuerzt /\ Cardinality(k.rest) = 1 THEN {{}} ELSE {})

(* What the running listings of s may become when n changes to give b. *)
Gelistet(s, n, b) ==
    {[kanal EXCEPT ![s] = [k \in Kanaele |-> [kanal[s][k] EXCEPT !.rest = r[k]]]] :
        r \in {f \in [Kanaele -> SUBSET Nummer] :
                  \A k \in Kanaele : f[k] \in ListerNach(kanal[s][k], s, n, b)}}

(* An entry changes at server s itself, and nobody else knows: everything  *)
(* newer or as old is to be reported to every server.                      *)
EigeneAenderung(s, n, e) ==
    /\ buch' = [buch EXCEPT ![s][n] = e]
    /\ kanal' \in Gelistet(s, n, buch'[s])
    /\ IF <<s, n>> \in Lokale
       THEN UNCHANGED <<stichzeit, letzte>>
       ELSE /\ stichzeit' = [stichzeit EXCEPT ![s] = StichzeitNach(s, e.datum, Keiner)]
            /\ letzte' = [letzte EXCEPT ![s] = LetzteNach(s, e.datum)]

(* No two changes of a number in one second, at whatever servers. *)
NeueSekunde(n) == \A t \in Server : buch[t][n].datum # zeit

(***************************************************************************)
(* Sockets and channels.                                                   *)
(***************************************************************************)

HatGegenueber(c) == c.ende = "Kanal"

(* CloseTCPSocket: the other end sees it when it has read what is left.    *)
(* The channel's own variables stay as they are (of these only freigabe    *)
(* is kept here).                                                          *)
Schliessen(K, s, k) ==
    LET c == K[s][k]
        L == [K EXCEPT ![s][k] = [FreierKanal EXCEPT !.freigabe = c.freigabe]]
    IN  IF HatGegenueber(c) THEN [L EXCEPT ![c.partner][c.gegen].ende = "zu"] ELSE L

(* SocketDatenSenden.  A telegram that could not be sent is not repeated:  *)
(* the dialogue stops there until the connection times out.                *)
Senden(K, s, k, tel) ==
    \/ /\ kanal' = IF HatGegenueber(K[s][k])
                    THEN [K EXCEPT ![K[s][k].partner][K[s][k].gegen].ein = Append(@, tel)]
                    ELSE [K EXCEPT ![s][k].aus = << tel >>]
       /\ UNCHANGED stoerungen
    \/ /\ stoerungen > 0 /\ stoerungen' = stoerungen - 1
       /\ kanal' = K

(* Mutant: what a failed synchronisation had reported counts as reported. *)
ZurueckgesetztNie(z, c) == z

(* After an error everything that was to be sent is to be sent again. *)
Zurueckgesetzt(z, c) ==
    IF c.partner # Keiner /\ c.stichdatum > 0 /\ z[c.partner] > c.stichdatum
    THEN [z EXCEPT ![c.partner] = c.stichdatum] ELSE z

(* The end of SocketBearbeiten, when a telegram has been read and tel is   *)
(* the answer; z is the row of stichzeit so far.  If the other end is gone *)
(* the channel is closed and nothing is sent.                              *)
Abschluss(K, s, k, tel, z) ==
    LET c == K[s][k]
    IN  IF c.ende = "zu"
        THEN /\ kanal' = Schliessen(K, s, k)
             /\ stichzeit' = [stichzeit EXCEPT ![s] =
                    IF c.fertig \/ ~c.gestartet THEN z ELSE Zurueckgesetzt(z, c)]
             /\ UNCHANGED stoerungen
        ELSE /\ stichzeit' = [stichzeit EXCEPT ![s] = z]
             /\ Senden(K, s, k, tel)

(***************************************************************************)
(* SocketBearbeiten: one telegram.                                         *)
(***************************************************************************)

(* The telegram read next, and the channel once it has been read. *)
Gelesen(s, k) == Head(kanal[s][k].ein)
NachLesen(s, k) == [kanal[s][k] EXCEPT !.ein = Tail(@), !.fertig = FALSE]
Liest(s, k, arten) ==
    /\ kanal[s][k].offen
    /\ kanal[s][k].ein # << >>
    /\ Gelesen(s, k).art \in arten

(* An answer that leaves directory and reports alone. *)
Beantworten(s, k, c, tel) ==
    /\ Abschluss([kanal EXCEPT ![s][k] = c], s, k, tel, stichzeit[s])
    /\ UNCHANGED <<buch, letzte, vollErfolg, umgebung>>

(* TlnDatensatzSyncSenden: the next entry that is not local and not older  *)
(* than asked for, the DynPin only for a server that has identified        *)
(* itself; at the end the end mark, and the channel has done its work.     *)
DatensatzSenden(s, k, c) ==
    LET passend == {n \in c.rest : <<s, n>> \notin Lokale /\ buch[s][n].datum >= c.stichdatum}
    IN  \/ /\ passend = {}
           /\ Beantworten(s, k, [c EXCEPT !.rest = {}, !.fertig = TRUE], Einfach("Ende"))
        \/ \E n \in passend, weg \in SUBSET (c.rest \ passend) :
              Beantworten(s, k, [c EXCEPT !.rest = @ \ (weg \cup {n})],
                  [art |-> "Auskunft", nr |-> n, eintrag |-> buch[s][n], pin |-> c.freigabe])

(* TLNSERV_AUSKUNFT_VERSION1: an entry another server reports. *)
AuskunftEmpfangen(s, k) ==
    /\ Liest(s, k, {"Auskunft"})
    /\ LET c == NachLesen(s, k)
           t == Gelesen(s, k)
           urteil == Vergleich(s, t.nr, t.eintrag)
           quittung(K, z) == Abschluss([K EXCEPT ![s][k] = [c EXCEPT !.rest = K[s][k].rest]],
                                       s, k, Einfach("Quittung"), z)
       IN  \/ ~c.freigabe /\ Beantworten(s, k, c, Einfach("Fehler"))
           \/ /\ c.freigabe /\ urteil = "unveraendert"
              /\ Beantworten(s, k, c, Einfach("Quittung"))
           \/ /\ c.freigabe /\ urteil = "gespeichert"
              /\ buch' = [buch EXCEPT ![s][t.nr] = t.eintrag]
              /\ \E K \in Gelistet(s, t.nr, buch'[s]) :
                    quittung(K, StichzeitNach(s, t.eintrag.datum, c.partner))
              /\ letzte' = [letzte EXCEPT ![s] = LetzteNach(s, t.eintrag.datum)]
              /\ UNCHANGED <<vollErfolg, umgebung>>
           \/ /\ c.freigabe /\ urteil = "veraltet"
              /\ quittung(kanal, StichzeitNach(s, t.eintrag.datum, Keiner))
              /\ letzte' = [letzte EXCEPT ![s] = LetzteNach(s, t.eintrag.datum)]
              /\ UNCHANGED <<buch, vollErfolg, umgebung>>

(* TLNSERV_SYNC_VOLLABFRAGE and TLNSERV_SUCHE: list everything.  The wrong *)
(* secret is refused, none at all lists without the DynPin.                *)
ListeVerlangt(s, k) ==
    LET c == NachLesen(s, k)
        t == Gelesen(s, k)
        liste(frei) == DatensatzSenden(s, k, [c EXCEPT !.freigabe = frei, !.stichdatum = 0,
                                                       !.gestartet = TRUE, !.rest = Bestand(buch[s])])
    IN  \/ /\ Liest(s, k, {"Vollabfrage"})
           /\ \/ t.geheim = "falsch" /\ Beantworten(s, k, c, Einfach("Fehler"))
              \/ t.geheim # "falsch" /\ liste(t.geheim = "richtig")
        \/ Liest(s, k, {"Suche"}) /\ liste(FALSE)

(* TLNSERV_SYNC_ANMELDUNG: a server that is going to report changes. *)
AnmeldungEmpfangen(s, k) ==
    /\ Liest(s, k, {"Anmeldung"})
    /\ LET c == NachLesen(s, k)
       IN  IF Gelesen(s, k).geheim = "richtig"
           THEN Beantworten(s, k, [c EXCEPT !.freigabe = TRUE], Einfach("Quittung"))
           ELSE Beantworten(s, k, c, Einfach("Fehler"))

(* TLNSERV_SYNC_QUITTUNG: the next entry, if this channel lists at all. *)
QuittungEmpfangen(s, k) ==
    /\ Liest(s, k, {"Quittung"})
    /\ LET c == NachLesen(s, k)
       IN  IF c.gestartet THEN DatensatzSenden(s, k, c)
           ELSE Beantworten(s, k, c, Einfach("Fehler"))

(* TLNSERV_SYNC_ENDE: close; a full query has succeeded. *)
EndeEmpfangen(s, k) ==
    /\ Liest(s, k, {"Ende"})
    /\ kanal' = Schliessen(kanal, s, k)
    /\ vollErfolg' = [vollErfolg EXCEPT ![s] = @ \/ kanal[s][k].vollabfrage]
    /\ UNCHANGED <<buch, stichzeit, letzte, stoerungen, umgebung>>

(* TLNSERV_FEHLER: close; what an active synchronisation had reported is   *)
(* to be reported again.                                                   *)
FehlerEmpfangen(s, k) ==
    /\ Liest(s, k, {"Fehler"})
    /\ kanal' = Schliessen(kanal, s, k)
    /\ stichzeit' = [stichzeit EXCEPT ![s] = Zurueckgesetzt(@, kanal[s][k])]
    /\ UNCHANGED <<buch, letzte, vollErfolg, stoerungen, umgebung>>

(* TLNSERV_ABFRAGE: neither local nor locked entries, never the DynPin. *)
AbfrageEmpfangen(s, k) ==
    /\ Liest(s, k, {"Abfrage"})
    /\ LET n == Gelesen(s, k).nr
           c == [NachLesen(s, k) EXCEPT !.fertig = TRUE]
       IN  IF Belegt(s, n) /\ <<s, n>> \notin Lokale /\ ~buch[s][n].gesperrt
           THEN Beantworten(s, k, c, [art |-> "Auskunft", nr |-> n, eintrag |-> buch[s][n], pin |-> FALSE])
           ELSE Beantworten(s, k, c, Einfach("NichtVergeben"))

(* TLNSERV_SELBSTAKT: a subscriber reports its address (TlnAktualisierung). *)
(* An unknown number is entered, locked, once a full query has succeeded.   *)
SelbstaktEmpfangen(s, k) ==
    /\ Liest(s, k, {"Selbstakt"})
    /\ LET t == Gelesen(s, k)
           n == t.nr
           c == [NachLesen(s, k) EXCEPT !.fertig = TRUE]
           erlaubt == /\ <<s, n>> \notin Lokale
                      /\ IF Belegt(s, n) THEN ~buch[s][n].gesperrt /\ t.pin ELSE vollErfolg[s]
       IN  \/ ~erlaubt /\ Beantworten(s, k, c, Einfach("Fehler"))
           \/ erlaubt /\ Belegt(s, n) /\ Beantworten(s, k, c, Einfach("Rueckmeldung"))
           \/ /\ erlaubt /\ NeueSekunde(n)
              /\ IF Belegt(s, n) THEN aenderungen > 0 /\ aenderungen' = aenderungen - 1
                 ELSE UNCHANGED aenderungen
              /\ buch' = [buch EXCEPT ![s][n] =
                             [datum |-> zeit, von |-> s, gesperrt |-> ~Belegt(s, n)]]
              /\ \E K \in Gelistet(s, n, buch'[s]) :
                    Abschluss([K EXCEPT ![s][k] = [c EXCEPT !.rest = K[s][k].rest]], s, k,
                        Einfach("Rueckmeldung"), StichzeitNach(s, zeit, Keiner))
              /\ letzte' = [letzte EXCEPT ![s] = LetzteNach(s, zeit)]
              /\ UNCHANGED <<vollErfolg, vollFaellig, zeit, neustarts, fremde>>

(* A telegram that is only ever an answer is refused. *)
Unerwartet(s, k) ==
    /\ Liest(s, k, {"Rueckmeldung", "NichtVergeben"})
    /\ Beantworten(s, k, NachLesen(s, k), Einfach("Fehler"))

SocketBearbeiten(s, k) ==
    \/ AuskunftEmpfangen(s, k) \/ ListeVerlangt(s, k) \/ AnmeldungEmpfangen(s, k)
    \/ QuittungEmpfangen(s, k) \/ EndeEmpfangen(s, k) \/ FehlerEmpfangen(s, k)
    \/ AbfrageEmpfangen(s, k) \/ SelbstaktEmpfangen(s, k) \/ Unerwartet(s, k)

(* The other end has closed and nothing is left to read. *)
GegenseiteZu(s, k) ==
    /\ kanal[s][k].offen /\ kanal[s][k].ein = << >> /\ kanal[s][k].ende = "zu"
    /\ kanal' = Schliessen(kanal, s, k)
    /\ stichzeit' = [stichzeit EXCEPT ![s] =
          IF kanal[s][k].fertig \/ ~kanal[s][k].gestartet THEN @ ELSE Zurueckgesetzt(@, kanal[s][k])]
    /\ UNCHANGED <<buch, letzte, vollErfolg, stoerungen, umgebung>>

(* Five seconds after its work was done a channel closes by itself. *)
SelbstAbbau(s, k) ==
    /\ kanal[s][k].offen /\ kanal[s][k].ein = << >>
    /\ kanal[s][k].fertig /\ kanal[s][k].ende # "zu"
    /\ kanal' = Schliessen(kanal, s, k)
    /\ UNCHANGED <<buch, stichzeit, letzte, vollErfolg, stoerungen, umgebung>>

(***************************************************************************)
(* itelex_tlnserv_thread: new connections.                                 *)
(***************************************************************************)

FreieKanaele(s) == {k \in Kanaele : ~kanal[s][k].offen}
ErsterFreier(s) == CHOOSE k \in FreieKanaele(s) : \A j \in FreieKanaele(s) : k <= j

(* A server calls: it gets the first free channel, and what it has sent is *)
(* there; or all are taken, and it is told so and disconnected.            *)
Annehmen(s, t) ==
    LET r == kanal[t][0]
        k == ErsterFreier(s)
    IN  /\ r.offen /\ r.partner = s /\ r.ende = "wartend"
        /\ kanal' = IF FreieKanaele(s) # {}
                    THEN [kanal EXCEPT
                            ![s][k] = [KanalInit(kanal[s][k], t, "Kanal") EXCEPT !.ein = r.aus],
                            ![t][0] = [r EXCEPT !.ende = "Kanal", !.gegen = k, !.aus = << >>]]
                    ELSE [kanal EXCEPT
                            ![t][0] = [r EXCEPT !.ende = "zu", !.aus = << >>,
                                                !.ein = << Einfach("Fehler") >>]]
        /\ UNCHANGED <<buch, stichzeit, letzte, vollErfolg, stoerungen, umgebung>>

(* A new connection to another server is opened only while the channels 0  *)
(* and 1 are free; it is channel 0.                                        *)
DarfOeffnen(s) == ~kanal[s][0].offen /\ ~kanal[s][1].offen

(* NaechsterAktivSyncTlnServerIndex: a server with something to report to. *)
AktivSyncFaellig(s, t) == t # s /\ stichzeit[s][t] <= letzte[s]

(* AktivSyncMeldungKanalOeffnen: the reported time moves on at once, and   *)
(* back if the synchronisation fails.                                      *)
AktivSyncMeldungKanalOeffnen(s, t) ==
    /\ DarfOeffnen(s) /\ AktivSyncFaellig(s, t)
    /\ LET c == [KanalInit(kanal[s][0], t, "wartend") EXCEPT
                    !.freigabe = TRUE, !.gestartet = TRUE, !.stichdatum = stichzeit[s][t],
                    !.rest = Bestand(buch[s])]
       IN  Senden([kanal EXCEPT ![s][0] = c], s, 0, [art |-> "Anmeldung", geheim |-> "richtig"])
    /\ stichzeit' = [stichzeit EXCEPT ![s][t] = zeit]
    /\ UNCHANGED <<buch, letzte, vollErfolg, umgebung>>

(* Mutant: the caller forgets to trust the server it called. *)
VollAbfrageOhneFreigabe(s, t) ==
    /\ t # s /\ DarfOeffnen(s) /\ vollFaellig[s]
    /\ vollFaellig' = [vollFaellig EXCEPT ![s] = FALSE]
    /\ Ueberfaellig \/ \A u \in Server : ~AktivSyncFaellig(s, u)
    /\ LET c == [KanalInit(kanal[s][0], t, "wartend") EXCEPT !.vollabfrage = TRUE]
       IN  Senden([kanal EXCEPT ![s][0] = c], s, 0, [art |-> "Vollabfrage", geheim |-> "richtig"])
    /\ UNCHANGED <<buch, stichzeit, letzte, vollErfolg, zeit, aenderungen, neustarts, fremde>>

(* VollAbfrageKanalOeffnen: nothing to report, or the query is overdue by  *)
(* an hour.                                                                *)
VollAbfrageKanalOeffnen(s, t) ==
    /\ t # s /\ DarfOeffnen(s) /\ vollFaellig[s]
    /\ vollFaellig' = [vollFaellig EXCEPT ![s] = FALSE]
    /\ Ueberfaellig \/ \A u \in Server : ~AktivSyncFaellig(s, u)
    /\ LET c == [KanalInit(kanal[s][0], t, "wartend") EXCEPT !.freigabe = TRUE, !.vollabfrage = TRUE]
       IN  Senden([kanal EXCEPT ![s][0] = c], s, 0, [art |-> "Vollabfrage", geheim |-> "richtig"])
    /\ UNCHANGED <<buch, stichzeit, letzte, vollErfolg, zeit, aenderungen, neustarts, fremde>>

(* VollAbfrageTimer: five minutes or a day after the last one a full query *)
(* is due again; by then every dialogue between servers is over.           *)
VollAbfrageWirdFaellig(s) ==
    /\ ~vollFaellig[s]
    /\ \A t \in Server, k \in Kanaele : ~(kanal[t][k].offen /\ kanal[t][k].partner # Keiner)
    /\ vollFaellig' = [vollFaellig EXCEPT ![s] = TRUE]
    /\ UNCHANGED <<buch, stichzeit, letzte, vollErfolg, kanal, stoerungen, zeit,
                   aenderungen, neustarts, fremde>>

(***************************************************************************)
(* The rest of the world.                                                  *)
(***************************************************************************)

(* An entry is changed or entered on the web page of a server; it is       *)
(* locked there only if there are clients that could tell.                 *)
EintragAendern(s, n, gesperrt) ==
    /\ aenderungen > 0 /\ NeueSekunde(n)
    /\ aenderungen' = aenderungen - 1
    /\ EigeneAenderung(s, n, [datum |-> zeit, von |-> s, gesperrt |-> gesperrt])
    /\ UNCHANGED <<vollErfolg, vollFaellig, stoerungen, zeit, neustarts, fremde>>

Sekunde ==
    /\ zeit < MaxZeit
    /\ zeit' = zeit + 1
    /\ UNCHANGED <<buch, stichzeit, letzte, vollErfolg, vollFaellig, kanal, stoerungen,
                   aenderungen, neustarts, fremde>>

(* A connection breaks; both ends find out. *)
VerbindungBricht(s, k) ==
    /\ kanal[s][k].offen /\ (HatGegenueber(kanal[s][k]) \/ kanal[s][k].ende = "wartend")
    /\ stoerungen > 0 /\ stoerungen' = stoerungen - 1
    /\ kanal' = LET L == [kanal EXCEPT ![s][k].ende = "zu"]
                    c == kanal[s][k]
                IN  IF HatGegenueber(c) THEN [L EXCEPT ![c.partner][c.gegen].ende = "zu"] ELSE L
    /\ UNCHANGED <<buch, stichzeit, letzte, vollErfolg, umgebung>>

(* TCPTimeOutHandler: a connection on which both sides wait is given up. *)
Zeitueberschreitung(s, k) ==
    LET c == kanal[s][k]
        g == kanal[c.partner][c.gegen]
    IN  /\ c.offen /\ c.ein = << >> /\ ~c.fertig
        /\ \/ /\ c.ende = "Fremd"
              /\ kanal' = [kanal EXCEPT ![s][k].ende = "zu"]
           \/ /\ HatGegenueber(c)
              /\ g.ein = << >> /\ ~g.fertig
              /\ kanal' = [kanal EXCEPT ![s][k].ende = "zu", ![c.partner][c.gegen].ende = "zu"]
        /\ UNCHANGED <<buch, stichzeit, letzte, vollErfolg, stoerungen, umgebung>>

(* What a client may send that is no server: it does not know the secret.  *)
FremdTelegramme ==
    {t \in Anmeldungen : t.geheim # "richtig"} \cup Selbstakt \cup Abfragen
        \cup {Einfach(a) : a \in {"Suche", "Quittung", "Rueckmeldung"}}
        \cup [art : {"Auskunft"}, nr : Nummer, pin : {FALSE},
              eintrag : {[KeinEintrag EXCEPT !.datum = MaxZeit]}]

(* A registration that may enter a number counts as a change.              *)
Mitgezaehlt(s, t) ==
    IF t.art = "Selbstakt" /\ ~Belegt(s, t.nr)
    THEN aenderungen > 0 /\ aenderungen' = aenderungen - 1
    ELSE UNCHANGED aenderungen

(* A client calls. *)
FremdRuft(s) ==
    /\ s \in Befragte /\ fremde > 0 /\ FreieKanaele(s) # {}
    /\ fremde' = fremde - 1
    /\ \E t \in FremdTelegramme :
          /\ Mitgezaehlt(s, t)
          /\ kanal' = [kanal EXCEPT ![s][ErsterFreier(s)] = [KanalInit(@, Keiner, "Fremd") EXCEPT !.ein = << t >>]]
    /\ UNCHANGED <<buch, stichzeit, letzte, vollErfolg, vollFaellig, stoerungen, zeit, neustarts>>

(* A client that is connected sends its next telegram. *)
FremdSendet(s, k) ==
    /\ kanal[s][k].offen /\ kanal[s][k].ende = "Fremd" /\ kanal[s][k].ein = << >>
    /\ fremde > 0 /\ fremde' = fremde - 1
    /\ \E t \in FremdTelegramme : Mitgezaehlt(s, t) /\ kanal' = [kanal EXCEPT ![s][k].ein = << t >>]
    /\ UNCHANGED <<buch, stichzeit, letzte, vollErfolg, vollFaellig, stoerungen, zeit, neustarts>>

(* A restart takes time and all connections; of the directory each entry   *)
(* survives or is lost (itelex_tlnserv_init, TlnBuchInit).  What was still *)
(* to be reported is forgotten.                                            *)
Neustart(s) ==
    /\ neustarts[s] < MaxNeustarts /\ zeit < MaxZeit
    /\ stoerungen > 0 /\ stoerungen' = stoerungen - 1
    /\ neustarts' = [neustarts EXCEPT ![s] = @ + 1]
    /\ zeit' = zeit + 1
    /\ \E B \in SUBSET Nummer :
          /\ \A n \in Nummer : <<s, n>> \in Lokale => n \in B
          /\ buch' = [buch EXCEPT ![s] = [n \in Nummer |-> IF n \in B THEN @[n] ELSE KeinEintrag]]
    /\ LET neu == {0} \cup {buch'[s][n].datum : n \in {m \in Nummer : <<s, m>> \notin Lokale}}
           d == CHOOSE x \in neu : \A y \in neu : y <= x
       IN  /\ letzte' = [letzte EXCEPT ![s] = d]
           /\ stichzeit' = [stichzeit EXCEPT ![s] = [t \in Server |-> d + 1]]
    /\ vollErfolg' = [vollErfolg EXCEPT ![s] = FALSE]
    /\ vollFaellig' = [vollFaellig EXCEPT ![s] = TRUE]
    /\ kanal' = [t \in Server |-> [k \in Kanaele |->
          IF t = s THEN FreierKanal
          ELSE IF kanal[t][k].partner = s /\ kanal[t][k].ende \in {"Kanal", "wartend"}
               THEN [kanal[t][k] EXCEPT !.ende = "zu", !.aus = << >>]
          ELSE kanal[t][k]]]
    /\ UNCHANGED <<aenderungen, fremde>>

TlnNext ==
    \/ \E s \in Server, k \in Kanaele :
          \/ SocketBearbeiten(s, k) \/ GegenseiteZu(s, k) \/ SelbstAbbau(s, k)
          \/ VerbindungBricht(s, k) \/ Zeitueberschreitung(s, k) \/ FremdSendet(s, k)
    \/ \E s, t \in Server :
          \/ Annehmen(s, t)
          \/ AktivSyncMeldungKanalOeffnen(s, t) \/ VollAbfrageKanalOeffnen(s, t)
    \/ \E s \in Server, n \in Nummer, g \in {FALSE, fremde > 0} : EintragAendern(s, n, g)
    \/ \E s \in Server : FremdRuft(s) \/ Neustart(s) \/ VollAbfrageWirdFaellig(s)
    \/ Sekunde

TlnSpec == TlnInit /\ [][TlnNext]_tlnVars

(* Every server's thread runs on, the network delivers or gives up, full   *)
(* queries become due; and as a server waits with its next connection only *)
(* until its first two channels are free, that is not put off for ever.    *)
TlnFairness ==
    /\ \A s \in Server :
          WF_tlnVars(\E k \in Kanaele :
              \/ SocketBearbeiten(s, k) \/ GegenseiteZu(s, k) \/ SelbstAbbau(s, k)
              \/ Zeitueberschreitung(s, k))
    /\ WF_tlnVars(\E s, t \in Server : Annehmen(s, t))
    /\ \A s, t \in Server :
          s # t => SF_tlnVars(\/ AktivSyncMeldungKanalOeffnen(s, t)
                              \/ VollAbfrageKanalOeffnen(s, t)
                              \/ VollAbfrageWirdFaellig(s))
TlnFairSpec == TlnSpec /\ TlnFairness

(***************************************************************************)
(* Properties.                                                             *)
(***************************************************************************)

Neuer(e, f) == e.datum > f.datum
Gemeinsam(s, t, n) == s # t /\ <<s, n>> \notin Lokale /\ <<t, n>> \notin Lokale

(* A running synchronisation of s to t that has still to deliver n, or that *)
(* will put the reported time back because it is not going to.              *)
Unterwegs(s, t, n) ==
    LET c == kanal[s][0]
    IN  /\ c.offen /\ c.partner = t /\ c.gestartet /\ c.stichdatum > 0
        /\ c.stichdatum <= buch[s][n].datum
        /\ ~c.fertig

(* No change is forgotten (as long as nobody restarts): while a server's   *)
(* entry is newer than another's it is still to be reported, or a          *)
(* synchronisation is on its way with it.                                  *)
NichtsVergessen ==
    \A s, t \in Server, n \in Nummer :
        Gemeinsam(s, t, n) /\ neustarts[s] = 0 /\ neustarts[t] = 0 /\ Neuer(buch[s][n], buch[t][n])
        => \/ stichzeit[s][t] <= buch[s][n].datum /\ AktivSyncFaellig(s, t)
           \/ Unterwegs(s, t, n)

(* An entry is only ever replaced by a newer one, which was made just now  *)
(* or which another server has (or has by now replaced by a newer one),    *)
(* unless the server that made it has lost it by a restart.                *)
NurNeuere ==
    [][\A s \in Server, n \in Nummer :
          buch'[s][n] # buch[s][n] =>
             \/ neustarts'[s] # neustarts[s]
             \/ /\ Neuer(buch'[s][n], buch[s][n])
                /\ \/ buch'[s][n].datum = zeit /\ buch'[s][n].von = s
                   \/ \E t \in Server \ {s} : ~Neuer(buch'[s][n], buch[t][n])
                   \/ \E t \in Server : buch'[s][n].von = t /\ neustarts[t] > 0]_tlnVars

(* After the last change all servers have the same entries, whatever was   *)
(* lost and whoever restarted.                                             *)
Konvergenz ==
    <>[](\A s, t \in Server, n \in Nummer : Gemeinsam(s, t, n) => buch[s][n] = buch[t][n])
=============================================================================
