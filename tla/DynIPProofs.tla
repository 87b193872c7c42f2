---------------------------- MODULE DynIPProofs ----------------------------
(***************************************************************************)
(* Theorems about DynIP: the types, with the self call that waits exactly  *)
(* as long as it has a handle; and a report that is said to be under way   *)
(* has its socket.                                                         *)
(*                                                                         *)
(* A pass is a chain of operators on the station: each of them is shown to *)
(* keep it good, then the pass is.                                         *)
(***************************************************************************)
EXTENDS DynIP, WellFoundedInduction, NaturalsInduction, SequenceTheorems,
        TLAPS

Modi == {"Ruhe", "GehendWaehlen", "Kommend", "NamensucheEingabe", "NamensucheServerAbfrage", "NamensucheAusgabe",
         "Verbunden", "Schluss"}
Antwort == [code : Antworten, ip : {0} \cup IPAdr]
Socket == [bei : {0} \cup Index, offen : BOOLEAN, hin : Seq(Fragen), her : Seq(Antwort)]
Meldung == [phase : Phasen, faellig : BOOLEAN, eigene : {0} \cup IPAdr, falsch : 0 .. DiGeheimzahlGrenze]
Selbst == [phase : SelbstAnrufPhasen, handle : {"keins", "offen", "zu"}, faellig : BOOLEAN,
           fehler : 0 .. DiAufgebenAb, periode : BOOLEAN, empfang : {"nichts", "dieser", "frueherer"}]
Station == [modus : Modi, fragen : Int, fehler : [Index -> 0 .. TeilnehmerServerFehlerZaehlerGrenze + 1],
            sperrzeitUm : [Index -> BOOLEAN], socket : Socket, dyn : Meldung, selbst : Selbst]
Netz == [wahr : IPAdr, kennt : {0} \cup IPAdr, erreichbar : SUBSET Index, pin : BOOLEAN,
         anruf : SUBSET {"dieser", "frueherer"}]

(* A self call waits as long as it has a handle.                           *)
WartetMitHandle(c) == c.handle # "keins" <=> c.phase = "WarteEmpfang"

Gut(t) == t \in Station /\ WartetMitHandle(t.selbst)
DiInv == Gut(diStation) /\ diNetz \in Netz /\ LaeuftMitSocket

LEMMA InvIstTyp == DiInv => DiTyp
<1> SUFFICES ASSUME DiInv PROVE DiTyp OBVIOUS
<1>1. diStation \in Station /\ diNetz \in Netz BY DEF DiInv, Gut
<1>2. diStation.socket \in Socket /\ diStation.dyn \in Meldung /\ diStation.selbst \in Selbst BY <1>1 DEF Station
<1>3. diStation.socket.her \in Seq(Antwort) BY <1>2 DEF Socket
<1>4. \A i \in DOMAIN diStation.socket.her : diStation.socket.her[i] \in Antwort BY <1>3
<1>5. \A i \in DOMAIN diStation.socket.her : diStation.socket.her[i].code \in Antworten BY <1>4 DEF Antwort
<1>6. (diStation.selbst.handle # "keins") = (diStation.selbst.phase = "WarteEmpfang")
  BY DEF DiInv, Gut, WartetMitHandle
<1>7. /\ diStation.fehler \in [Index -> 0 .. TeilnehmerServerFehlerZaehlerGrenze + 1]
      /\ diStation.sperrzeitUm \in [Index -> BOOLEAN]
  BY <1>1 DEF Station
<1>8. diStation.socket.bei \in {0} \cup Index /\ diStation.socket.hin \in Seq(Fragen) BY <1>2 DEF Socket
<1>9. /\ diStation.dyn.phase \in Phasen /\ diStation.dyn.eigene \in {0} \cup IPAdr
      /\ diStation.dyn.falsch \in 0 .. DiGeheimzahlGrenze
  BY <1>2 DEF Meldung
<1>10. diStation.selbst.phase \in SelbstAnrufPhasen /\ diStation.selbst.fehler \in 0 .. DiAufgebenAb
  BY <1>2 DEF Selbst
<1>11. diNetz.wahr \in IPAdr /\ diNetz.kennt \in {0} \cup IPAdr BY <1>1 DEF Netz
<1> QED BY <1>5, <1>6, <1>7, <1>8, <1>9, <1>10, <1>11 DEF DiTyp

LEMMA Groessen ==
    /\ ANZ_TEILNEHMER_SERVER \in Nat \ {0} /\ TeilnehmerServerFehlerZaehlerGrenze \in Nat \ {0}
    /\ DiErneuernAb \in Nat \ {0} /\ DiAufgebenAb \in Nat \ {0} /\ DiMaxIP \in Nat \ {0}
    /\ DiGeheimzahlGrenze \in Nat /\ DiMaxFragen \in Nat /\ DiMaxEreignisse \in Nat
BY DiAnnahme

LEMMA LeererSocket == KeinSocket \in Socket /\ \A s \in Index : SocketBei(s) \in Socket
BY DEF KeinSocket, SocketBei, Socket

(***************************************************************************)
(* Servers.  The servers are tried one after the other: there is such a    *)
(* sequence of stations, and each of them is good.                         *)
(***************************************************************************)
LEMMA Kleinste ==
    ASSUME NEW T, T \subseteq Nat, T # {}
    PROVE  \E x \in T : \A y \in T : x <= y
<1> DEFINE R == {p \in Nat \X Nat : p[1] < p[2]}
<1>1. IsWellFoundedOn(R, Nat) BY NatLessThanWellFounded DEF OpToRel
<1>2. PICK x \in T : \A y \in T : ~(<<y, x>> \in R) BY <1>1, WFMin
<1>3. \A y \in T : ~(y < x) BY <1>2
<1> QED BY <1>3

(* Induction, said of a set. *)
LEMMA AlleZahlen ==
    ASSUME NEW T, 0 \in T, \A n \in Nat : n \in T => n + 1 \in T
    PROVE  Nat \subseteq T
<1> SUFFICES ASSUME Nat \ T # {} PROVE FALSE OBVIOUS
<1>1. PICK x \in Nat \ T : \A y \in Nat \ T : x <= y BY Kleinste
<1>2. x # 0 BY <1>1
<1>3. x - 1 \in Nat /\ ~(x <= x - 1) BY <1>1, <1>2
<1>4. x - 1 \in T BY <1>1, <1>3
<1>5. (x - 1) + 1 = x BY <1>1
<1> QED BY <1>1, <1>3, <1>4, <1>5

(* One field of a station is set to something of its kind.                 *)
LEMMA Gesetzt ==
    ASSUME NEW t \in Station
    PROVE  /\ \A m \in Modi : [t EXCEPT !.modus = m] \in Station
           /\ \A n \in Int : [t EXCEPT !.fragen = n] \in Station
           /\ \A f \in [Index -> 0 .. TeilnehmerServerFehlerZaehlerGrenze + 1] : [t EXCEPT !.fehler = f] \in Station
           /\ \A u \in [Index -> BOOLEAN] : [t EXCEPT !.sperrzeitUm = u] \in Station
           /\ \A k \in Socket : [t EXCEPT !.socket = k] \in Station
           /\ \A d \in Meldung : [t EXCEPT !.dyn = d] \in Station
           /\ \A c \in Selbst : [t EXCEPT !.selbst = c] \in Station
BY DEF Station

LEMMA FehlerGut ==
    ASSUME NEW t, Gut(t), NEW s \in Index
    PROVE  /\ Gut(FehlerSpeichern(t, s)) /\ Gut(ErfolgSpeichern(t, s))
           /\ FehlerSpeichern(t, s).socket = t.socket /\ ErfolgSpeichern(t, s).socket = t.socket
<1> DEFINE G == TeilnehmerServerFehlerZaehlerGrenze
           x == t.fehler[s]
           u == [t.sperrzeitUm EXCEPT ![s] = FALSE]
           f == [t.fehler EXCEPT ![s] = IF x < G THEN x + 2 ELSE x]
           e == [t.fehler EXCEPT ![s] = IF x > 0 THEN x - 1 ELSE 0]
           F == [[t EXCEPT !.sperrzeitUm = u] EXCEPT !.fehler = f]
           E == [[t EXCEPT !.sperrzeitUm = u] EXCEPT !.fehler = e]
<1>1. t \in Station /\ G \in Nat BY Groessen DEF Gut
<1>2. t.fehler \in [Index -> 0 .. G + 1] /\ t.sperrzeitUm \in [Index -> BOOLEAN] BY <1>1 DEF Station
<1>3. x \in 0 .. G + 1 BY <1>2
<1>4. u \in [Index -> BOOLEAN] BY <1>2
<1>5. (IF x < G THEN x + 2 ELSE x) \in 0 .. G + 1 /\ (IF x > 0 THEN x - 1 ELSE 0) \in 0 .. G + 1 BY <1>1, <1>3
<1>6. f \in [Index -> 0 .. G + 1] /\ e \in [Index -> 0 .. G + 1] BY <1>2, <1>5
<1>7. FehlerSpeichern(t, s) = F /\ ErfolgSpeichern(t, s) = E
  BY <1>1 DEF FehlerSpeichern, ErfolgSpeichern, Station
<1>8. /\ F.selbst = t.selbst /\ E.selbst = t.selbst /\ F.socket = t.socket /\ E.socket = t.socket
  BY <1>1 DEF Station
<1>9. F \in Station /\ E \in Station
  <2> HIDE DEF u, f, e
  <2>1. [t EXCEPT !.sperrzeitUm = u] \in Station BY <1>1, <1>4, Gesetzt
  <2> QED BY <1>6, <2>1, Gesetzt
<1> HIDE DEF F, E
<1> QED BY <1>7, <1>8, <1>9 DEF Gut

LEMMA VersuchtGut ==
    ASSUME NEW t, Gut(t), NEW s \in Index
    PROVE  Gut(Versucht(t, s))
<1>1. CASE t.socket.bei # 0 \/ ~Verfuegbar(t, s) BY <1>1 DEF Versucht
<1>2. CASE ~(t.socket.bei # 0 \/ ~Verfuegbar(t, s)) /\ s \notin diNetz.erreichbar
  <2>1. Versucht(t, s) = FehlerSpeichern(t, s) BY <1>2 DEF Versucht
  <2> QED BY <2>1, FehlerGut
<1>3. CASE ~(t.socket.bei # 0 \/ ~Verfuegbar(t, s)) /\ s \in diNetz.erreichbar
  <2> DEFINE e == ErfolgSpeichern(t, s)
  <2>1. Versucht(t, s) = [e EXCEPT !.socket = SocketBei(s)] BY <1>3 DEF Versucht
  <2>2. Gut(e) BY FehlerGut
  <2> HIDE DEF e
  <2>3. e \in Station BY <2>2 DEF Gut
  <2>4. [e EXCEPT !.socket = SocketBei(s)] \in Station BY <2>3, Gesetzt, LeererSocket
  <2>5. [e EXCEPT !.socket = SocketBei(s)].selbst = e.selbst BY <2>3 DEF Station
  <2> QED BY <2>1, <2>2, <2>4, <2>5 DEF Gut
<1> QED BY <1>1, <1>2, <1>3

LEMMA GeoeffnetGut ==
    ASSUME NEW t, Gut(t)
    PROVE  Gut(Geoeffnet(t))
<1> DEFINE N == ANZ_TEILNEHMER_SERVER
           Folge(f, n) == f = [s \in 0 .. n |-> IF s = 0 THEN t ELSE Versucht(f[s - 1], s)]
           T == {n \in Nat : \E f : Folge(f, n)}
           v == CHOOSE f : Folge(f, N)
           U == {n \in Nat : n <= N => Gut(v[n])}
<1>1. 0 \in T
  <2> DEFINE f == [s \in 0 .. 0 |-> t]
  <2>1. f = [s \in 0 .. 0 |-> IF s = 0 THEN t ELSE Versucht(f[s - 1], s)] OBVIOUS
  <2>2. Folge(f, 0) BY <2>1
  <2> QED BY <2>2
<1>2. ASSUME NEW n \in Nat, n \in T PROVE n + 1 \in T
  <2>1. PICK f : Folge(f, n) BY <1>2
  <2> DEFINE g == [s \in 0 .. n + 1 |-> IF s <= n THEN f[s] ELSE Versucht(f[n], n + 1)]
             h == [s \in 0 .. n + 1 |-> IF s = 0 THEN t ELSE Versucht(g[s - 1], s)]
  <2>2. ASSUME NEW s \in 0 .. n + 1 PROVE g[s] = h[s]
    <3>1. CASE s = 0
      <4>1. g[s] = f[0] /\ h[s] = t BY <3>1
      <4>2. f[0] = t BY <2>1
      <4> QED BY <4>1, <4>2
    <3>2. CASE s \in 1 .. n
      <4>1. s # 0 /\ s <= n /\ s - 1 \in 0 .. n + 1 /\ s - 1 <= n /\ s \in 0 .. n BY <3>2
      <4>2. g[s] = f[s] /\ g[s - 1] = f[s - 1] BY <4>1
      <4>3. h[s] = Versucht(g[s - 1], s) BY <4>1
      <4>4. f[s] = Versucht(f[s - 1], s) BY <2>1, <4>1
      <4> QED BY <4>2, <4>3, <4>4
    <3>3. CASE s = n + 1
      <4>1. s # 0 /\ ~(s <= n) /\ s - 1 = n /\ n \in 0 .. n + 1 /\ n <= n BY <3>3
      <4>2. g[s] = Versucht(f[n], n + 1) /\ g[n] = f[n] BY <4>1
      <4>3. h[s] = Versucht(g[n], s) BY <4>1
      <4> QED BY <3>3, <4>2, <4>3
    <3> QED BY <3>1, <3>2, <3>3
  <2>3. g = h
    <3>1. DOMAIN g = 0 .. n + 1 /\ DOMAIN h = 0 .. n + 1 OBVIOUS
    <3>2. g = [s \in 0 .. n + 1 |-> g[s]] /\ h = [s \in 0 .. n + 1 |-> h[s]] OBVIOUS
    <3> HIDE DEF g, h
    <3> QED BY <2>2, <3>1, <3>2
  <2> HIDE DEF g
  <2>4. Folge(g, n + 1) BY <2>3
  <2> QED BY <2>4
<1>3. N \in Nat BY Groessen
<1>4. N \in T
  <2> HIDE DEF T
  <2> QED BY <1>1, <1>2, <1>3, AlleZahlen
<1>5. Folge(v, N) BY <1>4
<1>6. Geoeffnet(t) = v[N] BY DEF Geoeffnet
<1> HIDE DEF v, T
<1>7. 0 \in U
  <2>1. v[0] = t BY <1>3, <1>5
  <2> QED BY <2>1
<1>8. ASSUME NEW n \in Nat, n \in U PROVE n + 1 \in U
  <2> SUFFICES ASSUME n + 1 <= N PROVE Gut(v[n + 1]) OBVIOUS
  <2>1. n <= N /\ n + 1 \in 0 .. N /\ n + 1 # 0 /\ (n + 1) - 1 = n BY <1>3
  <2>2. Gut(v[n]) BY <1>8, <2>1
  <2>3. v[n + 1] = Versucht(v[n], n + 1) BY <1>5, <2>1
  <2>4. n + 1 \in Index BY <1>3, <2>1 DEF Index
  <2> QED BY <2>2, <2>3, <2>4, VersuchtGut
<1>9. N \in U
  <2> HIDE DEF U
  <2> QED BY <1>3, <1>7, <1>8, AlleZahlen
<1> QED BY <1>3, <1>6, <1>9

LEMMA GefragtGut ==
    ASSUME NEW t, Gut(t), NEW f \in Fragen
    PROVE  Gut(Gefragt(t, f))
<1> DEFINE o == Geoeffnet(t)
           k == [o.socket EXCEPT !.hin = Append(@, f)]
<1>1. Gut(o) BY GeoeffnetGut
<1>2. Gefragt(t, f) = IF o.socket.offen THEN [o EXCEPT !.socket.hin = Append(@, f)] ELSE o BY DEF Gefragt
<1> HIDE DEF o
<1>3. o \in Station BY <1>1 DEF Gut
<1>4. o.socket \in Socket BY <1>3 DEF Station
<1>5. o.socket.hin \in Seq(Fragen) BY <1>4 DEF Socket
<1>6. Append(o.socket.hin, f) \in Seq(Fragen) BY <1>5
<1>7. k \in Socket BY <1>4, <1>6 DEF Socket
<1>8. [o EXCEPT !.socket.hin = Append(@, f)] = [o EXCEPT !.socket = k] BY <1>3, <1>4 DEF Station, Socket
<1> HIDE DEF k
<1>9. [o EXCEPT !.socket = k] \in Station BY <1>3, <1>7, Gesetzt
<1>10. [o EXCEPT !.socket = k].selbst = o.selbst BY <1>3 DEF Station
<1>11. Gut([o EXCEPT !.socket = k]) BY <1>1, <1>9, <1>10 DEF Gut
<1> QED BY <1>1, <1>2, <1>8, <1>11

LEMMA GutMit ==
    ASSUME NEW t, Gut(t)
    PROVE  /\ \A m \in Modi : Gut([t EXCEPT !.modus = m])
           /\ \A n \in Int : Gut([t EXCEPT !.fragen = n])
           /\ \A k \in Socket : Gut([t EXCEPT !.socket = k])
           /\ \A d \in Meldung : Gut([t EXCEPT !.dyn = d])
           /\ \A c \in Selbst : WartetMitHandle(c) => Gut([t EXCEPT !.selbst = c])
<1>1. t \in Station /\ WartetMitHandle(t.selbst) BY DEF Gut
<1>2. /\ \A m \in Modi : [t EXCEPT !.modus = m].selbst = t.selbst
      /\ \A n \in Int : [t EXCEPT !.fragen = n].selbst = t.selbst
      /\ \A k \in Socket : [t EXCEPT !.socket = k].selbst = t.selbst
      /\ \A d \in Meldung : [t EXCEPT !.dyn = d].selbst = t.selbst
      /\ \A c \in Selbst : [t EXCEPT !.selbst = c].selbst = c
  BY <1>1 DEF Station
<1> QED BY <1>1, <1>2, Gesetzt DEF Gut

LEMMA Teile ==
    ASSUME NEW t, Gut(t)
    PROVE  /\ t \in Station /\ t.modus \in Modi /\ t.fragen \in Int /\ t.socket \in Socket
           /\ t.dyn \in Meldung /\ t.selbst \in Selbst /\ WartetMitHandle(t.selbst)
BY DEF Gut, Station

(***************************************************************************)
(* The codes of the bus and the i-Telex socket.                            *)
(***************************************************************************)
LEMMA AbgefragtGut ==
    ASSUME NEW t, Gut(t), NEW r \in Abgefragt(t)
    PROVE  Gut(r)
<1> DEFINE g == Gefragt(t, "ABFRAGE")
<1>1. r = [g EXCEPT !.fragen = @ - 1] BY DEF Abgefragt
<1>2. Gut(g) BY GefragtGut DEF Fragen
<1> HIDE DEF g
<1>3. g.fragen - 1 \in Int BY <1>2, Teile
<1> QED BY <1>1, <1>2, <1>3, GutMit

LEMMA GesuchtGut ==
    ASSUME NEW t, Gut(t), NEW r \in Gesucht(t)
    PROVE  Gut(r)
<1> DEFINE g == Gefragt(t, "SUCHE")
           m == IF g.socket.bei # 0 THEN "NamensucheServerAbfrage" ELSE "NamensucheAusgabe"
<1>1. r = [g EXCEPT !.modus = m] BY DEF Gesucht
<1>2. Gut(g) BY GefragtGut DEF Fragen
<1>3. m \in Modi BY DEF Modi
<1> HIDE DEF g, m
<1> QED BY <1>1, <1>2, <1>3, GutMit

LEMMA AngekommenGut ==
    ASSUME NEW t, Gut(t), NEW w \in {"dieser", "frueherer"}
    PROVE  Gut(Angekommen(t, w))
<1> DEFINE c == [t.selbst EXCEPT !.empfang = IF t.selbst.phase = "WarteEmpfang" THEN w ELSE @]
           a == [t EXCEPT !.modus = "Schluss"]
           b == [a EXCEPT !.fragen = 0]
<1>1. t \in Station /\ t.selbst \in Selbst /\ WartetMitHandle(t.selbst) BY Teile
<1>2. c \in Selbst /\ WartetMitHandle(c) BY <1>1 DEF Selbst, WartetMitHandle
<1>3. Angekommen(t, w) = [b EXCEPT !.selbst = c] BY <1>1 DEF Angekommen, Station, Selbst
<1>4. Gut(a) BY GutMit DEF Modi
<1> HIDE DEF a, c
<1>5. Gut(b) BY <1>4, GutMit
<1> HIDE DEF b
<1> QED BY <1>2, <1>3, <1>5, GutMit

(***************************************************************************)
(* Reporting the address.                                                  *)
(***************************************************************************)
LEMMA MitFehlerGut ==
    ASSUME NEW t, Gut(t)
    PROVE  Gut(MitFehler(t))
<1> DEFINE d == [t.dyn EXCEPT !.phase = "Fehler", !.faellig = FALSE]
<1>1. t \in Station /\ t.dyn \in Meldung BY Teile
<1>2. d \in Meldung BY <1>1 DEF Meldung, Phasen
<1>3. MitFehler(t) = [t EXCEPT !.dyn = d] BY <1>1 DEF MitFehler, Station, Meldung
<1> HIDE DEF d
<1> QED BY <1>2, <1>3, GutMit

LEMMA AktualisierungGut ==
    ASSUME NEW t, Gut(t), NEW r \in Aktualisierung(t)
    PROVE  Gut(r)
<1> DEFINE g == Gefragt(t, "SELBSTAKT")
           d == [g.dyn EXCEPT !.phase = "LaeuftGerade", !.faellig = FALSE]
           f == FehlerSpeichern(g, g.socket.bei)
<1>1. Gut(g) BY GefragtGut DEF Fragen
<1>2. \/ r = t
      \/ r = MitFehler(g)
      \/ r = [g EXCEPT !.dyn.phase = "LaeuftGerade", !.dyn.faellig = FALSE]
      \/ g.socket.bei # 0 /\ r = MitFehler([f EXCEPT !.socket = KeinSocket])
  BY DEF Aktualisierung
<1> HIDE DEF g
<1>3. g \in Station /\ g.dyn \in Meldung /\ g.socket \in Socket BY <1>1, Teile
<1>4. CASE r = t BY <1>4
<1>5. CASE r = MitFehler(g) BY <1>1, <1>5, MitFehlerGut
<1>6. CASE r = [g EXCEPT !.dyn.phase = "LaeuftGerade", !.dyn.faellig = FALSE]
  <2>1. d \in Meldung BY <1>3 DEF Meldung, Phasen
  <2>2. r = [g EXCEPT !.dyn = d] BY <1>3, <1>6 DEF Station, Meldung
  <2> HIDE DEF d
  <2> QED BY <1>1, <2>1, <2>2, GutMit
<1>7. CASE g.socket.bei # 0 /\ r = MitFehler([f EXCEPT !.socket = KeinSocket])
  <2>1. g.socket.bei \in Index BY <1>3, <1>7 DEF Socket
  <2>2. Gut(f) BY <1>1, <2>1, FehlerGut
  <2> HIDE DEF f
  <2>3. Gut([f EXCEPT !.socket = KeinSocket]) BY <2>2, GutMit, LeererSocket
  <2> QED BY <1>7, <2>3, MitFehlerGut
<1> QED BY <1>2, <1>4, <1>5, <1>6, <1>7

(***************************************************************************)
(* The self call.                                                          *)
(***************************************************************************)
LEMMA BeendetGut ==
    ASSUME NEW t, Gut(t)
    PROVE  Gut(Beendet(t))
<1> DEFINE c == [t.selbst EXCEPT !.phase = "Ruhe", !.handle = "keins", !.faellig = FALSE, !.empfang = "nichts"]
<1>1. t \in Station /\ t.selbst \in Selbst BY Teile
<1>2. c \in Selbst /\ WartetMitHandle(c) BY <1>1 DEF Selbst, SelbstAnrufPhasen, WartetMitHandle
<1>3. Beendet(t) = [t EXCEPT !.selbst = c] BY <1>1 DEF Beendet, Station, Selbst
<1> HIDE DEF c
<1> QED BY <1>2, <1>3, GutMit

LEMMA VersagtGut ==
    ASSUME NEW t, Gut(t)
    PROVE  Gut(Versagt(t))
<1> DEFINE x == t.selbst.fehler
           c == [t.selbst EXCEPT !.fehler = IF x < DiAufgebenAb THEN x + 1 ELSE x]
<1>1. t \in Station /\ t.selbst \in Selbst /\ WartetMitHandle(t.selbst) BY Teile
<1>2. x \in 0 .. DiAufgebenAb /\ DiAufgebenAb \in Nat BY <1>1, Groessen DEF Selbst
<1>3. (IF x < DiAufgebenAb THEN x + 1 ELSE x) \in 0 .. DiAufgebenAb BY <1>2
<1>4. c \in Selbst /\ WartetMitHandle(c) BY <1>1, <1>3 DEF Selbst, WartetMitHandle
<1>5. Versagt(t) = [t EXCEPT !.selbst = c] BY <1>1 DEF Versagt, Station, Selbst
<1> HIDE DEF c
<1> QED BY <1>4, <1>5, GutMit

LEMMA BegonnenGut ==
    ASSUME NEW t, Gut(t), NEW r \in Begonnen(t)
    PROVE  Gut(r)
<1> DEFINE c1 == [t.selbst EXCEPT !.faellig = FALSE]
           c2 == [t.selbst EXCEPT !.phase = "Sperre"]
           c3 == [t.selbst EXCEPT !.faellig = FALSE, !.empfang = "nichts"]
           c4 == [t.selbst EXCEPT !.phase = "WarteEmpfang", !.handle = "offen", !.faellig = FALSE,
                                  !.empfang = "nichts"]
           v == [t EXCEPT !.selbst = c3]
<1>1. t \in Station /\ t.selbst \in Selbst /\ WartetMitHandle(t.selbst) BY Teile
<1>2. CASE t.selbst.phase # "Ruhe" \/ t.selbst.handle # "keins" \/ ~t.selbst.periode
  BY <1>2 DEF Begonnen
<1>3. CASE ~(t.selbst.phase # "Ruhe" \/ t.selbst.handle # "keins" \/ ~t.selbst.periode)
  <2>1. t.selbst.phase = "Ruhe" /\ t.selbst.handle = "keins" BY <1>3
  <2>2. /\ c1 \in Selbst /\ c2 \in Selbst /\ c3 \in Selbst /\ c4 \in Selbst
    BY <1>1 DEF Selbst, SelbstAnrufPhasen
  <2>3. /\ WartetMitHandle(c1) /\ WartetMitHandle(c2) /\ WartetMitHandle(c3) /\ WartetMitHandle(c4)
    BY <1>1, <2>1 DEF Selbst, WartetMitHandle
  <2>4. \/ r = t
        \/ r = [t EXCEPT !.selbst.faellig = FALSE]
        \/ r = [t EXCEPT !.selbst.phase = "Sperre"]
        \/ r = Versagt([t EXCEPT !.selbst.faellig = FALSE, !.selbst.empfang = "nichts"])
        \/ r = [t EXCEPT !.selbst = c4]
    BY DEF Begonnen
  <2>5. /\ [t EXCEPT !.selbst.faellig = FALSE] = [t EXCEPT !.selbst = c1]
        /\ [t EXCEPT !.selbst.phase = "Sperre"] = [t EXCEPT !.selbst = c2]
        /\ [t EXCEPT !.selbst.faellig = FALSE, !.selbst.empfang = "nichts"] = v
    BY <1>1 DEF Station, Selbst
  <2> HIDE DEF c1, c2, c3, c4
  <2>6. Gut(v) BY <2>2, <2>3, GutMit
  <2> HIDE DEF v
  <2>7. Gut(Versagt(v)) BY <2>6, VersagtGut
  <2>8. Gut([t EXCEPT !.selbst = c1]) /\ Gut([t EXCEPT !.selbst = c2]) /\ Gut([t EXCEPT !.selbst = c4])
    BY <2>2, <2>3, GutMit
  <2> QED BY <2>4, <2>5, <2>7, <2>8
<1> QED BY <1>2, <1>3

LEMMA AusgewertetGut ==
    ASSUME NEW t, Gut(t), NEW r \in Ausgewertet(t)
    PROVE  Gut(r)
<1> DEFINE b == Beendet(t)
           c == [b.selbst EXCEPT !.fehler = 0]
           d == [b.dyn EXCEPT !.phase = IF @ = "Unbestaetigt" THEN "Bestaetigt" ELSE @]
           v == Versagt(t)
           e == [b EXCEPT !.selbst = c]
<1>1. \/ r = t \/ r = b \/ r = Beendet(v)
      \/ r = [b EXCEPT !.selbst.fehler = 0, !.dyn.phase = IF @ = "Unbestaetigt" THEN "Bestaetigt" ELSE @]
  BY DEF Ausgewertet
<1>2. Gut(b) /\ Gut(v) BY BeendetGut, VersagtGut
<1> HIDE DEF b, v
<1>3. b \in Station /\ b.selbst \in Selbst /\ WartetMitHandle(b.selbst) /\ b.dyn \in Meldung BY <1>2, Teile
<1>4. c \in Selbst /\ WartetMitHandle(c) BY <1>3, Groessen DEF Selbst, WartetMitHandle
<1>5. d \in Meldung BY <1>3 DEF Meldung, Phasen
<1>6. [b EXCEPT !.selbst.fehler = 0, !.dyn.phase = IF @ = "Unbestaetigt" THEN "Bestaetigt" ELSE @]
         = [e EXCEPT !.dyn = d]
  BY <1>3 DEF Station, Selbst, Meldung
<1> HIDE DEF c, d
<1>7. Gut(e) BY <1>2, <1>4, GutMit
<1> HIDE DEF e
<1>8. Gut([e EXCEPT !.dyn = d]) BY <1>5, <1>7, GutMit
<1>9. Gut(Beendet(v)) BY <1>2, BeendetGut
<1> QED BY <1>1, <1>2, <1>6, <1>8, <1>9

LEMMA GefolgertGut ==
    ASSUME NEW t, Gut(t)
    PROVE  Gut(Gefolgert(t))
<1> DEFINE c == [t.selbst EXCEPT !.phase = "Sperre"]
           k == [t.selbst EXCEPT !.phase = "Sperre", !.periode = FALSE]
           d == [t.dyn EXCEPT !.phase = "Erneuern"]
           e == [t EXCEPT !.selbst = c]
<1>1. t \in Station /\ t.selbst \in Selbst /\ WartetMitHandle(t.selbst) /\ t.dyn \in Meldung BY Teile
<1>2. CASE t.selbst.phase # "Ruhe" BY <1>2 DEF Gefolgert
<1>3. CASE t.selbst.phase = "Ruhe"
  <2>1. c \in Selbst /\ WartetMitHandle(c) /\ k \in Selbst /\ WartetMitHandle(k)
    BY <1>1, <1>3 DEF Selbst, SelbstAnrufPhasen, WartetMitHandle
  <2>2. d \in Meldung BY <1>1 DEF Meldung, Phasen
  <2>3. Gefolgert(t) \in {t, [t EXCEPT !.selbst.phase = "Sperre", !.dyn.phase = "Erneuern"],
                          [t EXCEPT !.selbst.phase = "Sperre", !.selbst.periode = FALSE]}
    BY DEF Gefolgert
  <2>7. [t EXCEPT !.selbst.phase = "Sperre", !.dyn.phase = "Erneuern"] = [e EXCEPT !.dyn = d]
    BY <1>1 DEF Station, Selbst, Meldung
  <2>8. [t EXCEPT !.selbst.phase = "Sperre", !.selbst.periode = FALSE] = [t EXCEPT !.selbst = k]
    BY <1>1 DEF Station, Selbst
  <2>4. /\ [t EXCEPT !.selbst.phase = "Sperre", !.dyn.phase = "Erneuern"] = [e EXCEPT !.dyn = d]
        /\ [t EXCEPT !.selbst.phase = "Sperre", !.selbst.periode = FALSE] = [t EXCEPT !.selbst = k]
    BY <2>7, <2>8
  <2> HIDE DEF c, d, k
  <2>5. Gut(e) /\ Gut([t EXCEPT !.selbst = k]) BY <2>1, GutMit
  <2> HIDE DEF e
  <2>6. Gut([e EXCEPT !.dyn = d]) BY <2>2, <2>5, GutMit
  <2> QED BY <2>3, <2>4, <2>5, <2>6
<1> QED BY <1>2, <1>3

LEMMA FaelligGut ==
    ASSUME NEW t, Gut(t)
    PROVE  Gut(Faellig(t)) /\ Gut(SocketFort(t))
<1> DEFINE d == [t.dyn EXCEPT !.phase = "Erneuern"]
<1>1. t \in Station /\ t.dyn \in Meldung BY Teile
<1>2. d \in Meldung BY <1>1 DEF Meldung, Phasen
<1>3. Faellig(t) = t \/ Faellig(t) = [t EXCEPT !.dyn = d] BY <1>1 DEF Faellig, Station, Meldung
<1> HIDE DEF d
<1>4. Gut(Faellig(t)) BY <1>2, <1>3, GutMit
<1>5. Gut(SocketFort(t)) BY BeendetGut DEF SocketFort
<1> QED BY <1>4, <1>5

LEMMA SelbstanrufGut ==
    ASSUME NEW t, Gut(t), NEW r \in Selbstanruf(t)
    PROVE  Gut(r)
<1>1. CASE t.dyn.phase = "Inaktiv" BY <1>1, FaelligGut DEF Selbstanruf
<1>2. CASE t.dyn.phase # "Inaktiv"
  <2>1. PICK s \in Begonnen(t) : r \in {SocketFort(Faellig(Gefolgert(a))) : a \in Ausgewertet(s)}
    BY <1>2 DEF Selbstanruf
  <2>2. PICK a \in Ausgewertet(s) : r = SocketFort(Faellig(Gefolgert(a))) BY <2>1
  <2>3. Gut(s) BY BegonnenGut
  <2>4. Gut(a) BY <2>3, AusgewertetGut
  <2>5. Gut(Gefolgert(a)) BY <2>4, GefolgertGut
  <2>6. Gut(Faellig(Gefolgert(a))) BY <2>5, FaelligGut
  <2> QED BY <2>2, <2>6, FaelligGut
<1> QED BY <1>1, <1>2

(***************************************************************************)
(* The answers.                                                            *)
(***************************************************************************)
LEMMA AbgewiesenGut ==
    ASSUME NEW d \in Meldung
    PROVE  Abgewiesen(d) \in Meldung
<1>1. d.falsch \in 0 .. DiGeheimzahlGrenze /\ DiGeheimzahlGrenze \in Nat BY Groessen DEF Meldung
<1>2. CASE d.falsch < DiGeheimzahlGrenze
  <2>1. d.falsch + 1 \in 0 .. DiGeheimzahlGrenze BY <1>1, <1>2
  <2>2. Abgewiesen(d) = [d EXCEPT !.falsch = d.falsch + 1] BY <1>2 DEF Abgewiesen
  <2> QED BY <2>1, <2>2 DEF Meldung
<1>3. CASE ~(d.falsch < DiGeheimzahlGrenze) BY <1>3 DEF Abgewiesen, Meldung, Phasen
<1> QED BY <1>2, <1>3

LEMMA GelesenGut ==
    ASSUME NEW t, Gut(t), NEW a \in Antwort
    PROVE  Gut(Gelesen(t, a))
<1> DEFINE d1 == [t.dyn EXCEPT !.eigene = a.ip, !.phase = "Unbestaetigt", !.falsch = 0, !.faellig = FALSE]
           c1 == [t.selbst EXCEPT !.fehler = IF a.ip = t.dyn.eigene THEN @ ELSE 0, !.faellig = FALSE,
                                  !.phase = IF @ = "Sperre" THEN "Ruhe" ELSE @]
           d2 == [t.dyn EXCEPT !.faellig = FALSE]
           d3 == Abgewiesen(d2)
           c3 == [t.selbst EXCEPT !.phase = IF @ = "Ruhe" THEN "Sperre" ELSE @]
           e1 == [t EXCEPT !.dyn = d1]
           e3 == [t EXCEPT !.dyn = d3]
           abgewiesen == a.code = "FEHLER" /\ ~Sucht(t) /\ t.dyn.phase = "LaeuftGerade"
           egal == a.code = "FEHLER" /\ (Sucht(t) \/ t.dyn.phase # "LaeuftGerade")
<1>1. t \in Station /\ t.selbst \in Selbst /\ WartetMitHandle(t.selbst) /\ t.dyn \in Meldung BY Teile
<1>2. a.ip \in {0} \cup IPAdr BY DEF Antwort
<1>13. 0 \in 0 .. DiGeheimzahlGrenze /\ 0 \in 0 .. DiAufgebenAb BY Groessen
<1>3. d1 \in Meldung BY <1>1, <1>2, <1>13 DEF Meldung, Phasen
<1>4. d2 \in Meldung BY <1>1 DEF Meldung
<1>5. d3 \in Meldung
  <2> HIDE DEF d2
  <2> QED BY <1>4, AbgewiesenGut
<1>6. c1 \in Selbst BY <1>1, <1>13 DEF Selbst, SelbstAnrufPhasen
<1>7. c3 \in Selbst BY <1>1 DEF Selbst, SelbstAnrufPhasen
<1>8. WartetMitHandle(c1) /\ WartetMitHandle(c3) BY <1>1 DEF Selbst, WartetMitHandle
<1>9. CASE a.code = "IPRUECKMELD"
  <2>1. Gelesen(t, a) = [e1 EXCEPT !.selbst = c1] BY <1>1, <1>9 DEF Gelesen, Station, Selbst
  <2> HIDE DEF d1, c1
  <2>2. Gut(e1) BY <1>3, GutMit
  <2> HIDE DEF e1
  <2> QED BY <1>6, <1>8, <2>1, <2>2, GutMit
<1>10. CASE egal
  <2>1. Gelesen(t, a) = [t EXCEPT !.dyn = d2] BY <1>1, <1>10 DEF Gelesen, Station, Meldung
  <2> HIDE DEF d2
  <2> QED BY <1>4, <2>1, GutMit
<1>11. CASE abgewiesen
  <2>1. Gelesen(t, a) = [t EXCEPT !.dyn = Abgewiesen([@ EXCEPT !.faellig = FALSE]),
                                  !.selbst.phase = IF @ = "Ruhe" THEN "Sperre" ELSE @]
    BY <1>11 DEF Gelesen
  <2>2. [t EXCEPT !.dyn = Abgewiesen([@ EXCEPT !.faellig = FALSE]),
                  !.selbst.phase = IF @ = "Ruhe" THEN "Sperre" ELSE @] = [e3 EXCEPT !.selbst = c3]
    BY <1>1 DEF Station, Selbst
  <2> HIDE DEF d3, c3
  <2>3. Gut(e3) BY <1>5, GutMit
  <2> HIDE DEF e3
  <2> QED BY <1>7, <1>8, <2>1, <2>2, <2>3, GutMit
<1>12. CASE a.code # "IPRUECKMELD" /\ a.code # "FEHLER" BY <1>12 DEF Gelesen
<1> QED BY <1>9, <1>10, <1>11, <1>12

LEMMA BeantwortetGut ==
    ASSUME NEW t, Gut(t), NEW r \in Beantwortet(t)
    PROVE  Gut(r)
<1> DEFINE a == Head(t.socket.her)
           l == Gelesen(t, a)
           g == [l EXCEPT !.socket.her = << >>]
           gk == [l.socket EXCEPT !.her = << >>]
           h == [g EXCEPT !.socket.hin = Append(@, "QUITTUNG")]
           hk == [g.socket EXCEPT !.hin = Append(@, "QUITTUNG")]
           w == IF Sucht(t) /\ a.code = "AUSKUNFT" /\ g.socket.offen THEN h ELSE g
           M(m) == [w EXCEPT !.modus = m, !.socket = IF m = "NamensucheServerAbfrage" THEN @ ELSE KeinSocket]
<1>1. CASE t.socket.her = << >> BY <1>1 DEF Beantwortet
<1>2. CASE t.socket.her # << >>
  <2>1. PICK m \in ModusNach(t, a.code) : r = M(m) BY <1>2 DEF Beantwortet
  <2>2. t.modus \in Modi /\ t.socket \in Socket BY Teile
  <2>3. m \in Modi BY <2>2, <2>1 DEF ModusNach, Modi
  <2>4. t.socket.her \in Seq(Antwort) BY <2>2 DEF Socket
  <2>5. a \in Antwort BY <1>2, <2>4
  <2> HIDE DEF a
  <2>6. Gut(l) BY <2>5, GelesenGut
  <2> HIDE DEF l
  <2>7. l \in Station /\ l.socket \in Socket BY <2>6, Teile
  <2>8. << >> \in Seq(Antwort) OBVIOUS
  <2>9. gk \in Socket BY <2>7, <2>8 DEF Socket
  <2>10. g = [l EXCEPT !.socket = gk] BY <2>7 DEF Station, Socket
  <2> HIDE DEF gk, g
  <2>11. Gut(g) BY <2>6, <2>9, <2>10, GutMit
  <2>12. g \in Station /\ g.socket \in Socket BY <2>11, Teile
  <2>13. g.socket.hin \in Seq(Fragen) BY <2>12 DEF Socket
  <2>14. Append(g.socket.hin, "QUITTUNG") \in Seq(Fragen) BY <2>13 DEF Fragen
  <2>15. hk \in Socket BY <2>12, <2>14 DEF Socket
  <2>16. h = [g EXCEPT !.socket = hk] BY <2>12 DEF Station, Socket
  <2> HIDE DEF hk, h
  <2>17. Gut(h) BY <2>11, <2>15, <2>16, GutMit
  <2>18. Gut(w) BY <2>11, <2>17
  <2> HIDE DEF w
  <2> DEFINE k == IF m = "NamensucheServerAbfrage" THEN w.socket ELSE KeinSocket
             x == [w EXCEPT !.modus = m]
  <2>19. w \in Station /\ w.socket \in Socket BY <2>18, Teile
  <2>20. k \in Socket BY <2>19, LeererSocket
  <2>21. M(m) = [x EXCEPT !.socket = k] BY <2>19 DEF Station
  <2> HIDE DEF k, M
  <2>22. Gut(x) BY <2>3, <2>18, GutMit
  <2> HIDE DEF x
  <2> QED BY <2>1, <2>20, <2>21, <2>22, GutMit
<1> QED BY <1>1, <1>2

LEMMA GeschlossenGut ==
    ASSUME NEW t, Gut(t)
    PROVE  Gut(Geschlossen(t))
BY GutMit, LeererSocket DEF Geschlossen

(* At the end of a pass no report is under way without a socket.           *)
MitSocket(t) == t.dyn.phase = "LaeuftGerade" => t.socket.bei # 0

LEMMA OhneSocketGut ==
    ASSUME NEW t, Gut(t)
    PROVE  Gut(OhneSocket(t)) /\ MitSocket(OhneSocket(t))
<1> DEFINE d == [t.dyn EXCEPT !.phase = "Unbestaetigt", !.faellig = FALSE]
<1>1. t \in Station /\ t.dyn \in Meldung BY Teile
<1>2. CASE t.socket.bei = 0 /\ t.dyn.phase = "LaeuftGerade"
  <2>1. d \in Meldung /\ d.phase = "Unbestaetigt" BY <1>1 DEF Meldung, Phasen
  <2>2. OhneSocket(t) = [t EXCEPT !.dyn = d] BY <1>1, <1>2 DEF OhneSocket, Station, Meldung
  <2> HIDE DEF d
  <2>3. [t EXCEPT !.dyn = d].dyn = d BY <1>1 DEF Station
  <2> QED BY <2>1, <2>2, <2>3, GutMit DEF MitSocket
<1>3. CASE ~(t.socket.bei = 0 /\ t.dyn.phase = "LaeuftGerade") BY <1>3 DEF OhneSocket, MitSocket
<1> QED BY <1>2, <1>3

LEMMA AbgebrochenGut ==
    ASSUME NEW t, Gut(t)
    PROVE  Gut(Abgebrochen(t)) /\ Abgebrochen(t).dyn = t.dyn /\ Abgebrochen(t).socket.bei = t.socket.bei
<1> DEFINE k == IF t.socket.bei = 0 THEN t.socket ELSE [t.socket EXCEPT !.offen = FALSE, !.hin = << >>]
<1>1. t \in Station /\ t.socket \in Socket BY Teile
<1>2. << >> \in Seq(Fragen) OBVIOUS
<1>3. k \in Socket /\ k.bei = t.socket.bei BY <1>1, <1>2 DEF Socket
<1>4. Abgebrochen(t) = [t EXCEPT !.socket = k] BY DEF Abgebrochen
<1> HIDE DEF k
<1>5. [t EXCEPT !.socket = k].dyn = t.dyn /\ [t EXCEPT !.socket = k].socket = k BY <1>1 DEF Station
<1> QED BY <1>3, <1>4, <1>5, GutMit

(***************************************************************************)
(* The pass and the other steps.                                           *)
(***************************************************************************)
LEMMA DanachGut ==
    ASSUME NEW t, Gut(t), NEW U, U \subseteq {"dieser", "frueherer"}, Danach(t, U), diNetz \in Netz
    PROVE  Gut(diStation') /\ MitSocket(diStation') /\ diNetz' \in Netz
<1>1. PICK a \in Aktualisierung(t) : \E s \in Selbstanruf(a) : \E b \in Beantwortet(s) :
          /\ diStation' = OhneSocket(Geschlossen(b))
          /\ \E f \in {U, U \cup {"dieser"}, {"frueherer"}, {"frueherer"} \cup {"dieser"}} :
                diNetz' = [diNetz EXCEPT !.anruf = f]
  BY DEF Danach
<1>2. PICK s \in Selbstanruf(a) : \E b \in Beantwortet(s) :
          /\ diStation' = OhneSocket(Geschlossen(b))
          /\ \E f \in {U, U \cup {"dieser"}, {"frueherer"}, {"frueherer"} \cup {"dieser"}} :
                diNetz' = [diNetz EXCEPT !.anruf = f]
  BY <1>1
<1>3. PICK b \in Beantwortet(s) :
          /\ diStation' = OhneSocket(Geschlossen(b))
          /\ \E f \in {U, U \cup {"dieser"}, {"frueherer"}, {"frueherer"} \cup {"dieser"}} :
                diNetz' = [diNetz EXCEPT !.anruf = f]
  BY <1>2
<1>4. PICK f \in {U, U \cup {"dieser"}, {"frueherer"}, {"frueherer"} \cup {"dieser"}} :
          diNetz' = [diNetz EXCEPT !.anruf = f]
  BY <1>3
<1>5. f \in SUBSET {"dieser", "frueherer"} BY <1>4
<1>6. diNetz' \in Netz BY <1>4, <1>5 DEF Netz
<1>7. Gut(a) BY AktualisierungGut
<1>8. Gut(s) BY <1>7, SelbstanrufGut
<1>9. Gut(b) BY <1>8, BeantwortetGut
<1>10. Gut(Geschlossen(b)) BY <1>9, GeschlossenGut
<1>11. Gut(OhneSocket(Geschlossen(b))) /\ MitSocket(OhneSocket(Geschlossen(b))) BY <1>10, OhneSocketGut
<1> QED BY <1>3, <1>6, <1>11

LEMMA DurchlaufErhaelt == DiInv /\ Durchlauf => DiInv'
<1> SUFFICES ASSUME DiInv, Durchlauf PROVE DiInv' OBVIOUS
<1>1. Gut(diStation) /\ diNetz \in Netz /\ diNetz.anruf \subseteq {"dieser", "frueherer"} BY DEF DiInv, Netz
<1>2. CASE \E t \in Abgefragt(diStation) \cup Gesucht(diStation) \cup {diStation} : Danach(t, diNetz.anruf)
  <2>1. PICK t \in Abgefragt(diStation) \cup Gesucht(diStation) \cup {diStation} : Danach(t, diNetz.anruf) BY <1>2
  <2>2. Gut(t) BY <1>1, AbgefragtGut, GesuchtGut
  <2>3. Gut(diStation') /\ MitSocket(diStation') /\ diNetz' \in Netz BY <1>1, <2>1, <2>2, DanachGut
  <2> QED BY <2>3 DEF DiInv, MitSocket, LaeuftMitSocket
<1>3. CASE \E w \in diNetz.anruf :
              diStation.modus = "Ruhe" /\ Danach(Angekommen(diStation, w), diNetz.anruf \ {w})
  <2>1. PICK w \in diNetz.anruf : Danach(Angekommen(diStation, w), diNetz.anruf \ {w}) BY <1>3
  <2>2. w \in {"dieser", "frueherer"} /\ diNetz.anruf \ {w} \subseteq {"dieser", "frueherer"} BY <1>1
  <2>3. Gut(Angekommen(diStation, w)) BY <1>1, <2>2, AngekommenGut
  <2>4. Gut(diStation') /\ MitSocket(diStation') /\ diNetz' \in Netz BY <1>1, <2>1, <2>2, <2>3, DanachGut
  <2> QED BY <2>4 DEF DiInv, MitSocket, LaeuftMitSocket
<1> QED BY <1>2, <1>3 DEF Durchlauf

(* What leaves the report and its socket alone. *)
LEMMA GleicheMeldung ==
    ASSUME DiInv, Gut(diStation'), diNetz' \in Netz,
           diStation'.dyn.phase = diStation.dyn.phase, diStation'.socket.bei = diStation.socket.bei
    PROVE  DiInv'
BY DEF DiInv, LaeuftMitSocket

LEMMA KonfigurierenErhaelt ==
    ASSUME DiInv, NEW aktiv \in BOOLEAN, Konfigurieren(aktiv)
    PROVE  DiInv'
<1> DEFINE d == [diStation.dyn EXCEPT !.falsch = 0, !.phase = IF aktiv THEN "Bestaetigt" ELSE "Inaktiv"]
           c == [diStation.selbst EXCEPT !.fehler = 0, !.periode = TRUE, !.phase = IF @ = "Sperre" THEN "Ruhe" ELSE @]
           e == [diStation EXCEPT !.dyn = d]
<1>1. Gut(diStation) /\ diNetz \in Netz BY DEF DiInv
<1>2. /\ diStation \in Station /\ diStation.selbst \in Selbst /\ diStation.dyn \in Meldung
      /\ WartetMitHandle(diStation.selbst)
  BY <1>1, Teile
<1>3. 0 \in 0 .. DiGeheimzahlGrenze /\ 0 \in 0 .. DiAufgebenAb BY Groessen
<1>4. d \in Meldung /\ d.phase # "LaeuftGerade" BY <1>2, <1>3 DEF Meldung, Phasen
<1>5. c \in Selbst /\ WartetMitHandle(c) BY <1>2, <1>3 DEF Selbst, SelbstAnrufPhasen, WartetMitHandle
<1>6. diStation' = [e EXCEPT !.selbst = c] BY <1>2 DEF Konfigurieren, Station, Selbst
<1>7. e.dyn = d /\ [e EXCEPT !.selbst = c].dyn = d BY <1>2 DEF Station
<1> HIDE DEF d, c
<1>8. Gut(e) BY <1>1, <1>4, GutMit
<1> HIDE DEF e
<1>9. Gut(diStation') BY <1>5, <1>6, <1>8, GutMit
<1>10. diNetz' = diNetz BY DEF Konfigurieren
<1> QED BY <1>1, <1>4, <1>6, <1>7, <1>9, <1>10 DEF DiInv, LaeuftMitSocket

LEMMA LeitungGesetzt ==
    ASSUME DiInv, NEW m \in Modi, NEW n \in Int, diStation' = [diStation EXCEPT !.modus = m, !.fragen = n],
           diNetz' \in Netz
    PROVE  DiInv'
<1> DEFINE e == [diStation EXCEPT !.modus = m]
<1>1. Gut(diStation) BY DEF DiInv
<1>2. diStation \in Station BY <1>1 DEF Gut
<1>3. diStation' = [e EXCEPT !.fragen = n] BY <1>2 DEF Station
<1>4. diStation'.dyn = diStation.dyn /\ diStation'.socket = diStation.socket BY <1>2 DEF Station
<1>5. Gut(e) BY <1>1, GutMit
<1> HIDE DEF e
<1>6. \A i \in Int : Gut([e EXCEPT !.fragen = i]) BY <1>5, GutMit
<1>7. Gut(diStation') BY <1>3, <1>6
<1> QED BY <1>4, <1>7, GleicheMeldung

LEMMA LeitungErhaelt == DiInv /\ (LeitungFrei \/ \E m \in Modi : LeitungBelegt(m)) => DiInv'
<1> SUFFICES ASSUME DiInv, LeitungFrei \/ \E m \in Modi : LeitungBelegt(m) PROVE DiInv' OBVIOUS
<1>8. "Ruhe" \in Modi /\ 0 \in Int /\ DiMaxFragen \in Int BY Groessen DEF Modi
<1>9. CASE LeitungFrei
  <2>1. diStation' = [diStation EXCEPT !.modus = "Ruhe", !.fragen = 0] /\ diNetz' = diNetz BY <1>9 DEF LeitungFrei
  <2> QED BY <1>8, <2>1, LeitungGesetzt DEF DiInv
<1>10. CASE \E m \in Modi : LeitungBelegt(m)
  <2>1. PICK m \in Modi : LeitungBelegt(m) BY <1>10
  <2>2. diStation' = [diStation EXCEPT !.modus = m, !.fragen = DiMaxFragen] /\ diNetz' = diNetz
    BY <2>1 DEF LeitungBelegt
  <2> QED BY <1>8, <2>2, LeitungGesetzt DEF DiInv
<1> QED BY <1>9, <1>10

LEMMA UhrenErhalten == DiInv /\ (UhrDyn \/ UhrSelbst \/ \E s \in Index : UhrSperre(s)) => DiInv'
<1> SUFFICES ASSUME DiInv, UhrDyn \/ UhrSelbst \/ \E s \in Index : UhrSperre(s) PROVE DiInv' OBVIOUS
<1> DEFINE d == [diStation.dyn EXCEPT !.faellig = TRUE]
           c == [diStation.selbst EXCEPT !.faellig = TRUE]
<1>1. Gut(diStation) /\ diNetz \in Netz BY DEF DiInv
<1>2. /\ diStation \in Station /\ diStation.selbst \in Selbst /\ diStation.dyn \in Meldung
      /\ WartetMitHandle(diStation.selbst)
  BY <1>1, Teile
<1>3. CASE UhrDyn
  <2>1. diStation' = [diStation EXCEPT !.dyn = d] /\ diNetz' = diNetz BY <1>2, <1>3 DEF UhrDyn, Station, Meldung
  <2>2. d \in Meldung /\ d.phase = diStation.dyn.phase BY <1>2 DEF Meldung
  <2> HIDE DEF d
  <2>3. diStation'.dyn = d /\ diStation'.socket = diStation.socket BY <1>2, <2>1 DEF Station
  <2>4. Gut(diStation') BY <1>1, <2>1, <2>2, GutMit
  <2> QED BY <1>1, <2>1, <2>2, <2>3, <2>4, GleicheMeldung
<1>4. CASE UhrSelbst
  <2>1. diStation' = [diStation EXCEPT !.selbst = c] /\ diNetz' = diNetz BY <1>2, <1>4 DEF UhrSelbst, Station, Selbst
  <2>2. c \in Selbst /\ WartetMitHandle(c) BY <1>2 DEF Selbst, WartetMitHandle
  <2> HIDE DEF c
  <2>3. diStation'.dyn = diStation.dyn /\ diStation'.socket = diStation.socket BY <1>2, <2>1 DEF Station
  <2>4. Gut(diStation') BY <1>1, <2>1, <2>2, GutMit
  <2> QED BY <1>1, <2>1, <2>3, <2>4, GleicheMeldung
<1>5. CASE \E s \in Index : UhrSperre(s)
  <2>1. PICK s \in Index : UhrSperre(s) BY <1>5
  <2> DEFINE u == [diStation.sperrzeitUm EXCEPT ![s] = TRUE]
  <2>2. diStation' = [diStation EXCEPT !.sperrzeitUm = u] /\ diNetz' = diNetz BY <1>2, <2>1 DEF UhrSperre, Station
  <2>3. u \in [Index -> BOOLEAN] BY <1>2 DEF Station
  <2> HIDE DEF u
  <2>4. /\ diStation'.dyn = diStation.dyn /\ diStation'.socket = diStation.socket
        /\ diStation'.selbst = diStation.selbst
    BY <1>2, <2>2 DEF Station
  <2>5. diStation' \in Station BY <1>2, <2>2, <2>3, Gesetzt
  <2>6. Gut(diStation') BY <1>1, <2>4, <2>5 DEF Gut
  <2> QED BY <1>1, <2>2, <2>4, <2>6, GleicheMeldung
<1> QED BY <1>3, <1>4, <1>5

LEMMA AntwortetErhaelt == DiInv /\ Antwortet => DiInv'
<1> SUFFICES ASSUME DiInv, Antwortet PROVE DiInv' OBVIOUS
<1>1. PICK code \in Antworten :
          /\ diStation' = [diStation EXCEPT !.socket.hin = Tail(@),
                 !.socket.her = Append(@, [code |-> code, ip |-> IF code = "IPRUECKMELD" THEN diNetz.wahr ELSE 0])]
          /\ diNetz' = IF code = "IPRUECKMELD" THEN [diNetz EXCEPT !.kennt = diNetz.wahr] ELSE diNetz
          /\ diStation.socket.hin # << >>
  BY DEF Antwortet, Antworten
<1> DEFINE a == [code |-> code, ip |-> IF code = "IPRUECKMELD" THEN diNetz.wahr ELSE 0]
           k == [diStation.socket EXCEPT !.hin = Tail(@), !.her = Append(@, a)]
<1>2. Gut(diStation) /\ diNetz \in Netz BY DEF DiInv
<1>3. diStation \in Station /\ diStation.socket \in Socket BY <1>2, Teile
<1>4. diNetz.wahr \in IPAdr BY <1>2 DEF Netz
<1>5. diNetz' \in Netz BY <1>1, <1>2, <1>4 DEF Netz
<1>6. a \in Antwort BY <1>4 DEF Antwort
<1>7. diStation' = [diStation EXCEPT !.socket = k] BY <1>1, <1>3 DEF Station, Socket
<1> HIDE DEF a
<1>8. diStation.socket.hin \in Seq(Fragen) /\ diStation.socket.her \in Seq(Antwort) BY <1>3 DEF Socket
<1>9. Tail(diStation.socket.hin) \in Seq(Fragen) BY <1>1, <1>8
<1>10. Append(diStation.socket.her, a) \in Seq(Antwort) BY <1>6, <1>8
<1>11. k \in Socket /\ k.bei = diStation.socket.bei BY <1>3, <1>9, <1>10 DEF Socket
<1> HIDE DEF k
<1>12. diStation'.dyn = diStation.dyn /\ diStation'.socket = k BY <1>3, <1>7 DEF Station
<1>13. Gut(diStation') BY <1>2, <1>7, <1>11, GutMit
<1> QED BY <1>5, <1>11, <1>12, <1>13, GleicheMeldung

LEMMA NetzErhaelt ==
    DiInv /\ (Abbruch \/ (\E s \in Index : Ausfall(s) \/ Wiederkehr(s)) \/ (\E ip \in IPAdr : Adresswechsel(ip))
              \/ SelbstAnrufAbbruch \/ TelegrammVerloren)
        => DiInv'
<1> SUFFICES ASSUME DiInv, Abbruch \/ (\E s \in Index : Ausfall(s) \/ Wiederkehr(s))
                           \/ (\E ip \in IPAdr : Adresswechsel(ip)) \/ SelbstAnrufAbbruch \/ TelegrammVerloren
             PROVE DiInv'
  OBVIOUS
<1>1. Gut(diStation) /\ diNetz \in Netz BY DEF DiInv
<1>2. /\ diStation \in Station /\ diStation.selbst \in Selbst /\ WartetMitHandle(diStation.selbst)
  BY <1>1, Teile
<1>3. /\ Gut(Abgebrochen(diStation)) /\ Abgebrochen(diStation).dyn = diStation.dyn
      /\ Abgebrochen(diStation).socket.bei = diStation.socket.bei
  BY <1>1, AbgebrochenGut
<1>4. CASE Abbruch
  <2>1. diStation' = Abgebrochen(diStation) /\ diNetz' = diNetz BY <1>4 DEF Abbruch
  <2> QED BY <1>1, <1>3, <2>1, GleicheMeldung
<1>5. CASE \E s \in Index : Ausfall(s) \/ Wiederkehr(s)
  <2>1. PICK s \in Index : Ausfall(s) \/ Wiederkehr(s) BY <1>5
  <2>2. diStation' = diStation BY <2>1 DEF Ausfall, Wiederkehr
  <2>3. diNetz' \in Netz BY <1>1, <2>1 DEF Ausfall, Wiederkehr, Netz
  <2> QED BY <1>1, <2>2, <2>3, GleicheMeldung
<1>6. CASE \E ip \in IPAdr : Adresswechsel(ip)
  <2>1. diStation' = Abgebrochen(diStation) BY <1>6 DEF Adresswechsel
  <2>2. diNetz' \in Netz BY <1>1, <1>6 DEF Adresswechsel, Netz
  <2> QED BY <1>3, <2>1, <2>2, GleicheMeldung
<1>7. CASE SelbstAnrufAbbruch
  <2> DEFINE c == [diStation.selbst EXCEPT !.handle = "zu"]
  <2>1. diStation' = [diStation EXCEPT !.selbst = c] /\ diNetz' = diNetz
    BY <1>2, <1>7 DEF SelbstAnrufAbbruch, Station, Selbst
  <2>2. c \in Selbst /\ WartetMitHandle(c) BY <1>2, <1>7 DEF SelbstAnrufAbbruch, Selbst, WartetMitHandle
  <2> HIDE DEF c
  <2>3. diStation'.dyn = diStation.dyn /\ diStation'.socket = diStation.socket BY <1>2, <2>1 DEF Station
  <2>4. Gut(diStation') BY <1>1, <2>1, <2>2, GutMit
  <2> QED BY <1>1, <2>1, <2>3, <2>4, GleicheMeldung
<1>8. CASE TelegrammVerloren
  <2>1. diStation' = diStation BY <1>8 DEF TelegrammVerloren
  <2>2. diNetz' \in Netz BY <1>1, <1>8 DEF TelegrammVerloren, Netz
  <2> QED BY <1>1, <2>1, <2>2, GleicheMeldung
<1> QED BY <1>4, <1>5, <1>6, <1>7, <1>8

(***************************************************************************)
(* The theorems.                                                           *)
(***************************************************************************)
LEMMA AmAnfang == DiInit => DiInv
<1> SUFFICES ASSUME DiInit PROVE DiInv OBVIOUS
<1>1. 0 \in 0 .. TeilnehmerServerFehlerZaehlerGrenze + 1 /\ 0 \in 0 .. DiGeheimzahlGrenze /\ 0 \in 0 .. DiAufgebenAb
  BY Groessen
<1>2. 1 \in IPAdr BY Groessen DEF IPAdr
<1>3. diNetz \in Netz BY <1>2 DEF DiInit, Netz
<1>4. [s \in Index |-> 0] \in [Index -> 0 .. TeilnehmerServerFehlerZaehlerGrenze + 1] BY <1>1
<1>5. diStation.selbst \in Selbst /\ WartetMitHandle(diStation.selbst)
  BY <1>1 DEF DiInit, Selbst, SelbstAnrufPhasen, WartetMitHandle
<1>6. diStation.dyn \in Meldung /\ diStation.dyn.phase = "Fehler" BY <1>1 DEF DiInit, Meldung, Phasen
<1>7. diStation.socket \in Socket BY LeererSocket DEF DiInit
<1>8. diStation = [modus |-> "Ruhe", fragen |-> 0, fehler |-> [s \in Index |-> 0],
                   sperrzeitUm |-> [s \in Index |-> FALSE], socket |-> diStation.socket, dyn |-> diStation.dyn,
                   selbst |-> diStation.selbst]
  BY DEF DiInit
<1>10. [s \in Index |-> FALSE] \in [Index -> BOOLEAN] /\ "Ruhe" \in Modi /\ 0 \in Int BY DEF Modi
<1>9. diStation \in Station
  <2> DEFINE f == [s \in Index |-> 0]
             u == [s \in Index |-> FALSE]
  <2>1. diStation = [modus |-> "Ruhe", fragen |-> 0, fehler |-> f, sperrzeitUm |-> u,
                     socket |-> diStation.socket, dyn |-> diStation.dyn, selbst |-> diStation.selbst]
    BY <1>8
  <2>2. f \in [Index -> 0 .. TeilnehmerServerFehlerZaehlerGrenze + 1] /\ u \in [Index -> BOOLEAN] BY <1>4, <1>10
  <2> HIDE DEF f, u
  <2> QED BY <1>5, <1>6, <1>7, <1>10, <2>1, <2>2 DEF Station
<1> QED BY <1>3, <1>5, <1>6, <1>9 DEF DiInv, Gut, LaeuftMitSocket

LEMMA SchrittErhaelt == DiInv /\ [DiNext]_diVars => DiInv'
<1> SUFFICES ASSUME DiInv, [DiNext]_diVars PROVE DiInv' OBVIOUS
<1>1. CASE Durchlauf BY <1>1, DurchlaufErhaelt
<1>2. CASE \E m \in {"GehendWaehlen", "Kommend", "NamensucheEingabe"} : LeitungBelegt(m)
  BY <1>2, LeitungErhaelt DEF Modi
<1>3. CASE LeitungFrei BY <1>3, LeitungErhaelt
<1>4. CASE \E aktiv \in BOOLEAN : Konfigurieren(aktiv) BY <1>4, KonfigurierenErhaelt
<1>5. CASE UhrDyn \/ UhrSelbst \/ \E s \in Index : UhrSperre(s) BY <1>5, UhrenErhalten
<1>6. CASE Antwortet BY <1>6, AntwortetErhaelt
<1>7. CASE Abbruch \/ (\E s \in Index : Ausfall(s) \/ Wiederkehr(s)) \/ (\E ip \in IPAdr : Adresswechsel(ip))
           \/ SelbstAnrufAbbruch \/ TelegrammVerloren
  BY <1>7, NetzErhaelt
<1>8. CASE UNCHANGED diVars
  <2>1. diStation' = diStation /\ diNetz' = diNetz BY <1>8 DEF diVars
  <2> QED BY <2>1 DEF DiInv, LaeuftMitSocket
<1> QED BY <1>1, <1>2, <1>3, <1>4, <1>5, <1>6, <1>7, <1>8 DEF DiNext

LEMMA Immer == DiSpec => []DiInv
<1>1. DiInit => DiInv BY AmAnfang
<1>2. DiInv /\ [DiNext]_diVars => DiInv' BY SchrittErhaelt
<1> QED BY <1>1, <1>2, PTL DEF DiSpec

(* Error counters, refusals and failed self calls stay within their        *)
(* limits, and a self call waits for its telegram exactly as long as it    *)
(* has a handle (ProcessSelfCall, the error counters of the servers).      *)
THEOREM DiTypKorrekt == DiSpec => []DiTyp
<1>1. DiInv => DiTyp BY InvIstTyp
<1> QED BY <1>1, Immer, PTL

(* However the pass, the user, the configuration and the network follow    *)
(* each other, a report said to be under way has its socket (5123-5446).   *)
THEOREM LaeuftMitSocketGilt == DiSpec => []LaeuftMitSocket
<1>1. DiInv => LaeuftMitSocket BY DEF DiInv
<1> QED BY <1>1, Immer, PTL
=============================================================================
