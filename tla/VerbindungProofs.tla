------------------------- MODULE VerbindungProofs -------------------------
(***************************************************************************)
(* Theorems about Verbindung, for every value of its constants: any number *)
(* of sockets and remote stations, buffers of any size, every combination  *)
(* of the configuration switches.                                          *)
(*                                                                         *)
(* The inductive invariant is IInv.  It adds to the properties proved what *)
(* the mode machine relies on between its blocks: an entry in use and a    *)
(* running call have a real partner, data are decoded for a partner only,  *)
(* characters wait to be printed at a dialling station only between the    *)
(* decoding and the start of its terminal in one pass, the two sockets of  *)
(* the line have been accepted, and an accepted call that counts send      *)
(* errors has something to send.  With it goes what every step does to the *)
(* line as a whole (Erlaubt), from which the refinement follows.           *)
(*                                                                         *)
(* First come lemmas about the helpers.  A helper changes a few fields of  *)
(* the station; the lemmas say what becomes of the fields that the         *)
(* invariant reads, and that the result is a station: that a buffer has    *)
(* room for what the helper puts in, and something in it for what it takes *)
(* out.                                                                    *)
(***************************************************************************)
EXTENDS Verbindung, TcpSocketsProofs

(* If x has something to send while it counts errors, so has y. *)
Zaehlt(y, x) ==
    \/ y.fehler = 0 \/ y.out # << >>
    \/ x.out = << >> /\ y.fehler = x.fehler

(* y is a station with the connection of x. *)
GleicheVerbindung(y, x) ==
    /\ y \in Station
    /\ y.mode = x.mode /\ y.handle = x.handle /\ y.ip = x.ip /\ y.blind = x.blind
    /\ Zaehlt(y, x)

(* y differs from x in no field that the invariant reads. *)
Gleichwertig(y, x) == GleicheVerbindung(y, x) /\ y.modus = x.modus /\ y.druck = x.druck

(***************************************************************************)
(* Buffers of n places.                                                    *)
(***************************************************************************)
LEMMA BisTyp ==
    ASSUME NEW S, NEW n \in Nat, NEW s \in Bis(S, n)
    PROVE  s \in Seq(S) /\ Len(s) \in Nat /\ Len(s) <= n
BY DEF Bis

LEMMA BisLeer ==
    ASSUME NEW S, NEW n \in Nat
    PROVE  << >> \in Bis(S, n)
BY DEF Bis

LEMMA BisAnhang ==
    ASSUME NEW S, NEW n \in Nat, NEW s \in Bis(S, n), NEW e \in S
    PROVE  /\ Len(s) < n => Append(s, e) \in Bis(S, n)
           /\ Anhaengen(s, e, n) \in Bis(S, n)
           /\ s # << >> => Anhaengen(s, e, n) # << >>
<1>1. s \in Seq(S) /\ Len(s) \in Nat /\ Len(s) <= n BY DEF Bis
<1>2. Append(s, e) \in Seq(S) /\ Len(Append(s, e)) = Len(s) + 1 BY <1>1
<1>3. Len(s) < n => Append(s, e) \in Bis(S, n) BY <1>1, <1>2 DEF Bis
<1>4. Append(s, e) # << >>
  <2>1. Len(Append(s, e)) # 0 BY <1>1, <1>2
  <2>2. Len(<< >>) = 0 OBVIOUS
  <2> QED BY <2>1, <2>2
<1> QED BY <1>3, <1>4 DEF Anhaengen

LEMMA BisRest ==
    ASSUME NEW S, NEW n \in Nat, NEW s \in Bis(S, n), s # << >>
    PROVE  Tail(s) \in Bis(S, n) /\ s[1] \in S /\ Len(Tail(s)) < n
<1>1. s \in Seq(S) /\ Len(s) \in Nat /\ Len(s) <= n BY DEF Bis
<1>2. Tail(s) \in Seq(S) /\ Len(Tail(s)) = Len(s) - 1 /\ Len(s) >= 1 BY <1>1
<1>3. s[1] \in S BY <1>1, <1>2
<1> QED BY <1>1, <1>2, <1>3 DEF Bis

LEMMA Groessen == /\ SocketInBufMax \in Nat \ {0} /\ SocketOutBufMax \in Nat \ {0}
                  /\ MaxPuffer \in Nat \ {0} /\ TWIHandshakeNeu \in BOOLEAN
BY VerbindungAnnahme

LEMMA LeerTyp == /\ << >> \in Bis(Item, SocketInBufMax)
                 /\ << >> \in Bis(Partner, SocketOutBufMax)
                 /\ << >> \in Bis(Herkunft, MaxPuffer)
                 /\ << >> \in Bis(Partner, MaxPuffer)
BY Groessen, BisLeer

LEMMA PufferTyp ==
    ASSUME NEW x \in Station
    PROVE  /\ x.in \in Bis(Item, SocketInBufMax) /\ x.in \in Seq(Item)
           /\ x.out \in Bis(Partner, SocketOutBufMax) /\ x.out \in Seq(Partner)
           /\ x.druck \in Bis(Herkunft, MaxPuffer) /\ x.druck \in Seq(Herkunft)
           /\ x.ascii \in Bis(Herkunft, MaxPuffer) /\ x.ascii \in Seq(Herkunft)
           /\ x.tipp \in Bis(Partner, MaxPuffer) /\ x.tipp \in Seq(Partner)
<1>1. /\ x.in \in Bis(Item, SocketInBufMax) /\ x.out \in Bis(Partner, SocketOutBufMax)
      /\ x.druck \in Bis(Herkunft, MaxPuffer) /\ x.ascii \in Bis(Herkunft, MaxPuffer)
      /\ x.tipp \in Bis(Partner, MaxPuffer)
  BY DEF Station
<1> QED BY <1>1 DEF Bis

LEMMA ModusWechselTyp ==
    ASSUME NEW x \in Station, NEW neu \in TModus
    PROVE  LET y == ModusWechsel(x, neu)
           IN  /\ GleicheVerbindung(y, x)
               /\ y.modus = neu
               /\ y.druck = IF neu \in NeuerAnruf /\ neu # x.modus THEN << >> ELSE x.druck
               /\ neu \in NeuerAnruf /\ neu # x.modus => y.fehler = 0
<1> DEFINE druck == IF neu \in NeuerAnruf THEN << >> ELSE x.druck
           tipp == IF neu \in NeuerAnruf THEN << >> ELSE x.tipp
           fehler == IF neu \in NeuerAnruf THEN 0 ELSE x.fehler
           warte == x.warte /\ neu \notin OhneStartup
           prot == IF neu = "GehendReserv" THEN "iTelex" ELSE x.prot
           ziel == IF neu = "GehendWaehlen" THEN Niemand ELSE x.ziel
           ascii == IF neu \in {"Ruhe", "GehendReserv", "KommendVerbVorstufe",
                                "WarteGrundstellung"} THEN << >> ELSE x.ascii
           y == [x EXCEPT !.modus = neu, !.druck = druck, !.tipp = tipp, !.fehler = fehler,
                          !.warte = warte, !.prot = prot, !.ziel = ziel, !.ascii = ascii]
<1>1. /\ druck \in Bis(Herkunft, MaxPuffer) /\ tipp \in Bis(Partner, MaxPuffer)
      /\ ascii \in Bis(Herkunft, MaxPuffer)
  BY LeerTyp, PufferTyp
<1>2. fehler \in 0 .. 255 /\ fehler \in {x.fehler, 0} BY DEF Station
<1>3. /\ prot \in Protokolle /\ ziel \in Partner /\ warte \in BOOLEAN
      /\ neu \in NeuerAnruf => fehler = 0
  BY DEF Station, Protokolle, Partner
<1>4. ModusWechsel(x, neu) = IF neu = x.modus THEN x ELSE y BY DEF ModusWechsel
<1>5. druck = IF neu \in NeuerAnruf THEN << >> ELSE x.druck OBVIOUS
<1> HIDE DEF druck, tipp, fehler, prot, ziel, ascii, warte
<1>a. y \in Station BY <1>1, <1>2, <1>3 DEF Station
<1>b. /\ y.mode = x.mode /\ y.handle = x.handle /\ y.ip = x.ip /\ y.blind = x.blind
      /\ y.out = x.out /\ y.modus = neu /\ y.druck = druck /\ y.fehler = fehler
  BY DEF Station
<1> HIDE DEF y
<1>6. GleicheVerbindung(y, x) /\ y.modus = neu /\ y.druck = druck /\ y.fehler = fehler
  BY <1>2, <1>a, <1>b DEF GleicheVerbindung, Zaehlt
<1>7. GleicheVerbindung(x, x) BY DEF GleicheVerbindung, Zaehlt, Station
<1> QED BY <1>3, <1>4, <1>5, <1>6, <1>7

LEMMA InSocketOutBufTyp ==
    ASSUME NEW x \in Station
    PROVE  Gleichwertig(InSocketOutBuf(x), x)
<1> DEFINE o == Anhaengen(x.out, x.ip, SocketOutBufMax)
<1>1. x.ip \in Partner BY DEF Station
<1>2. o \in Bis(Partner, SocketOutBufMax) /\ (x.out # << >> => o # << >>)
  BY <1>1, PufferTyp, Groessen, BisAnhang
<1> HIDE DEF o
<1>3. Gleichwertig([x EXCEPT !.out = o], x)
  BY <1>2 DEF Station, Gleichwertig, GleicheVerbindung, Zaehlt
<1> QED BY <1>3 DEF InSocketOutBuf, o

LEMMA GeraetTyp ==
    ASSUME NEW x \in Station
    PROVE  /\ Gleichwertig(SendeBusKdoSchluss(x), x) /\ Gleichwertig(Einschalten(x), x)
           /\ Gleichwertig(EinschaltenGehend(x), x)
<1>1. ASSUME NEW g \in BOOLEAN, NEW w \in BOOLEAN
      PROVE  Gleichwertig([x EXCEPT !.geraet = g, !.warte = w], x)
  <2> DEFINE y == [x EXCEPT !.geraet = g, !.warte = w]
  <2>1. y \in Station BY <1>1 DEF Station
  <2>2. /\ y.mode = x.mode /\ y.handle = x.handle /\ y.ip = x.ip /\ y.blind = x.blind
        /\ y.out = x.out /\ y.modus = x.modus /\ y.druck = x.druck /\ y.fehler = x.fehler
    BY DEF Station
  <2> HIDE DEF y
  <2>3. Gleichwertig(y, x) BY <2>1, <2>2 DEF Gleichwertig, GleicheVerbindung, Zaehlt
  <2> QED BY <2>3 DEF y
<1>2. x.warte \in BOOLEAN /\ x = [x EXCEPT !.warte = x.warte] BY DEF Station
<1>3. ASSUME NEW g \in BOOLEAN
      PROVE  [x EXCEPT !.geraet = g] = [x EXCEPT !.geraet = g, !.warte = x.warte]
  BY DEF Station
<1> QED BY <1>1, <1>2, <1>3, Groessen DEF SendeBusKdoSchluss, Einschalten, EinschaltenGehend

LEMMA GleichTransitiv ==
    ASSUME NEW x, NEW y, NEW z, GleicheVerbindung(z, y), GleicheVerbindung(y, x)
    PROVE  GleicheVerbindung(z, x)
BY DEF GleicheVerbindung, Zaehlt

LEMMA GleichSelbst ==
    ASSUME NEW x \in Station
    PROVE  GleicheVerbindung(x, x) /\ Gleichwertig(x, x)
BY DEF Gleichwertig, GleicheVerbindung, Zaehlt

LEMMA GleichwertigTransitiv ==
    ASSUME NEW x, NEW y, NEW z, Gleichwertig(z, y), Gleichwertig(y, x)
    PROVE  Gleichwertig(z, x)
BY GleichTransitiv DEF Gleichwertig

(* Fields that the invariant does not read may be set. *)
LEMMA AbbauTyp ==
    ASSUME NEW x \in Station, NEW b \in BOOLEAN
    PROVE  Gleichwertig([x EXCEPT !.abbau = b], x)
BY DEF Station, Gleichwertig, GleicheVerbindung, Zaehlt

LEMMA ProtTyp ==
    ASSUME NEW x \in Station, NEW p \in Protokolle
    PROVE  Gleichwertig([x EXCEPT !.prot = p], x)
BY DEF Station, Gleichwertig, GleicheVerbindung, Zaehlt

LEMMA AsciiTyp ==
    ASSUME NEW x \in Station, NEW s \in Bis(Herkunft, MaxPuffer)
    PROVE  Gleichwertig([x EXCEPT !.ascii = s], x)
BY DEF Station, Gleichwertig, GleicheVerbindung, Zaehlt

LEMMA InTyp ==
    ASSUME NEW x \in Station, NEW s \in Bis(Item, SocketInBufMax)
    PROVE  Gleichwertig([x EXCEPT !.in = s], x)
BY DEF Station, Gleichwertig, GleicheVerbindung, Zaehlt

LEMMA ZielTyp ==
    ASSUME NEW x \in Station, NEW p \in Partner
    PROVE  Gleichwertig([x EXCEPT !.ziel = p], x)
BY DEF Station, Gleichwertig, GleicheVerbindung, Zaehlt

LEMMA AbbruchUmTyp ==
    ASSUME NEW x \in Station, NEW b \in BOOLEAN
    PROVE  Gleichwertig([x EXCEPT !.abbruchUm = b], x)
BY DEF Station, Gleichwertig, GleicheVerbindung, Zaehlt

LEMMA OhnePufferTyp ==
    ASSUME NEW x \in Station
    PROVE  LET y == OhnePuffer(x)
           IN  /\ y \in Station
               /\ y.mode = x.mode /\ y.handle = x.handle /\ y.ip = x.ip /\ y.blind = x.blind
               /\ y.modus = x.modus /\ y.druck = x.druck /\ y.fehler = x.fehler
BY LeerTyp DEF OhnePuffer, Station

LEMMA InterneVerbindungBeendenTyp ==
    ASSUME NEW x \in Station, NEW force \in BOOLEAN
    PROVE  LET y == InterneVerbindungBeenden(x, force)
           IN  /\ GleicheVerbindung(y, x)
               /\ y.druck = x.druck
               /\ \/ /\ y.modus = x.modus
                     /\ x.modus \notin {"KommendVerbVorstufe", "KommendEinschalten",
                                        "KommendWarteEinQuitt", "KommendVerbunden",
                                        "GehendVerbunden"}
                  \/ y.modus \in {"WarteSchlussQuitt", "WarteGrundstellung",
                                  "PufferDruckUndSchluss"}
<1> DEFINE a == SendeBusKdoSchluss(x)
           y == InterneVerbindungBeenden(x, force)
<1>1. Gleichwertig(a, x) BY GeraetTyp
<1>2. \/ y = ModusWechsel(a, "WarteSchlussQuitt")
      \/ /\ y = x
         /\ x.modus \notin {"KommendVerbVorstufe", "KommendEinschalten",
                            "KommendWarteEinQuitt", "KommendVerbunden",
                            "GehendVerbunden"}
      \/ y = ModusWechsel(x, "WarteGrundstellung")
      \/ y = ModusWechsel(a, "WarteGrundstellung")
      \/ y = ModusWechsel(x, "PufferDruckUndSchluss")
  BY DEF InterneVerbindungBeenden
<1> HIDE DEF a, y
<1>3. {"WarteSchlussQuitt", "WarteGrundstellung", "PufferDruckUndSchluss"} \subseteq TModus
  BY DEF TModus
<1>4. /\ "WarteSchlussQuitt" \notin NeuerAnruf /\ "WarteGrundstellung" \notin NeuerAnruf
      /\ "PufferDruckUndSchluss" \notin NeuerAnruf
  BY DEF NeuerAnruf
<1>5. a \in Station BY <1>1 DEF Gleichwertig, GleicheVerbindung
<1>6. \A u \in {x, a}, m \in {"WarteSchlussQuitt", "WarteGrundstellung", "PufferDruckUndSchluss"} :
        /\ GleicheVerbindung(ModusWechsel(u, m), u)
        /\ ModusWechsel(u, m).modus = m
        /\ ModusWechsel(u, m).druck = u.druck
  BY <1>3, <1>4, <1>5, ModusWechselTyp
<1>7. GleicheVerbindung(x, x) BY GleichSelbst
<1>8. /\ GleicheVerbindung(y, x)
      /\ y.druck = x.druck
      /\ \/ /\ y.modus = x.modus
            /\ x.modus \notin {"KommendVerbVorstufe", "KommendEinschalten",
                               "KommendWarteEinQuitt", "KommendVerbunden",
                               "GehendVerbunden"}
         \/ y.modus \in {"WarteSchlussQuitt", "WarteGrundstellung",
                         "PufferDruckUndSchluss"}
  BY <1>1, <1>2, <1>6, <1>7, GleichTransitiv DEF Gleichwertig
<1> QED BY <1>8 DEF y

LEMMA ExterneVerbindungBeendenTyp ==
    ASSUME NEW x \in Station
    PROVE  /\ Gleichwertig(ExterneVerbindungBeenden(x), x)
           /\ Gleichwertig(SendeStopkommando(x), x)
<1> DEFINE y == [x EXCEPT !.ascii = << >>]
           z == [y EXCEPT !.abbau = TRUE]
           w == InSocketOutBuf(x)
<1>1. Gleichwertig(y, x) BY AsciiTyp, LeerTyp
<1>2. y \in Station BY <1>1 DEF Gleichwertig, GleicheVerbindung
<1>3. Gleichwertig(w, x) BY InSocketOutBufTyp
<1>4. w \in Station BY <1>3 DEF Gleichwertig, GleicheVerbindung
<1> HIDE DEF y, w
<1>5. Gleichwertig(z, y) BY <1>2, AbbauTyp
<1>6. Gleichwertig([w EXCEPT !.abbau = TRUE], w) BY <1>4, AbbauTyp
<1>7. z \in Station BY <1>5 DEF Gleichwertig, GleicheVerbindung
<1>8. Gleichwertig(InSocketOutBuf(z), z) BY <1>7, InSocketOutBufTyp
<1>9. ExterneVerbindungBeenden(x) \in {y, z, InSocketOutBuf(z)}
  BY DEF ExterneVerbindungBeenden, y
<1>10. SendeStopkommando(x) = [w EXCEPT !.abbau = TRUE] BY DEF SendeStopkommando, w
<1> HIDE DEF z
<1> QED BY <1>1, <1>3, <1>5, <1>6, <1>8, <1>9, <1>10, GleichwertigTransitiv

LEMMA WahlAbbruchMeldungTyp ==
    ASSUME NEW x \in Station
    PROVE  LET y == WahlAbbruchMeldung(x)
           IN  /\ GleicheVerbindung(y, x)
               /\ y.druck = x.druck
               /\ y.modus \in {x.modus, "PufferDruckUndSchluss"}
<1> DEFINE a == [x EXCEPT !.ascii = Append(@, Lokal)]
           e == EinschaltenGehend(a)
           w == WahlAbbruchMeldung(x)
<1>1. \/ w = x
      \/ Len(x.ascii) < MaxPuffer /\ w \in {a, ModusWechsel(e, "PufferDruckUndSchluss")}
  <2>1. Len(x.ascii) \in Nat BY PufferTyp
  <2> QED BY <2>1, Groessen DEF WahlAbbruchMeldung
<1>2. CASE w = x BY <1>2, GleichSelbst
<1>3. CASE Len(x.ascii) < MaxPuffer /\ w \in {a, ModusWechsel(e, "PufferDruckUndSchluss")}
 <2>1. Append(x.ascii, Lokal) \in Bis(Herkunft, MaxPuffer)
   BY <1>3, PufferTyp, Groessen, BisAnhang DEF Herkunft
 <2>2. Gleichwertig(a, x) BY <2>1, AsciiTyp
 <2>3. a \in Station BY <2>2 DEF Gleichwertig, GleicheVerbindung
 <2>4. w \in {a, ModusWechsel(e, "PufferDruckUndSchluss")} BY <1>3
 <2> HIDE DEF a, w
 <2>5. Gleichwertig(e, a) BY <2>3, GeraetTyp
 <2>6. e \in Station BY <2>5 DEF Gleichwertig, GleicheVerbindung
 <2>7. "PufferDruckUndSchluss" \in TModus /\ "PufferDruckUndSchluss" \notin NeuerAnruf
   BY DEF TModus, NeuerAnruf
 <2> HIDE DEF e
 <2> DEFINE p == ModusWechsel(e, "PufferDruckUndSchluss")
 <2>8. GleicheVerbindung(p, e) /\ p.modus = "PufferDruckUndSchluss" /\ p.druck = e.druck
   BY <2>6, <2>7, ModusWechselTyp
 <2> HIDE DEF p
 <2>9. /\ GleicheVerbindung(w, x)
       /\ w.druck = x.druck
       /\ w.modus \in {x.modus, "PufferDruckUndSchluss"}
   BY <2>2, <2>4, <2>5, <2>8, GleichTransitiv DEF Gleichwertig, p
 <2> QED BY <2>9 DEF w
<1> QED BY <1>1, <1>2, <1>3

LEMMA OhneVerbindungTyp ==
    ASSUME NEW x \in Station
    PROVE  LET y == OhneVerbindung(x)
           IN  /\ y \in Station /\ y.mode = "Idle"
               /\ y.modus = x.modus /\ y.handle = x.handle /\ y.druck = x.druck
               /\ y.blind = x.blind
<1> DEFINE y == OhneVerbindung(x)
<1>1. "Idle" \in SocketModes /\ Niemand \in Partner BY DEF SocketModes, Partner
<1>2. y \in Station BY <1>1 DEF OhneVerbindung, Station
<1> QED BY <1>2 DEF OhneVerbindung, Station

LEMMA HandleTyp ==
    ASSUME NEW x \in Station, NEW h \in Slots \cup {NO_SOCKET_USED}
    PROVE  LET y == [x EXCEPT !.handle = h]
           IN  /\ y \in Station /\ y.handle = h
               /\ y.mode = x.mode /\ y.ip = x.ip /\ y.blind = x.blind
               /\ y.modus = x.modus /\ y.druck = x.druck /\ Zaehlt(y, x)
BY DEF Station, Zaehlt

LEMMA MisslungenTyp ==
    ASSUME NEW x \in Station, NEW p \in Partner
    PROVE  LET y == Misslungen(x, p)
           IN  /\ y \in Station /\ y.mode = "Idle" /\ y.handle = NO_SOCKET_USED
               /\ y.modus = x.modus /\ y.druck = x.druck /\ y.blind = x.blind
BY DEF Misslungen, Station, SocketModes

LEMMA AufgebautTyp ==
    ASSUME NEW x \in Station, NEW p \in Partner, NEW s \in Slots, NEW alsAscii \in BOOLEAN
    PROVE  LET y == Aufgebaut(x, p, s, alsAscii)
           IN  /\ y \in Station
               /\ y.mode = "Originate" /\ y.handle = s /\ y.ip = p
               /\ y.modus \in {x.modus, "GehendVerbunden"} /\ y.druck = x.druck
               /\ y.blind = x.blind
<1> DEFINE z == [x EXCEPT !.ip = p, !.handle = s, !.mode = "Originate",
                          !.abbau = FALSE, !.abbruchUm = FALSE,
                          !.prot = IF alsAscii THEN "Ascii" ELSE "iTelex"]
           y == OhnePuffer(z)
           e == EinschaltenGehend(y)
           v == ModusWechsel(e, "GehendVerbunden")
           i == InSocketOutBuf(y)
           w == Aufgebaut(x, p, s, alsAscii)
<1>1. /\ z \in Station /\ z.mode = "Originate" /\ z.handle = s /\ z.ip = p
      /\ z.modus = x.modus /\ z.druck = x.druck /\ z.blind = x.blind
  <2> DEFINE q == IF alsAscii THEN "Ascii" ELSE "iTelex"
  <2>1. q \in Protokolle BY DEF Protokolle
  <2> HIDE DEF q
  <2>2. [x EXCEPT !.ip = p, !.handle = s, !.mode = "Originate", !.abbau = FALSE,
                  !.abbruchUm = FALSE, !.prot = q] \in Station
    BY <2>1 DEF Station, SocketModes
  <2>3. z \in Station BY <2>2 DEF q
  <2> QED BY <2>3 DEF Station
<1>2. w \in {v, i} BY DEF Aufgebaut
<1> HIDE DEF z, w
<1>3. /\ y \in Station
      /\ y.mode = z.mode /\ y.handle = z.handle /\ y.ip = z.ip /\ y.blind = z.blind
      /\ y.modus = z.modus /\ y.druck = z.druck
  BY <1>1, OhnePufferTyp
<1>4. y \in Station BY <1>3
<1> HIDE DEF y
<1>5. Gleichwertig(e, y) BY <1>4, GeraetTyp
<1>6. Gleichwertig(i, y) BY <1>4, InSocketOutBufTyp
<1>7. e \in Station BY <1>5 DEF Gleichwertig, GleicheVerbindung
<1>8. "GehendVerbunden" \in TModus /\ "GehendVerbunden" \notin NeuerAnruf
  BY DEF TModus, NeuerAnruf
<1> HIDE DEF e, i
<1>9. GleicheVerbindung(v, e) /\ v.modus = "GehendVerbunden" /\ v.druck = e.druck
  BY <1>7, <1>8, ModusWechselTyp
<1> HIDE DEF v
<1>10. /\ w \in Station
       /\ w.mode = "Originate" /\ w.handle = s /\ w.ip = p
       /\ w.modus \in {x.modus, "GehendVerbunden"} /\ w.druck = x.druck
       /\ w.blind = x.blind
  BY <1>1, <1>2, <1>3, <1>5, <1>6, <1>9 DEF Gleichwertig, GleicheVerbindung
<1> QED BY <1>10 DEF w

(***************************************************************************)
(* The inductive invariant, over a station x at block p.                   *)
(***************************************************************************)
Ruhend == {"Ruhe", "Deaktiviert", "GehendReserv", "MeldungsdruckWarteEinQuitt"}

MitPartner == {"KommendVerbVorstufe", "KommendEinschalten", "KommendWarteEinQuitt",
               "KommendVerbunden", "GehendVerbunden"}

Haelt(x, p) ==
    /\ x.mode # "Idle" => x.ip \in Gegenstellen
    /\ x.modus \in Ruhend => x.mode = "Idle"
    /\ x.handle # NO_SOCKET_USED => x.mode # "Idle"
    /\ p \notin {"Empfang", "Senden", "Abbruch", "Auswerten"} /\ x.modus \in MitPartner
         => x.mode # "Idle"
    /\ p \in {"Dekodieren", "Weiterleiten"} => x.mode # "Idle"
    /\ x.modus = "GehendReserv" => x.druck = << >>
    /\ x.modus = "GehendWaehlen" /\ x.druck # << >>
         => p \in {"Dekodieren", "Weiterleiten", "Einschalten"} /\ x.mode # "Idle"
    /\ x.mode = "Answer" /\ x.fehler # 0 => x.out # << >>

(* What the station x relies on in the table t as long as no entry that it *)
(* still refers to is given away: its socket leads to its partner, it is   *)
(* not that of the busy signal, and neither waits to be accepted again.    *)
SocketPasst(x, t) ==
    /\ x.handle # NO_SOCKET_USED =>
         /\ t[x.handle].peer = x.ip /\ t[x.handle].st # "Ready2Use"
         /\ x.handle # x.blind
    /\ x.blind # NO_SOCKET_USED => t[x.blind].st # "Ready2Use"

IInv ==
    /\ NetzOK /\ itx \in Station /\ pc \in Bloecke
    /\ Haelt(itx, pc)
    /\ Neuvergabe \/ SocketPasst(itx, tcp)

(* The steps of a line (module Leitung), from the station x to the station *)
(* y: the call stays and the line is seized, released or comes to rest, or *)
(* the call ends, or a new one begins.                                     *)
Erlaubt(y, x) ==
    \/ /\ y.mode = x.mode /\ (x.mode # "Idle" => y.ip = x.ip)
       /\ \/ Phase(y.modus) \in {Phase(x.modus), "Abbau"}
          \/ Phase(x.modus) = "Ruhe" /\ Phase(y.modus) \in {"Gehend", "Eigen", "Aus"}
          \/ Phase(x.modus) = "Abbau" /\ x.mode = "Idle" /\ Phase(y.modus) = "Ruhe"
    \/ y.mode = "Idle" /\ Phase(y.modus) = Phase(x.modus)
    \/ /\ x.mode = "Idle" /\ Phase(x.modus) = "Ruhe"
       /\ y.mode = "Answer" /\ Phase(y.modus) = "Kommend" /\ y.ip \in Gegenstellen
    \/ /\ x.mode = "Idle" /\ Phase(x.modus) = "Gehend"
       /\ y.mode = "Originate" /\ Phase(y.modus) = "Gehend" /\ y.ip \in Gegenstellen

(* What every step does: the invariant goes on to hold, and the step is    *)
(* one that a line may take.                                               *)
Schritt == IInv' /\ Erlaubt(itx', itx)

(* The station y has no socket that x has not.                             *)
Anschluss(y, x) ==
    /\ y.handle \in {x.handle, NO_SOCKET_USED} /\ y.blind \in {x.blind, NO_SOCKET_USED}
    /\ y.handle # NO_SOCKET_USED => y.ip = x.ip

LEMMA SocketBleibt ==
    ASSUME NEW x \in Station, NEW y \in Station, NEW t \in Tabelle, NEW u,
           SocketPasst(x, t), Anschluss(y, x), Fortsetzung(u, t)
    PROVE  SocketPasst(y, u)
BY DEF SocketPasst, Anschluss, Fortsetzung, Station

LEMMA FortsetzungSelbst ==
    ASSUME NEW t \in Tabelle
    PROVE  Fortsetzung(t, t)
BY DEF Fortsetzung

LEMMA ErlaubtGleich ==
    ASSUME NEW x, NEW y, GleicheVerbindung(y, x),
           Phase(y.modus) \in {Phase(x.modus), "Abbau"}
    PROVE  Erlaubt(y, x) /\ Anschluss(y, x)
BY DEF Erlaubt, Anschluss, GleicheVerbindung, Zaehlt

(***************************************************************************)
(* The blocks of the thread.                                               *)
(***************************************************************************)
LEMMA KommendTyp ==
    ASSUME tcp \in Tabelle, NEW x \in Station, NEW h \in Slots
    PROVE  LET y == KommendeVerbindungInitialisieren(x, h)
           IN  /\ y \in Station
               /\ y.mode = "Answer" /\ y.handle = h /\ y.ip = tcp[h].peer
               /\ y.modus = "KommendVerbVorstufe" /\ y.blind = x.blind
               /\ x.modus # "KommendVerbVorstufe" => y.fehler = 0
<1> DEFINE z == [x EXCEPT !.handle = h, !.ip = tcp[h].peer,
                          !.mode = "Answer", !.abbau = FALSE,
                          !.prot = "Unknown", !.abbruchUm = FALSE]
           y == OhnePuffer(z)
           w == ModusWechsel(y, "KommendVerbVorstufe")
<1>1. tcp[h].peer \in Partner BY DEF Tabelle, Socket, Partner
<1>2. /\ z \in Station /\ z.mode = "Answer" /\ z.handle = h /\ z.ip = tcp[h].peer
      /\ z.blind = x.blind /\ z.modus = x.modus
  BY <1>1 DEF Station, SocketModes, Protokolle
<1>3. KommendeVerbindungInitialisieren(x, h) = w BY DEF KommendeVerbindungInitialisieren
<1> HIDE DEF z
<1>4. /\ y \in Station
      /\ y.mode = z.mode /\ y.handle = z.handle /\ y.ip = z.ip /\ y.blind = z.blind
      /\ y.modus = z.modus
  BY <1>2, OhnePufferTyp
<1> HIDE DEF y
<1>6. "KommendVerbVorstufe" \in TModus /\ "KommendVerbVorstufe" \in NeuerAnruf
  BY DEF TModus, NeuerAnruf
<1>7. /\ GleicheVerbindung(w, y) /\ w.modus = "KommendVerbVorstufe"
      /\ y.modus # "KommendVerbVorstufe" => w.fehler = 0
  BY <1>4, <1>6, ModusWechselTyp
<1> HIDE DEF w
<1> QED BY <1>2, <1>3, <1>4, <1>7 DEF GleicheVerbindung, Zaehlt

LEMMA NetzUnveraendert ==
    ASSUME NetzOK, UNCHANGED netz
    PROVE  NetzOK'
BY DEF NetzOK, netz

(* A new connection takes an entry that the station does not use. *)
LEMMA NeuerEintragPasst ==
    ASSUME NEW t \in Tabelle, NEW x, NEW y \in Station, NEW s \in Slots,
           NEW p \in Gegenstellen, SocketPasst(x, t), s # x.blind,
           y.handle = s, y.blind = x.blind, y.ip = p
    PROVE  SocketPasst(y, [t EXCEPT ![s] = NeuerSocket("Ready", p)])
<1> DEFINE u == [t EXCEPT ![s] = NeuerSocket("Ready", p)]
<1>1. u[s].peer = p /\ u[s].st = "Ready" BY DEF Tabelle, NeuerSocket
<1>2. \A k \in Slots \ {s} : u[k] = t[k] BY DEF Tabelle
<1>3. y.blind \in Slots \cup {NO_SOCKET_USED} BY DEF Station
<1> HIDE DEF u
<1>4. SocketPasst(y, u) BY <1>1, <1>2, <1>3 DEF SocketPasst
<1> QED BY <1>4 DEF u

LEMMA VerbindungGelingtTyp ==
    ASSUME NetzOK, NEW x \in Station, NEW p \in Gegenstellen, VerbindungGelingt(x, p)
    PROVE  /\ tcp' \in Tabelle /\ anrufe' \in Nat
           /\ itx' \in Station /\ itx'.mode = "Originate" /\ itx'.ip = p
           /\ itx'.modus \in {x.modus, "GehendVerbunden"} /\ itx'.druck = x.druck
           /\ x.blind = itx.blind /\ (Neuvergabe \/ SocketPasst(itx, tcp))
                => Neuvergabe \/ SocketPasst(itx', tcp')
<1>1. PICK s \in Slots, alsAscii \in BOOLEAN :
        /\ Connect2IP(s)
        /\ tcp' = [tcp EXCEPT ![s] = NeuerSocket("Ready", p)]
        /\ itx' = Aufgebaut(x, p, s, alsAscii)
  BY DEF VerbindungGelingt
<1>2. anrufe' \in Nat BY <1>1 DEF Connect2IP, NetzOK
<1>3. tcp' \in Tabelle BY <1>1, NeuerSocketTyp DEF NetzOK, SocketStates
<1>4. /\ itx' \in Station /\ itx'.mode = "Originate" /\ itx'.ip = p /\ itx'.handle = s
      /\ itx'.modus \in {x.modus, "GehendVerbunden"} /\ itx'.druck = x.druck
      /\ itx'.blind = x.blind
  BY <1>1, AufgebautTyp DEF Partner
<1>5. ASSUME x.blind = itx.blind, SocketPasst(itx, tcp), ~Neuvergabe
      PROVE  SocketPasst(itx', tcp')
  <2>1. s \notin {itx.handle, itx.blind} BY <1>1, <1>5 DEF Connect2IP, Frei
  <2> QED BY <1>1, <1>4, <1>5, <2>1, NeuerEintragPasst DEF NetzOK
<1> QED BY <1>2, <1>3, <1>4, <1>5

(***************************************************************************)
(* One lemma for each block of the thread.  They rest on three rules: what *)
(* is to be shown of a step, of a step without a new connection, and of a  *)
(* step that leaves the connection alone.                                  *)
(***************************************************************************)
LEMMA SchrittRegel ==
    ASSUME IInv, NetzOK', pc' \in Bloecke, itx' \in Station, Haelt(itx', pc'),
           Neuvergabe \/ SocketPasst(itx', tcp'), Erlaubt(itx', itx)
    PROVE  Schritt
BY DEF Schritt, IInv

LEMMA OhneNeue ==
    ASSUME IInv, NetzOK', pc' \in Bloecke, itx' \in Station, Haelt(itx', pc'),
           Fortsetzung(tcp', tcp), Anschluss(itx', itx), Erlaubt(itx', itx)
    PROVE  Schritt
<1>1. itx \in Station /\ tcp \in Tabelle BY DEF IInv, NetzOK
<1>2. Neuvergabe \/ SocketPasst(itx', tcp') BY <1>1, SocketBleibt DEF IInv
<1> QED BY <1>2, SchrittRegel

LEMMA NurModus ==
    ASSUME IInv, UNCHANGED netz, pc' \in Bloecke, Haelt(itx', pc'),
           GleicheVerbindung(itx', itx), Phase(itx'.modus) \in {Phase(itx.modus), "Abbau"}
    PROVE  Schritt
<1>1. NetzOK' BY NetzUnveraendert DEF IInv
<1>2. Fortsetzung(tcp', tcp) BY FortsetzungSelbst DEF netz, IInv, NetzOK
<1>3. Erlaubt(itx', itx) /\ Anschluss(itx', itx) BY ErlaubtGleich
<1> QED BY <1>1, <1>2, <1>3, OhneNeue DEF GleicheVerbindung, Zaehlt

LEMMA TwiSchritt ==
    ASSUME IInv, Twi
    PROVE  Schritt
<1>1. pc = "Twi" /\ pc' = "Waechter" /\ pc' \in Bloecke
  BY DEF Twi, KeinCode, BusVerbaufnahme, BusKdoEin, BusQuittEin, Wahlziffer,
         BusQuittSchluss, BusKdoSchluss, TwiCode, Weiter, Bloecke
<1>2. itx \in Station /\ NetzOK /\ Haelt(itx, "Twi") BY <1>1 DEF IInv
<1>3. ASSUME NEW y, TwiCode(y), y \in Station, Haelt(y, "Waechter"),
             Anschluss(y, itx), Erlaubt(y, itx)
      PROVE  Schritt
  <2>1. itx' = y /\ UNCHANGED netz BY <1>3 DEF TwiCode
  <2>2. NetzOK' BY <1>2, <2>1, NetzUnveraendert
  <2>3. Fortsetzung(tcp', tcp) BY <1>2, <2>1, FortsetzungSelbst DEF netz, NetzOK
  <2> QED BY <1>1, <1>3, <2>1, <2>2, <2>3, OhneNeue
<1>4. CASE KeinCode
  <2>1. Haelt(itx, "Waechter") BY <1>2 DEF Haelt
  <2>2. GleicheVerbindung(itx, itx) BY <1>2 DEF GleicheVerbindung, Zaehlt
  <2> QED BY <1>2, <1>3, <1>4, <2>1, <2>2, ErlaubtGleich DEF KeinCode
<1>5. CASE BusVerbaufnahme
  <2> DEFINE y == ModusWechsel(itx, "GehendReserv")
  <2>1. itx.modus = "Ruhe" /\ TwiCode(y) BY <1>5 DEF BusVerbaufnahme
  <2>2. GleicheVerbindung(y, itx) /\ y.modus = "GehendReserv" /\ y.druck = << >>
    BY <1>2, <2>1, ModusWechselTyp DEF TModus, NeuerAnruf
  <2> HIDE DEF y
  <2>3. Haelt(y, "Waechter")
    BY <1>2, <2>1, <2>2 DEF Haelt, GleicheVerbindung, Zaehlt, Ruhend, MitPartner
  <2>4. Erlaubt(y, itx) /\ Anschluss(y, itx)
    BY <2>1, <2>2 DEF Erlaubt, Anschluss, GleicheVerbindung, Zaehlt, Phase
  <2> QED BY <1>3, <2>1, <2>2, <2>3, <2>4 DEF GleicheVerbindung, Zaehlt
<1>6. CASE BusKdoEin
  <2> DEFINE e == Einschalten(itx)
             y == ModusWechsel(e, "GehendWaehlen")
  <2>1. itx.modus = "GehendReserv" /\ TwiCode(y) BY <1>6 DEF BusKdoEin
  <2>2. Gleichwertig(e, itx) BY <1>2, GeraetTyp
  <2>3. e \in Station BY <2>2 DEF Gleichwertig, GleicheVerbindung, Zaehlt
  <2> HIDE DEF e
  <2>4. GleicheVerbindung(y, e) /\ y.modus = "GehendWaehlen" /\ y.druck = e.druck
    BY <2>3, ModusWechselTyp DEF TModus, NeuerAnruf
  <2> HIDE DEF y
  <2>5. Haelt(y, "Waechter")
    BY <1>2, <2>1, <2>2, <2>4
       DEF Haelt, GleicheVerbindung, Zaehlt, Gleichwertig, Ruhend, MitPartner
  <2>6. GleicheVerbindung(y, itx) BY <2>2, <2>4 DEF GleicheVerbindung, Zaehlt, Gleichwertig
  <2>7. Phase(y.modus) = Phase(itx.modus) BY <2>1, <2>4 DEF Phase
  <2> QED BY <1>3, <2>1, <2>5, <2>6, <2>7, ErlaubtGleich DEF GleicheVerbindung, Zaehlt
<1>7. CASE BusQuittEin
  <2>1. CASE itx.modus = "KommendWarteEinQuitt"
    <3> DEFINE y == ModusWechsel(itx, "KommendVerbunden")
               d == Anhaengen(y.druck, Lokal, MaxPuffer)
               p == Anhaengen(y.tipp, y.ip, MaxPuffer)
               z == [y EXCEPT !.druck = d, !.tipp = p]
    <3>1. TwiCode(y) \/ TwiCode(z) BY <1>7, <2>1 DEF BusQuittEin
    <3>2. GleicheVerbindung(y, itx) /\ y.modus = "KommendVerbunden"
      BY <1>2, ModusWechselTyp DEF TModus
    <3>3. y \in Station BY <3>2 DEF GleicheVerbindung, Zaehlt
    <3> HIDE DEF y
    <3>4. d \in Bis(Herkunft, MaxPuffer) /\ p \in Bis(Partner, MaxPuffer)
      <4>1. Lokal \in Herkunft /\ y.ip \in Partner BY <3>3 DEF Station, Herkunft
      <4> QED BY <3>3, <4>1, PufferTyp, Groessen, BisAnhang
    <3> HIDE DEF d, p
    <3>5. GleicheVerbindung(z, y) /\ z.modus = y.modus
      <4>1. z \in Station BY <3>3, <3>4 DEF Station
      <4> QED BY <3>3, <4>1 DEF Station, GleicheVerbindung, Zaehlt
    <3> HIDE DEF z
    <3>6. itx.mode # "Idle" BY <1>2, <2>1 DEF Haelt, MitPartner
    <3>7. Haelt(y, "Waechter") /\ Haelt(z, "Waechter")
      BY <1>2, <3>2, <3>5, <3>6 DEF Haelt, GleicheVerbindung, Zaehlt, Ruhend
    <3>8. GleicheVerbindung(z, itx) BY <3>2, <3>5 DEF GleicheVerbindung, Zaehlt
    <3>9. Phase(y.modus) = Phase(itx.modus) /\ Phase(z.modus) = Phase(itx.modus)
      BY <2>1, <3>2, <3>5 DEF Phase
    <3> QED BY <1>3, <3>1, <3>2, <3>7, <3>8, <3>9, ErlaubtGleich DEF GleicheVerbindung, Zaehlt
  <2>2. CASE itx.modus = "MeldungsdruckWarteEinQuitt"
    <3> DEFINE y == ModusWechsel(itx, "PufferDruckUndSchluss")
    <3>1. TwiCode(y) BY <1>7, <2>2 DEF BusQuittEin
    <3>2. GleicheVerbindung(y, itx) /\ y.modus = "PufferDruckUndSchluss"
      BY <1>2, ModusWechselTyp DEF TModus
    <3> HIDE DEF y
    <3>3. Haelt(y, "Waechter")
      BY <1>2, <3>2 DEF Haelt, GleicheVerbindung, Zaehlt, Ruhend, MitPartner
    <3>4. Phase(y.modus) = "Abbau" BY <3>2 DEF Phase
    <3> QED BY <1>3, <3>1, <3>2, <3>3, <3>4, ErlaubtGleich DEF GleicheVerbindung, Zaehlt
  <2>3. CASE itx.modus \notin {"KommendWarteEinQuitt", "MeldungsdruckWarteEinQuitt"}
    <3> DEFINE y == [itx EXCEPT !.warte = FALSE]
    <3>1. TwiCode(y) BY <1>7, <2>3 DEF BusQuittEin
    <3>2. y \in Station BY <1>2 DEF Station
    <3>3. Gleichwertig(y, itx)
      BY <1>2, <3>2 DEF Station, Gleichwertig, GleicheVerbindung, Zaehlt
    <3> HIDE DEF y
    <3>4. Haelt(y, "Waechter")
      BY <1>2, <3>3 DEF Haelt, Gleichwertig, GleicheVerbindung, Zaehlt
    <3> QED BY <1>3, <3>1, <3>2, <3>3, <3>4, ErlaubtGleich DEF Gleichwertig
  <2> QED BY <2>1, <2>2, <2>3
<1>8. CASE Wahlziffer
  <2> DEFINE y == [itx EXCEPT !.ziel = Niemand]
  <2>1. itx.modus = "GehendWaehlen" /\ itx.mode = "Idle" BY <1>8 DEF Wahlziffer
  <2>2. Gleichwertig(y, itx) /\ y \in Station
    BY <1>2, ZielTyp DEF Partner, Gleichwertig, GleicheVerbindung, Zaehlt
  <2>3. \/ TwiCode(y)
        \/ \E p \in Verzeichnis : TwiCode([y EXCEPT !.ziel = p])
        \/ \E p \in Verzeichnis : VerbindungGelingt(y, p) /\ UNCHANGED tele
        \/ \E p \in Verzeichnis :
             TwiCode(InterneVerbindungBeenden(WahlAbbruchMeldung(Misslungen(y, p)), TRUE))
    BY <1>8 DEF Wahlziffer
  <2> HIDE DEF y
  <2>4. Verzeichnis \subseteq Partner BY VerbindungAnnahme DEF Partner
  <2>5. itx.druck = << >> BY <1>2, <2>1 DEF Haelt
  <2>6. CASE TwiCode(y)
    <3>1. Haelt(y, "Waechter")
      BY <1>2, <2>2 DEF Haelt, Gleichwertig, GleicheVerbindung, Zaehlt
    <3> QED BY <1>3, <2>2, <2>6, <3>1, ErlaubtGleich DEF Gleichwertig
  <2>7. ASSUME NEW p \in Verzeichnis, TwiCode([y EXCEPT !.ziel = p])
        PROVE  Schritt
    <3> DEFINE z == [y EXCEPT !.ziel = p]
    <3>1. Gleichwertig(z, y) BY <2>2, <2>4, ZielTyp
    <3>2. TwiCode(z) BY <2>7
    <3> HIDE DEF z
    <3>3. Gleichwertig(z, itx) BY <2>2, <3>1, GleichwertigTransitiv
    <3>4. Haelt(z, "Waechter") /\ z \in Station
      BY <1>2, <3>3 DEF Haelt, Gleichwertig, GleicheVerbindung, Zaehlt
    <3> QED BY <1>3, <3>2, <3>3, <3>4, ErlaubtGleich DEF Gleichwertig
  <2>8. ASSUME NEW p \in Verzeichnis, VerbindungGelingt(y, p), UNCHANGED tele
        PROVE  Schritt
    <3>1. /\ tcp' \in Tabelle /\ anrufe' \in Nat
          /\ itx' \in Station /\ itx'.mode = "Originate" /\ itx'.ip = p
          /\ itx'.modus \in {y.modus, "GehendVerbunden"} /\ itx'.druck = y.druck
          /\ Neuvergabe \/ SocketPasst(itx', tcp')
      BY <1>2, <2>2, <2>8, VerbindungGelingtTyp, VerbindungAnnahme
         DEF IInv, Gleichwertig, GleicheVerbindung, Zaehlt
    <3>2. NetzOK' BY <1>2, <2>8, <3>1 DEF NetzOK
    <3>3. Haelt(itx', pc')
      BY <1>1, <2>1, <2>2, <2>5, <3>1, VerbindungAnnahme DEF Haelt, Gleichwertig, Ruhend
    <3>4. Erlaubt(itx', itx)
      BY <2>1, <2>2, <3>1, VerbindungAnnahme DEF Erlaubt, Gleichwertig, Phase
    <3> QED BY <1>1, <3>1, <3>2, <3>3, <3>4, SchrittRegel
  <2>9. ASSUME NEW p \in Verzeichnis,
               TwiCode(InterneVerbindungBeenden(WahlAbbruchMeldung(Misslungen(y, p)), TRUE))
        PROVE  Schritt
    <3> DEFINE m == Misslungen(y, p)
               w == WahlAbbruchMeldung(m)
               v == InterneVerbindungBeenden(w, TRUE)
    <3>1. /\ m \in Station /\ m.mode = "Idle" /\ m.handle = NO_SOCKET_USED
          /\ m.modus = y.modus /\ m.druck = y.druck /\ m.blind = y.blind
      BY <2>2, <2>4, MisslungenTyp
    <3>2. TwiCode(v) BY <2>9
    <3> HIDE DEF m
    <3>3. /\ GleicheVerbindung(w, m) /\ w.druck = m.druck
          /\ w.modus \in {m.modus, "PufferDruckUndSchluss"}
      BY <3>1, WahlAbbruchMeldungTyp
    <3>4. w \in Station BY <3>3 DEF GleicheVerbindung, Zaehlt
    <3> HIDE DEF w
    <3>5. /\ GleicheVerbindung(v, w) /\ v.druck = w.druck
          /\ v.modus \in {w.modus, "WarteSchlussQuitt", "WarteGrundstellung",
                          "PufferDruckUndSchluss"}
      BY <3>4, InterneVerbindungBeendenTyp
    <3> HIDE DEF v
    <3>6. Haelt(v, "Waechter")
      BY <2>1, <2>2, <2>5, <3>1, <3>3, <3>5
         DEF Haelt, Gleichwertig, GleicheVerbindung, Zaehlt, Ruhend, MitPartner
    <3>7. Anschluss(v, itx)
      BY <2>2, <3>1, <3>3, <3>5 DEF Anschluss, Gleichwertig, GleicheVerbindung, Zaehlt
    <3>8. Phase(v.modus) \in {"Gehend", "Abbau"}
      BY <2>1, <2>2, <3>1, <3>3, <3>5 DEF Gleichwertig, Phase
    <3>9. v.mode = "Idle" BY <3>1, <3>3, <3>5 DEF GleicheVerbindung, Zaehlt
    <3>10. Erlaubt(v, itx) BY <2>1, <3>8, <3>9 DEF Erlaubt, Phase
    <3> QED BY <1>3, <3>2, <3>5, <3>6, <3>7, <3>10 DEF GleicheVerbindung, Zaehlt
  <2> QED BY <2>3, <2>6, <2>7, <2>8, <2>9
<1>9. CASE BusQuittSchluss
  <2> DEFINE e == [itx EXCEPT !.ascii = << >>, !.geraet = FALSE]
             y == ModusWechsel(e, "WarteGrundstellung")
  <2>1. TwiCode(y) BY <1>9 DEF BusQuittSchluss
  <2>2. Gleichwertig(e, itx)
    BY <1>2, LeerTyp DEF Station, Gleichwertig, GleicheVerbindung, Zaehlt
  <2>3. e \in Station BY <2>2 DEF Gleichwertig, GleicheVerbindung, Zaehlt
  <2> HIDE DEF e
  <2>4. GleicheVerbindung(y, e) /\ y.modus = "WarteGrundstellung"
    BY <2>3, ModusWechselTyp DEF TModus
  <2> HIDE DEF y
  <2>5. Haelt(y, "Waechter")
    BY <1>2, <2>2, <2>4 DEF Haelt, Gleichwertig, GleicheVerbindung, Zaehlt, Ruhend, MitPartner
  <2>6. GleicheVerbindung(y, itx) BY <2>2, <2>4 DEF Gleichwertig, GleicheVerbindung, Zaehlt
  <2>7. Phase(y.modus) = "Abbau" BY <2>4 DEF Phase
  <2> QED BY <1>3, <2>1, <2>5, <2>6, <2>7, ErlaubtGleich DEF GleicheVerbindung, Zaehlt
<1>10. CASE BusKdoSchluss
  <2> DEFINE e == [itx EXCEPT !.geraet = FALSE]
             x == ExterneVerbindungBeenden(e)
             y == ModusWechsel(IF itx.modus = "Ruhe" THEN itx ELSE x, "WarteGrundstellung")
  <2>1. TwiCode(y) BY <1>10 DEF BusKdoSchluss
  <2>2. Gleichwertig(e, itx) BY <1>2 DEF Station, Gleichwertig, GleicheVerbindung, Zaehlt
  <2>3. e \in Station BY <2>2 DEF Gleichwertig, GleicheVerbindung, Zaehlt
  <2> HIDE DEF e
  <2>4. Gleichwertig(x, e) BY <2>3, ExterneVerbindungBeendenTyp
  <2>5. Gleichwertig(x, itx) BY <2>2, <2>4, GleichwertigTransitiv
  <2>6. x \in Station BY <2>5 DEF Gleichwertig, GleicheVerbindung, Zaehlt
  <2> HIDE DEF x
  <2>7. GleicheVerbindung(y, itx) /\ y.modus = "WarteGrundstellung"
    BY <1>2, <2>5, <2>6, ModusWechselTyp DEF TModus, Gleichwertig, GleicheVerbindung, Zaehlt
  <2> HIDE DEF y
  <2>8. Haelt(y, "Waechter")
    BY <1>2, <2>7 DEF Haelt, GleicheVerbindung, Zaehlt, Ruhend, MitPartner
  <2>9. Phase(y.modus) = "Abbau" BY <2>7 DEF Phase
  <2> QED BY <1>3, <2>1, <2>7, <2>8, <2>9, ErlaubtGleich DEF GleicheVerbindung, Zaehlt
<1> QED BY <1>4, <1>5, <1>6, <1>7, <1>8, <1>9, <1>10 DEF Twi

(* Between the blocks of SocketBearbeiten only the connection changes, and *)
(* it may end.                                                             *)
SocketBloecke == {"Empfang", "Senden", "Abbruch", "Auswerten"}

LEMMA SocketBlock ==
    ASSUME NEW x \in Station, NEW y \in Station,
           NEW p \in {"Waechter", "Port", "Trennung"} \cup SocketBloecke,
           NEW q \in {"Port", "Trennung"} \cup SocketBloecke, Haelt(x, p),
           p \in SocketBloecke => q \in SocketBloecke,
           y.modus = x.modus, y.druck = x.druck,
           \/ y.mode = x.mode /\ y.ip = x.ip /\ Zaehlt(y, x)
           \/ y.mode = "Idle" /\ q \in SocketBloecke,
           y.handle # NO_SOCKET_USED => y.mode # "Idle"
    PROVE  Haelt(y, q)
BY DEF Haelt, SocketBloecke, Zaehlt

LEMMA SocketBlockErlaubt ==
    ASSUME NEW x, NEW y, y.modus = x.modus, (y.mode = x.mode /\ y.ip = x.ip) \/ y.mode = "Idle"
    PROVE  Erlaubt(y, x)
BY DEF Erlaubt

LEMMA OhneAbnehmerTyp ==
    ASSUME NEW x \in Station
    PROVE  Gleichwertig(OhneAbnehmer(x), x)
<1>1. Gleichwertig([x EXCEPT !.in = << >>], x) BY InTyp, LeerTyp
<1>2. Gleichwertig(x, x) BY DEF Gleichwertig, GleicheVerbindung, Zaehlt
<1> QED BY <1>1, <1>2 DEF OhneAbnehmer

LEMMA WaechterSchritt ==
    ASSUME IInv, Waechter
    PROVE  Schritt
<1> DEFINE y == InterneVerbindungBeenden(itx, TRUE)
           z == [y EXCEPT !.abbau = TRUE]
           w == InSocketOutBuf(z)
<1>1. pc = "Waechter" /\ pc' = "Port" /\ pc' \in Bloecke BY DEF Waechter, Weiter, Bloecke
<1>2. itx \in Station /\ NetzOK /\ Haelt(itx, "Waechter") BY <1>1 DEF IInv
<1>3. UNCHANGED netz BY DEF Waechter
<1>4. itx' \in {itx, w} BY DEF Waechter
<1>5. /\ GleicheVerbindung(y, itx) /\ y.druck = itx.druck
      /\ \/ y.modus = itx.modus
         \/ y.modus \in {"WarteSchlussQuitt", "WarteGrundstellung", "PufferDruckUndSchluss"}
  BY <1>2, InterneVerbindungBeendenTyp
<1>6. y \in Station BY <1>5 DEF GleicheVerbindung, Zaehlt
<1> HIDE DEF y
<1>7. Gleichwertig(z, y) BY <1>6, AbbauTyp
<1>8. z \in Station BY <1>7 DEF Gleichwertig, GleicheVerbindung, Zaehlt
<1> HIDE DEF z
<1>9. Gleichwertig(w, z) BY <1>8, InSocketOutBufTyp
<1> HIDE DEF w
<1>10. Gleichwertig(w, y) BY <1>7, <1>9, GleichwertigTransitiv
<1>11. Haelt(w, "Port") /\ Haelt(itx, "Port")
  BY <1>2, <1>5, <1>10 DEF Haelt, Gleichwertig, GleicheVerbindung, Zaehlt, Ruhend, MitPartner
<1>12. /\ GleicheVerbindung(itx', itx) /\ Haelt(itx', "Port")
       /\ itx'.modus \in {itx.modus, "WarteSchlussQuitt", "WarteGrundstellung",
                          "PufferDruckUndSchluss"}
  BY <1>2, <1>4, <1>5, <1>10, <1>11 DEF Gleichwertig, GleicheVerbindung, Zaehlt
<1>13. Phase(itx'.modus) \in {Phase(itx.modus), "Abbau"} BY <1>12 DEF Phase
<1> QED BY <1>1, <1>3, <1>12, <1>13, NurModus

LEMMA PortSchritt ==
    ASSUME IInv, Port
    PROVE  Schritt
<1>1. pc = "Port" /\ pc' = "Trennung" /\ pc' \in Bloecke BY DEF Port, Weiter, Bloecke
<1>2. itx \in Station /\ NetzOK /\ Haelt(itx, "Port") BY <1>1 DEF IInv
<1>3. \/ itx' = OhneAbnehmer(itx) /\ UNCHANGED tcp
      \/ \E K \in SUBSET Slots, neu \in Slots :
           PortRequest(K, neu) /\ (AnrufAnnehmen(K, neu) \/ AnrufAbweisen(K, neu))
  BY DEF Port, KeinAnruf, AnrufNochNichtSichtbar
<1>4. ASSUME itx' \in Station, tcp' \in Tabelle, Haelt(itx', "Trennung"),
             Neuvergabe \/ SocketPasst(itx', tcp'), Erlaubt(itx', itx)
      PROVE  Schritt
  <2>1. NetzOK' BY <1>2, <1>4 DEF NetzOK, Port
  <2> QED BY <1>1, <1>4, <2>1, SchrittRegel
<1>5. CASE itx' = OhneAbnehmer(itx) /\ UNCHANGED tcp
  <2>1. Gleichwertig(itx', itx) BY <1>2, <1>5, OhneAbnehmerTyp
  <2>2. Haelt(itx', "Trennung")
    BY <1>2, <2>1 DEF Haelt, Gleichwertig, GleicheVerbindung, Zaehlt
  <2>3. UNCHANGED netz BY <1>5 DEF Port, netz
  <2> QED BY <1>1, <2>1, <2>2, <2>3, NurModus DEF Gleichwertig
<1>6. ASSUME NEW K \in SUBSET Slots, NEW neu \in Slots,
             PortRequest(K, neu), AnrufAnnehmen(K, neu)
      PROVE  Schritt
  <2>1. /\ tcp' \in Tabelle /\ Fortsetzung(tcp', tcp)
        /\ tcp'[neu].st = "Ready" /\ tcp[neu].st = "Ready2Use"
        /\ tcp'[neu].peer = tcp[neu].peer /\ tcp[neu].peer \in Gegenstellen
    <3>1. tcp \in Tabelle /\ K \in SUBSET {k \in Slots : tcp[k].st = "Ready2Use"} /\ neu \in K
      BY <1>2, <1>6 DEF NetzOK, PortRequest, Wartend
    <3>2. tcp' = Angenommen(tcp, K) BY <1>6 DEF AnrufAnnehmen
    <3>3. tcp'[neu] = [tcp[neu] EXCEPT !.st = "Ready"] BY <3>1, <3>2 DEF Angenommen
    <3>4. tcp[neu] \in Socket /\ tcp[neu].peer \in Gegenstellen BY <3>1 DEF Tabelle
    <3> QED BY <3>1, <3>2, <3>3, <3>4, AngenommenTyp DEF Socket
  <2>0. ASSUME itx' \in Station, itx'.handle = neu, itx'.ip = tcp[neu].peer,
               itx'.blind = itx.blind
        PROVE  Neuvergabe \/ SocketPasst(itx', tcp')
    <3>1. Neuvergabe \/ SocketPasst(itx, tcp) BY DEF IInv
    <3> QED BY <1>2, <2>0, <2>1, <3>1 DEF SocketPasst, Fortsetzung, Station
  <2>2. CASE itx.mode = "Idle"
    <3>1. itx' = KommendeVerbindungInitialisieren(itx, neu) BY <1>6, <2>2 DEF AnrufAnnehmen
    <3>2. /\ itx' \in Station /\ itx'.mode = "Answer" /\ itx'.modus = "KommendVerbVorstufe"
          /\ itx'.ip = tcp[neu].peer /\ itx'.handle = neu /\ itx'.blind = itx.blind
          /\ itx.modus # "KommendVerbVorstufe" => itx'.fehler = 0
      BY <1>2, <3>1, KommendTyp DEF NetzOK
    <3>4. itx.modus = "Ruhe" BY <1>6, <2>2 DEF AnrufAnnehmen, Annehmbar
    <3>3. Haelt(itx', "Trennung") BY <2>1, <3>2, <3>4 DEF Haelt, Ruhend
    <3>5. Erlaubt(itx', itx) BY <2>1, <2>2, <3>2, <3>4 DEF Erlaubt, Phase
    <3> QED BY <1>4, <2>0, <2>1, <3>2, <3>3, <3>5
  <2>3. CASE itx.mode # "Idle"
    <3> DEFINE y == [itx EXCEPT !.handle = neu]
    <3>1. itx' = OhneAbnehmer(y) BY <1>6, <2>3 DEF AnrufAnnehmen
    <3>2. /\ y \in Station /\ y.mode = itx.mode /\ y.ip = itx.ip /\ y.handle = neu
          /\ y.modus = itx.modus /\ y.druck = itx.druck /\ y.blind = itx.blind
          /\ Zaehlt(y, itx)
      BY <1>2, HandleTyp
    <3> HIDE DEF y
    <3>3. Gleichwertig(itx', y) BY <3>1, <3>2, OhneAbnehmerTyp
    <3>4. Haelt(itx', "Trennung")
      BY <1>2, <2>3, <3>2, <3>3 DEF Haelt, Gleichwertig, GleicheVerbindung, Zaehlt
    <3>5. itx.ip = tcp[neu].peer BY <1>6, <2>3 DEF AnrufAnnehmen, Annehmbar
    <3>6. /\ itx' \in Station /\ itx'.mode = itx.mode /\ itx'.ip = itx.ip /\ itx'.handle = neu
          /\ itx'.modus = itx.modus /\ itx'.blind = itx.blind
      BY <3>2, <3>3 DEF Gleichwertig, GleicheVerbindung, Zaehlt
    <3> QED BY <1>4, <2>0, <2>1, <3>4, <3>5, <3>6, SocketBlockErlaubt
  <2> QED BY <2>2, <2>3
<1>7. ASSUME NEW K \in SUBSET Slots, NEW neu \in Slots,
             PortRequest(K, neu), AnrufAbweisen(K, neu)
      PROVE  Schritt
  <2> DEFINE y == [itx EXCEPT !.blind = neu]
             t == CloseTCPSocket(Angenommen(tcp, K), itx.blind)
  <2>1. itx' = OhneAbnehmer(y) /\ tcp' \in {t, CloseTCPSocket(t, neu)}
    BY <1>7 DEF AnrufAbweisen
  <2>2. /\ y \in Station /\ y.mode = itx.mode /\ y.handle = itx.handle /\ y.ip = itx.ip
        /\ y.modus = itx.modus /\ y.druck = itx.druck /\ y.blind = neu
        /\ Zaehlt(y, itx)
    BY <1>2 DEF Station, Zaehlt
  <2>3. tcp \in Tabelle /\ K \in SUBSET {k \in Slots : tcp[k].st = "Ready2Use"} /\ neu \in K
    BY <1>2, <1>7 DEF NetzOK, PortRequest, Wartend
  <2> DEFINE a == Angenommen(tcp, K)
  <2>4. a \in Tabelle /\ Fortsetzung(a, tcp) BY <2>3, AngenommenTyp
  <2>5. a[neu].st = "Ready" BY <2>3 DEF Angenommen, Tabelle, Socket
  <2> HIDE DEF a
  <2>6. t = CloseTCPSocket(a, itx.blind) BY DEF a
  <2>7. t \in Tabelle /\ Fortsetzung(t, a) BY <2>4, <2>6, CloseTyp
  <2> HIDE DEF y, t
  <2>8. Gleichwertig(itx', y) BY <2>1, <2>2, OhneAbnehmerTyp
  <2>9. tcp' \in Tabelle /\ Fortsetzung(tcp', t) BY <2>1, <2>7, CloseTyp, FortsetzungSelbst
  <2>10. Haelt(itx', "Trennung")
    BY <1>2, <2>2, <2>8 DEF Haelt, Gleichwertig, GleicheVerbindung, Zaehlt
  <2>11. /\ itx' \in Station /\ itx'.mode = itx.mode /\ itx'.handle = itx.handle
         /\ itx'.ip = itx.ip /\ itx'.modus = itx.modus /\ itx'.blind = neu
    BY <2>2, <2>8 DEF Gleichwertig, GleicheVerbindung, Zaehlt
  <2>12. tcp'[neu].st # "Ready2Use" BY <2>5, <2>7, <2>9 DEF Fortsetzung
  <2>13. Fortsetzung(tcp', tcp) BY <2>4, <2>7, <2>9, FortsetzungTransitiv
  <2>14. Neuvergabe \/ SocketPasst(itx', tcp')
    <3>1. Neuvergabe \/ SocketPasst(itx, tcp) BY DEF IInv
    <3> QED BY <1>2, <2>3, <2>11, <2>12, <2>13, <3>1 DEF SocketPasst, Fortsetzung, Station
  <2> QED BY <1>4, <2>9, <2>10, <2>11, <2>14, SocketBlockErlaubt
<1> QED BY <1>3, <1>5, <1>6, <1>7

LEMMA TrennungSchritt ==
    ASSUME IInv, Trennung
    PROVE  Schritt
<1> DEFINE h == [itx EXCEPT !.handle = NO_SOCKET_USED]
           y == [h EXCEPT !.abbruchUm = FALSE]
           z == OhneVerbindung(OhnePuffer(y))
<1>1. /\ pc = "Trennung" /\ pc' = "Auswerten" /\ pc' \in Bloecke
  BY DEF Trennung, Weiter, Bloecke
<1>2. itx \in Station /\ NetzOK /\ Haelt(itx, "Trennung") BY <1>1 DEF IInv
<1>3. NetzOK' /\ Fortsetzung(tcp', tcp) BY <1>2, CloseTyp DEF NetzOK, Trennung
<1>4. [itx EXCEPT !.handle = NO_SOCKET_USED, !.abbruchUm = FALSE] = y
  BY <1>2 DEF Station
<1>5. itx' = y \/ itx' = z BY <1>4 DEF Trennung
<1>6. /\ h \in Station /\ h.handle = NO_SOCKET_USED /\ h.mode = itx.mode /\ h.ip = itx.ip
      /\ h.modus = itx.modus /\ h.druck = itx.druck /\ h.blind = itx.blind
      /\ Zaehlt(h, itx)
  BY <1>2, HandleTyp
<1> HIDE DEF h
<1>7. Gleichwertig(y, h) BY <1>6, AbbruchUmTyp
<1>8. y \in Station BY <1>7 DEF Gleichwertig, GleicheVerbindung, Zaehlt
<1> HIDE DEF y
<1> DEFINE p == OhnePuffer(y)
<1>9. /\ p \in Station /\ p.handle = y.handle /\ p.blind = y.blind
      /\ p.modus = y.modus /\ p.druck = y.druck
  BY <1>8, OhnePufferTyp
<1> HIDE DEF p
<1>10. /\ z \in Station /\ z.mode = "Idle" /\ z.modus = itx.modus
       /\ z.handle = NO_SOCKET_USED /\ z.druck = itx.druck /\ z.blind = itx.blind
  <2> DEFINE q == OhneVerbindung(p)
  <2>1. /\ q \in Station /\ q.mode = "Idle"
        /\ q.modus = p.modus /\ q.handle = p.handle /\ q.druck = p.druck
        /\ q.blind = p.blind
    BY <1>9, OhneVerbindungTyp
  <2> HIDE DEF q
  <2>2. z = q BY DEF q, p
  <2> QED BY <1>6, <1>7, <1>9, <2>1, <2>2 DEF Gleichwertig, GleicheVerbindung
<1> HIDE DEF z
<1>11. itx' \in Station /\ Haelt(itx', "Auswerten")
  BY <1>2, <1>5, <1>6, <1>7, <1>8, <1>10, SocketBlock
     DEF Gleichwertig, GleicheVerbindung, Zaehlt, SocketBloecke
<1>12. /\ itx'.mode = "Idle" \/ (itx'.mode = itx.mode /\ itx'.ip = itx.ip)
       /\ itx'.modus = itx.modus
       /\ itx'.handle = NO_SOCKET_USED /\ itx'.blind = itx.blind
  BY <1>5, <1>6, <1>7, <1>10 DEF Gleichwertig, GleicheVerbindung, Zaehlt
<1>13. Anschluss(itx', itx) BY <1>12 DEF Anschluss
<1> QED BY <1>1, <1>3, <1>11, <1>12, <1>13, OhneNeue, SocketBlockErlaubt

LEMMA KeineTrennungSchritt ==
    ASSUME IInv, KeineTrennung
    PROVE  Schritt
<1>1. /\ pc = "Trennung" /\ pc' = "Empfang" /\ pc' \in Bloecke
  BY DEF KeineTrennung, Weiter, Bloecke
<1>2. itx \in Station /\ NetzOK /\ Haelt(itx, "Trennung") BY <1>1 DEF IInv
<1>3. itx' = itx /\ UNCHANGED netz BY DEF KeineTrennung
<1>4. Haelt(itx', "Empfang") BY <1>2, <1>3 DEF Haelt
<1> QED BY <1>1, <1>2, <1>3, <1>4, NurModus DEF GleicheVerbindung, Zaehlt

LEMMA PlanmaessigerAbbauSchritt ==
    ASSUME IInv, PlanmaessigerAbbau
    PROVE  Schritt
<1> DEFINE h == [itx EXCEPT !.handle = NO_SOCKET_USED]
<1>1. /\ pc = "Trennung" /\ pc' = "Empfang" /\ pc' \in Bloecke
  BY DEF PlanmaessigerAbbau, Weiter, Bloecke
<1>2. itx \in Station /\ NetzOK /\ Haelt(itx, "Trennung") BY <1>1 DEF IInv
<1>3. NetzOK' /\ Fortsetzung(tcp', tcp) BY <1>2, CloseTyp DEF NetzOK, PlanmaessigerAbbau
<1>4. itx' = OhneVerbindung(h) BY DEF PlanmaessigerAbbau
<1>5. /\ h \in Station /\ h.handle = NO_SOCKET_USED
      /\ h.modus = itx.modus /\ h.druck = itx.druck /\ h.blind = itx.blind
  BY <1>2, HandleTyp
<1> HIDE DEF h
<1>6. /\ itx' \in Station /\ itx'.mode = "Idle" /\ itx'.handle = NO_SOCKET_USED
      /\ itx'.modus = itx.modus /\ itx'.druck = itx.druck /\ itx'.blind = itx.blind
  BY <1>4, <1>5, OhneVerbindungTyp
<1>7. Haelt(itx', "Empfang") BY <1>2, <1>6, SocketBlock DEF SocketBloecke
<1>8. Anschluss(itx', itx) BY <1>6 DEF Anschluss
<1> QED BY <1>1, <1>3, <1>6, <1>7, <1>8, OhneNeue, SocketBlockErlaubt

LEMMA EmpfangSchritt ==
    ASSUME IInv, Empfang
    PROVE  Schritt
<1>1. /\ pc = "Empfang" /\ pc' = "Senden" /\ pc' \in Bloecke
  BY DEF Empfang, Weiter, Bloecke
<1>2. itx \in Station /\ NetzOK /\ Haelt(itx, "Empfang") BY <1>1 DEF IInv
<1>3. Haelt(itx, "Senden") BY <1>2, SocketBlock DEF SocketBloecke, Haelt
<1>4. SUFFICES Fortsetzung(tcp', tcp) /\ Gleichwertig(itx', itx)
  <2>1. NetzOK' BY <1>2, <1>4 DEF NetzOK, Empfang, Fortsetzung
  <2>2. Haelt(itx', "Senden") BY <1>3, <1>4 DEF Haelt, Gleichwertig, GleicheVerbindung, Zaehlt
  <2>3. Erlaubt(itx', itx) /\ Anschluss(itx', itx)
    BY <1>4, ErlaubtGleich DEF Gleichwertig
  <2> QED BY <1>1, <1>4, <2>1, <2>2, <2>3, OhneNeue DEF Gleichwertig, GleicheVerbindung, Zaehlt
<1>5. CASE itx.handle = NO_SOCKET_USED \/ Len(itx.in) >= SocketInBufMax
  <2>1. itx' = itx /\ tcp' = tcp BY <1>5 DEF Empfang, Empfangen
  <2> QED BY <1>2, <2>1, FortsetzungSelbst DEF NetzOK, Gleichwertig, GleicheVerbindung, Zaehlt
<1>6. CASE ~(itx.handle = NO_SOCKET_USED \/ Len(itx.in) >= SocketInBufMax)
  <2> DEFINE rx == tcp[itx.handle].rx
             n == Kleiner(Len(rx), SocketInBufMax - Len(itx.in))
             teil == SubSeq(rx, 1, n)
             neu == itx.in \o teil
             rest == SubSeq(rx, n + 1, Len(rx))
  <2>1. itx.handle \in Slots BY <1>2, <1>6 DEF Station
  <2>2. rx \in Seq(Item) BY <1>2, <2>1 DEF NetzOK, Tabelle, Socket
  <2>3. itx.in \in Seq(Item) /\ Len(itx.in) \in Nat /\ Len(itx.in) <= SocketInBufMax
    BY <1>2, PufferTyp, Groessen, BisTyp
  <2>4. /\ itx' = [itx EXCEPT !.in = neu, !.abbruchUm = FALSE]
        /\ tcp' = [tcp EXCEPT ![itx.handle].rx = rest]
    BY <1>6 DEF Empfang, Empfangen
  <2> HIDE DEF rx
  <2>5. n \in 0 .. Len(rx) /\ n <= SocketInBufMax - Len(itx.in)
    <3>1. Len(rx) \in Nat BY <2>2
    <3>2. SocketInBufMax - Len(itx.in) \in Nat BY <1>6, <2>3, Groessen
    <3> QED BY <2>3, <3>1, <3>2 DEF Kleiner
  <2> HIDE DEF n
  <2>6. /\ teil \in Seq(Item) /\ rest \in Seq(Item)
        /\ Len(teil) = n
    BY <2>2, <2>5, SubSeqProperties
  <2> HIDE DEF teil
  <2>7. neu \in Bis(Item, SocketInBufMax)
    <3>1. neu \in Seq(Item) /\ Len(neu) = Len(itx.in) + n BY <2>3, <2>6
    <3>2. Len(neu) <= SocketInBufMax BY <2>3, <2>5, <3>1, Groessen
    <3> QED BY <3>1, <3>2 DEF Bis
  <2> HIDE DEF neu, rest
  <2>8. Fortsetzung(tcp', tcp) BY <1>2, <2>1, <2>4, <2>6, RxTyp DEF NetzOK
  <2>9. Gleichwertig(itx', itx)
    <3>1. itx' \in Station BY <1>2, <2>4, <2>7 DEF Station
    <3> QED BY <1>2, <2>4, <3>1 DEF Station, Gleichwertig, GleicheVerbindung, Zaehlt
  <2> QED BY <2>8, <2>9
<1> QED BY <1>5, <1>6

(* y is what sending may make of x. *)
Ueberlebt(y, x) ==
    /\ y \in Station /\ y.modus = x.modus /\ y.druck = x.druck /\ y.blind = x.blind
    /\ \/ /\ y.mode = x.mode /\ y.ip = x.ip /\ y.handle \in {x.handle, NO_SOCKET_USED}
          /\ Zaehlt(y, x)
       \/ y.mode = "Idle" /\ y.handle = NO_SOCKET_USED

LEMMA AllesGesendetTyp ==
    ASSUME NEW x \in Station
    PROVE  Gleichwertig(AllesGesendet(x), x)
<1> DEFINE y == AllesGesendet(x)
<1>0. 0 \in 0 .. 255 OBVIOUS
<1>1. y \in Station BY <1>0, LeerTyp DEF AllesGesendet, Station
<1>2. /\ y.mode = x.mode /\ y.handle = x.handle /\ y.ip = x.ip /\ y.blind = x.blind
      /\ y.modus = x.modus /\ y.druck = x.druck /\ y.fehler = 0
  BY DEF AllesGesendet, Station
<1> HIDE DEF y
<1>3. Gleichwertig(y, x) BY <1>1, <1>2 DEF Gleichwertig, GleicheVerbindung, Zaehlt
<1> QED BY <1>3 DEF y

LEMMA TeilGesendetTyp ==
    ASSUME NEW x \in Station, Len(x.out) > 1
    PROVE  Gleichwertig(TeilGesendet(x), x)
<1> DEFINE o == Tail(x.out)
           y == [x EXCEPT !.out = o, !.fehler = 0]
<1>1. o \in Bis(Partner, SocketOutBufMax)
  <2>1. x.out \in Bis(Partner, SocketOutBufMax) /\ x.out # << >> BY PufferTyp
  <2> QED BY <2>1, Groessen, BisRest
<1>2. TeilGesendet(x) = y BY DEF TeilGesendet
<1> HIDE DEF o
<1>0. 0 \in 0 .. 255 OBVIOUS
<1>3. y \in Station BY <1>0, <1>1 DEF Station
<1>4. /\ y.mode = x.mode /\ y.handle = x.handle /\ y.ip = x.ip /\ y.blind = x.blind
      /\ y.modus = x.modus /\ y.druck = x.druck /\ y.fehler = 0
  BY DEF Station
<1> HIDE DEF y
<1> QED BY <1>2, <1>3, <1>4 DEF Gleichwertig, GleicheVerbindung, Zaehlt

LEMMA UmlaufTyp == \A k \in 0 .. 255 : (k + 1) % 256 \in 0 .. 255
<1> TAKE k \in 0 .. 255
<1>1. CASE k = 255
  <2>1. (k + 1) % 256 = 0 BY <1>1
  <2> QED BY <2>1
<1>2. CASE k # 255
  <2>1. (k + 1) % 256 = k + 1 BY <1>2
  <2> QED BY <2>1, <1>2
<1> QED BY <1>1, <1>2

LEMMA NichtsGesendetTyp ==
    ASSUME NEW x \in Station, x.out # << >>
    PROVE  Ueberlebt(NichtsGesendet(x), x)
<1> DEFINE n == (x.fehler + 1) % 256
           y == [x EXCEPT !.fehler = n]
           z == [y EXCEPT !.handle = NO_SOCKET_USED]
           p == OhnePuffer(z)
           w == OhneVerbindung(p)
<1>1. n \in 0 .. 255
  <2>1. x.fehler \in 0 .. 255 BY DEF Station
  <2> HIDE DEF y, z, p, w
  <2> QED BY <2>1, UmlaufTyp
<1>2. NichtsGesendet(x) \in {y, z, w} BY DEF NichtsGesendet
<1> HIDE DEF n
<1>3. y \in Station BY <1>1 DEF Station
<1>4. /\ y.mode = x.mode /\ y.handle = x.handle /\ y.ip = x.ip /\ y.blind = x.blind
      /\ y.modus = x.modus /\ y.druck = x.druck /\ y.out = x.out
  BY DEF Station
<1> HIDE DEF y
<1>5. /\ z \in Station /\ z.handle = NO_SOCKET_USED /\ z.blind = y.blind
      /\ z.mode = y.mode /\ z.ip = y.ip /\ z.modus = y.modus /\ z.druck = y.druck
      /\ z.out = y.out
  BY <1>3 DEF Station
<1> HIDE DEF z
<1>6. /\ p \in Station /\ p.handle = z.handle /\ p.blind = z.blind
      /\ p.modus = z.modus /\ p.druck = z.druck
  BY <1>5, OhnePufferTyp
<1> HIDE DEF p
<1>7. /\ w \in Station /\ w.mode = "Idle"
      /\ w.modus = p.modus /\ w.handle = p.handle /\ w.druck = p.druck
      /\ w.blind = p.blind
  BY <1>6, OhneVerbindungTyp
<1> HIDE DEF w
<1> QED BY <1>2, <1>3, <1>4, <1>5, <1>6, <1>7 DEF Ueberlebt, Zaehlt

LEMMA SendenOderWartenTyp ==
    ASSUME NEW x \in Station, NEW t \in Tabelle, SendenOderWarten(x, t)
    PROVE  Fortsetzung(tcp', t) /\ Ueberlebt(itx', x)
<1>0. Fortsetzung(t, t) BY FortsetzungSelbst
<1>1. ASSUME Gleichwertig(itx', x) PROVE Ueberlebt(itx', x)
  BY <1>1 DEF Gleichwertig, GleicheVerbindung, Zaehlt, Ueberlebt
<1>2. CASE itx' = x /\ tcp' = t BY <1>0, <1>2 DEF Ueberlebt, Zaehlt
<1>3. CASE x.out # << >> /\ Senden1(x, t)
  <2>1. CASE tcp' = t /\ itx' = AllesGesendet(x) BY <1>0, <1>1, <2>1, AllesGesendetTyp
  <2>2. CASE tcp' = t /\ Len(x.out) > 1 /\ itx' = TeilGesendet(x)
    BY <1>0, <1>1, <2>2, TeilGesendetTyp
  <2>3. CASE tcp' = CloseTCPSocket(t, x.handle) /\ itx' = NichtsGesendet(x)
    BY <1>3, <2>3, CloseTyp, NichtsGesendetTyp
  <2> QED BY <1>3, <2>1, <2>2, <2>3 DEF Senden1
<1> QED BY <1>2, <1>3 DEF SendenOderWarten

LEMMA MitLebenszeichenTyp ==
    ASSUME NEW x \in Station
    PROVE  Gleichwertig(MitLebenszeichen(x), x)
<1>1. Gleichwertig(InSocketOutBuf(x), x) BY InSocketOutBufTyp
<1>2. Gleichwertig(x, x) BY DEF Gleichwertig, GleicheVerbindung, Zaehlt
<1> QED BY <1>1, <1>2 DEF MitLebenszeichen

LEMMA SendenSchritt ==
    ASSUME IInv, Senden
    PROVE  Schritt
<1>1. PICK x \in {itx, MitLebenszeichen(itx)} :
        Gesendet(x) \/ WiederaufbauSpaeter(x) \/ WiederaufbauMisslungen(x) \/ Wiederaufbau(x)
  BY DEF Senden
<1>2. pc = "Senden" /\ pc' \in {"Abbruch", "Auswerten"} /\ pc' \in Bloecke
  BY <1>1 DEF Gesendet, WiederaufbauSpaeter, WiederaufbauMisslungen, Wiederaufbau,
              Weiter, Bloecke
<1>3. itx \in Station /\ NetzOK /\ Haelt(itx, "Senden") BY <1>2 DEF IInv
<1>4. Gleichwertig(x, itx)
  BY <1>1, <1>3, MitLebenszeichenTyp DEF Gleichwertig, GleicheVerbindung, Zaehlt
<1>5. x \in Station BY <1>4 DEF Gleichwertig, GleicheVerbindung, Zaehlt
<1>6. ASSUME tcp' \in Tabelle, anrufe' \in Nat, itx' \in Station,
             itx'.modus = x.modus, itx'.druck = x.druck,
             itx'.mode = "Idle" \/ (itx'.mode = x.mode /\ itx'.ip = x.ip /\ Zaehlt(itx', x)),
             itx'.handle # NO_SOCKET_USED => itx'.mode # "Idle",
             Neuvergabe \/ SocketPasst(itx', tcp')
      PROVE  Schritt
  <2>1. NetzOK' BY <1>3, <1>6 DEF NetzOK, Senden
  <2>2. Haelt(itx', pc')
    BY <1>2, <1>3, <1>4, <1>6, SocketBlock
       DEF SocketBloecke, Gleichwertig, GleicheVerbindung, Zaehlt
  <2>3. Erlaubt(itx', itx)
    BY <1>4, <1>6, SocketBlockErlaubt DEF Gleichwertig, GleicheVerbindung, Zaehlt
  <2> QED BY <1>2, <1>6, <2>1, <2>2, <2>3, SchrittRegel
<1>7. x.handle # NO_SOCKET_USED => x.mode # "Idle"
  BY <1>3, <1>4 DEF Haelt, Gleichwertig, GleicheVerbindung, Zaehlt
<1>8. CASE Gesendet(x)
  <2>1. Fortsetzung(tcp', tcp) /\ Ueberlebt(itx', x)
    BY <1>3, <1>5, <1>8, SendenOderWartenTyp DEF Gesendet, NetzOK
  <2>2. tcp' \in Tabelle /\ anrufe' \in Nat
    BY <1>3, <1>8, <2>1 DEF Gesendet, NetzOK, Fortsetzung
  <2>3. Anschluss(itx', itx)
    BY <1>4, <2>1 DEF Anschluss, Ueberlebt, Gleichwertig, GleicheVerbindung, Zaehlt
  <2>4. Neuvergabe \/ SocketPasst(itx', tcp')
    BY <1>3, <2>1, <2>3, SocketBleibt DEF IInv, NetzOK, Ueberlebt
  <2> QED BY <1>6, <1>7, <2>1, <2>2, <2>4 DEF Ueberlebt
<1>9. CASE WiederaufbauSpaeter(x) \/ WiederaufbauMisslungen(x)
  <2>1. itx' = x /\ tcp' = tcp /\ tcp' \in Tabelle /\ anrufe' \in Nat
    BY <1>3, <1>9 DEF WiederaufbauSpaeter, WiederaufbauMisslungen, NetzOK
  <2>2. Anschluss(x, itx) BY <1>4 DEF Anschluss, Gleichwertig, GleicheVerbindung, Zaehlt
  <2>3. Neuvergabe \/ SocketPasst(itx', tcp')
    BY <1>3, <1>5, <2>1, <2>2, SocketBleibt, FortsetzungSelbst DEF IInv, NetzOK
  <2>4. Zaehlt(x, x) BY DEF Zaehlt
  <2> QED BY <1>5, <1>6, <1>7, <2>1, <2>3, <2>4
<1>10. CASE Wiederaufbau(x)
  <2>1. PICK s \in Slots :
          /\ Connect2IP(s)
          /\ SendenOderWarten([x EXCEPT !.handle = s],
                              [tcp EXCEPT ![s] = NeuerSocket("Ready", x.ip)])
    BY <1>10 DEF Wiederaufbau
  <2> DEFINE y == [x EXCEPT !.handle = s]
             t == [tcp EXCEPT ![s] = NeuerSocket("Ready", x.ip)]
  <2>2. /\ y \in Station /\ y.mode = x.mode /\ y.ip = x.ip /\ y.handle = s
        /\ y.modus = x.modus /\ y.druck = x.druck /\ y.blind = x.blind
        /\ Zaehlt(y, x)
    BY <1>5, HandleTyp
  <2>3. x.ip \in Gegenstellen
    BY <1>3, <1>4, <1>10
       DEF Haelt, Wiederaufbau, WiederaufbauNoetig, Gleichwertig, GleicheVerbindung, Zaehlt
  <2>4. t \in Tabelle BY <1>3, <2>3, NeuerSocketTyp DEF NetzOK, SocketStates
  <2>5. SendenOderWarten(y, t) BY <2>1
  <2>6. Neuvergabe \/ SocketPasst(y, t)
    <3>1. CASE ~Neuvergabe
      <4>1. SocketPasst(itx, tcp) /\ s # itx.blind BY <2>1, <3>1 DEF IInv, Connect2IP, Frei
      <4>2. y.blind = itx.blind BY <1>4, <2>2 DEF Gleichwertig, GleicheVerbindung, Zaehlt
      <4> QED BY <1>3, <2>2, <2>3, <4>1, <4>2, NeuerEintragPasst DEF NetzOK
    <3> QED BY <3>1
  <2> HIDE DEF y, t
  <2>7. Fortsetzung(tcp', t) /\ Ueberlebt(itx', y) BY <2>2, <2>4, <2>5, SendenOderWartenTyp
  <2>8. tcp' \in Tabelle /\ anrufe' \in Nat
    BY <1>3, <2>1, <2>7 DEF Connect2IP, NetzOK, Fortsetzung
  <2>9. x.mode = "Originate" BY <1>10 DEF Wiederaufbau, WiederaufbauNoetig
  <2>10. Anschluss(itx', y) BY <2>7 DEF Anschluss, Ueberlebt
  <2>11. Neuvergabe \/ SocketPasst(itx', tcp')
    BY <2>2, <2>4, <2>6, <2>7, <2>10, SocketBleibt DEF Ueberlebt
  <2> QED BY <1>6, <2>2, <2>7, <2>8, <2>9, <2>11 DEF Ueberlebt, Zaehlt
<1> QED BY <1>1, <1>8, <1>9, <1>10

LEMMA AbbruchSchritt ==
    ASSUME IInv, Abbruch
    PROVE  Schritt
<1> DEFINE a == Aufgegeben(itx)
           b == [a EXCEPT !.blind = NO_SOCKET_USED]
           o == OhneVerbindung(OhnePuffer(itx))
<1>1. pc = "Abbruch" /\ pc' = "Auswerten" /\ pc' \in Bloecke
  BY DEF Abbruch, BlindBleibt, BlindEnde, Weiter, Bloecke
<1>2. itx \in Station /\ NetzOK /\ Haelt(itx, "Abbruch") BY <1>1 DEF IInv
<1>3. NetzOK' /\ Fortsetzung(tcp', tcp)
  BY <1>2, CloseTyp, FortsetzungSelbst DEF NetzOK, Abbruch, BlindBleibt, BlindEnde, netz
<1>4. itx' \in {a, b} BY DEF Abbruch, BlindBleibt, BlindEnde
<1>5. a \in {itx, o} BY DEF Aufgegeben
<1>6. a = o => itx.handle = NO_SOCKET_USED \/ a = itx BY DEF Aufgegeben
<1> HIDE DEF a
<1> DEFINE p == OhnePuffer(itx)
<1>7. /\ p \in Station /\ p.handle = itx.handle /\ p.blind = itx.blind
      /\ p.modus = itx.modus /\ p.druck = itx.druck
  BY <1>2, OhnePufferTyp
<1> HIDE DEF p
<1>8. /\ o \in Station /\ o.mode = "Idle" /\ o.blind = itx.blind
      /\ o.modus = itx.modus /\ o.handle = itx.handle /\ o.druck = itx.druck
  <2> DEFINE q == OhneVerbindung(p)
  <2>1. /\ q \in Station /\ q.mode = "Idle"
        /\ q.modus = p.modus /\ q.handle = p.handle /\ q.druck = p.druck
        /\ q.blind = p.blind
    BY <1>7, OhneVerbindungTyp
  <2> HIDE DEF q
  <2>2. o = q BY DEF q, p
  <2> QED BY <1>7, <2>1, <2>2
<1> HIDE DEF o
<1>9. /\ a \in Station /\ a.modus = itx.modus /\ a.druck = itx.druck
      /\ a.mode = "Idle" \/ (a.mode = itx.mode /\ a.ip = itx.ip /\ Zaehlt(a, itx))
      /\ a.handle # NO_SOCKET_USED => a.mode # "Idle"
      /\ a.handle = itx.handle /\ a.blind = itx.blind
  BY <1>2, <1>5, <1>6, <1>8 DEF Haelt, Zaehlt
<1>10. /\ b \in Station /\ b.modus = a.modus /\ b.druck = a.druck /\ b.mode = a.mode
       /\ b.ip = a.ip /\ b.handle = a.handle /\ b.blind = NO_SOCKET_USED
       /\ b.fehler = a.fehler /\ b.out = a.out
  BY <1>9 DEF Station
<1> HIDE DEF b
<1>11. /\ itx' \in Station /\ itx'.modus = itx.modus /\ itx'.druck = itx.druck
       /\ itx'.mode = "Idle" \/ (itx'.mode = itx.mode /\ itx'.ip = itx.ip)
       /\ itx'.handle # NO_SOCKET_USED => itx'.mode # "Idle"
       /\ itx'.handle = itx.handle /\ itx'.blind \in {itx.blind, NO_SOCKET_USED}
  BY <1>4, <1>9, <1>10
<1>14. itx'.mode = "Idle" \/ Zaehlt(itx', itx)
  BY <1>4, <1>9, <1>10 DEF Zaehlt
<1>12. Haelt(itx', "Auswerten")
  BY <1>2, <1>11, <1>14, SocketBlock DEF SocketBloecke
<1>13. Anschluss(itx', itx)
  <2>1. itx.handle # NO_SOCKET_USED => itx'.ip = itx.ip
    BY <1>2, <1>4, <1>5, <1>6, <1>9, <1>10
  <2> QED BY <1>11, <2>1 DEF Anschluss
<1> QED BY <1>1, <1>3, <1>11, <1>12, <1>13, OhneNeue, SocketBlockErlaubt

(***************************************************************************)
(* The evaluation of the received data.  A telegram never leads to a mode  *)
(* in which the line has no connection, and what it does to the line is at *)
(* most to release it.                                                     *)
(***************************************************************************)
Folgt(y, x) ==
    /\ GleicheVerbindung(y, x)
    /\ y.modus \notin Ruhend
    /\ Phase(y.modus) \in {Phase(x.modus), "Abbau"}

LEMMA FolgtGleichwertig ==
    ASSUME NEW x, NEW y, x.modus \notin Ruhend, Gleichwertig(y, x)
    PROVE  Folgt(y, x)
BY DEF Folgt, Gleichwertig

LEMMA FolgtTransitiv ==
    ASSUME NEW x, NEW y, NEW z, Folgt(z, y), Folgt(y, x)
    PROVE  Folgt(z, x)
BY DEF Folgt, GleicheVerbindung, Zaehlt

LEMMA ModusWechselFolgt ==
    ASSUME NEW x \in Station, NEW neu \in TModus \ Ruhend,
           Phase(neu) \in {Phase(x.modus), "Abbau"}
    PROVE  Folgt(ModusWechsel(x, neu), x) /\ ModusWechsel(x, neu).modus = neu
BY ModusWechselTyp DEF Folgt

LEMMA AbgewiesenFolgt ==
    ASSUME NEW x \in Station
    PROVE  Folgt(Abgewiesen(x), x) /\ Abgewiesen(x).modus = "WarteGrundstellung"
<1> DEFINE y == SendeStopkommando(x)
           z == ModusWechsel(y, "WarteGrundstellung")
<1>1. Gleichwertig(y, x) BY ExterneVerbindungBeendenTyp
<1>2. y \in Station BY <1>1 DEF Gleichwertig, GleicheVerbindung, Zaehlt
<1> HIDE DEF y
<1>3. Folgt(z, y) /\ z.modus = "WarteGrundstellung"
  BY <1>2, ModusWechselFolgt DEF TModus, Ruhend, Phase
<1>4. Abgewiesen(x) = z BY DEF Abgewiesen, y
<1> HIDE DEF z
<1> QED BY <1>1, <1>3, <1>4 DEF Folgt, Gleichwertig, GleicheVerbindung, Zaehlt

LEMMA InternAnwaehlenFolgt ==
    ASSUME NEW x \in Station, Phase(x.modus) = "Kommend", NEW y \in InternAnwaehlen(x)
    PROVE  Folgt(y, x) /\ y.modus \in {"KommendWarteEinQuitt", "WarteGrundstellung"}
<1> DEFINE e == Einschalten(x)
           m == ModusWechsel(e, "KommendWarteEinQuitt")
<1>1. Gleichwertig(e, x) BY GeraetTyp
<1>2. e \in Station BY <1>1 DEF Gleichwertig, GleicheVerbindung, Zaehlt
<1>3. y \in {m, Abgewiesen(x)} BY DEF InternAnwaehlen
<1> HIDE DEF e
<1>4. Folgt(m, e) /\ m.modus = "KommendWarteEinQuitt"
  <2>1. Phase("KommendWarteEinQuitt") = Phase(e.modus) BY <1>1 DEF Gleichwertig, Phase
  <2> QED BY <1>2, <2>1, ModusWechselFolgt DEF TModus, Ruhend
<1> HIDE DEF m
<1>5. Folgt(m, x) BY <1>1, <1>4 DEF Folgt, Gleichwertig, GleicheVerbindung, Zaehlt
<1> QED BY <1>3, <1>4, <1>5, AbgewiesenFolgt

LEMMA DurchwahlGeprueftFolgt ==
    ASSUME NEW x \in Station, Phase(x.modus) = "Kommend", NEW y \in DurchwahlGeprueft(x)
    PROVE  Folgt(y, x)
<1>1. Phase("KommendEinschalten") = "Kommend" BY DEF Phase
<1>2. Folgt(ModusWechsel(x, "KommendEinschalten"), x)
  BY <1>1, ModusWechselFolgt DEF TModus, Ruhend
<1> QED BY <1>2, AbgewiesenFolgt DEF DurchwahlGeprueft

LEMMA RestTyp ==
    ASSUME NEW x \in Station, x.in # << >>
    PROVE  Gleichwertig(Rest(x), x) /\ x.in[1] \in Item
<1> DEFINE i == x.in
<1>1. i \in Bis(Item, SocketInBufMax) /\ i # << >> BY PufferTyp
<1>2. Rest(x) = [x EXCEPT !.in = Tail(i)] BY DEF Rest
<1> HIDE DEF i
<1>3. Tail(i) \in Bis(Item, SocketInBufMax) /\ i[1] \in Item BY <1>1, Groessen, BisRest
<1>4. Gleichwertig([x EXCEPT !.in = Tail(i)], x) BY <1>3, InTyp
<1> QED BY <1>2, <1>3, <1>4 DEF i

(* A telegram that is only taken out of the buffer, and sets the protocol. *)
LEMMA RestProtTyp ==
    ASSUME NEW x \in Station, x.in # << >>, NEW p \in Protokolle
    PROVE  Gleichwertig([Rest(x) EXCEPT !.prot = p], x)
<1>1. Gleichwertig(Rest(x), x) BY RestTyp
<1>2. Rest(x) \in Station BY <1>1 DEF Gleichwertig, GleicheVerbindung, Zaehlt
<1>3. Gleichwertig([Rest(x) EXCEPT !.prot = p], Rest(x)) BY <1>2, ProtTyp
<1> QED BY <1>1, <1>3, GleichwertigTransitiv

LEMMA AsciiZeichenFolgt ==
    ASSUME NEW x \in Station, x.in # << >>, AsciiPlatz(x), x.modus \notin Ruhend,
           NEW y \in AsciiZeichen(x)
    PROVE  Folgt(y, x)
<1> DEFINE r == Rest(x)
           a == Append(r.ascii, x.in[1].von)
           u == [r EXCEPT !.prot = "Ascii", !.abbau = FALSE, !.ascii = a]
           m == ModusWechsel(u, "WarteGrundstellung")
           v == [m EXCEPT !.abbau = TRUE]
<1>1. Gleichwertig(r, x) /\ x.in[1].von \in Herkunft
  BY RestTyp DEF Item, Herkunft, Partner
<1>2. r \in Station BY <1>1 DEF Gleichwertig, GleicheVerbindung, Zaehlt
<1>3. y \in {u, v} \/ (x.modus = "KommendVerbVorstufe" /\ y \in DurchwahlGeprueft(u))
  BY DEF AsciiZeichen
<1>4. a \in Bis(Herkunft, MaxPuffer)
  <2>1. r.ascii = x.ascii BY DEF Rest, Station
  <2> HIDE DEF r
  <2>2. r.ascii \in Bis(Herkunft, MaxPuffer) /\ Len(r.ascii) < MaxPuffer
    BY <1>2, <2>1, PufferTyp DEF AsciiPlatz
  <2> QED BY <1>1, <2>2, Groessen, BisAnhang
<1> HIDE DEF a, r
<1>5. Gleichwertig(u, r)
  <2>1. u \in Station BY <1>2, <1>4 DEF Station, Protokolle
  <2>2. /\ u.mode = r.mode /\ u.handle = r.handle /\ u.ip = r.ip /\ u.blind = r.blind
        /\ u.fehler = r.fehler /\ u.out = r.out /\ u.modus = r.modus /\ u.druck = r.druck
    BY <1>2 DEF Station
  <2> QED BY <2>1, <2>2 DEF Gleichwertig, GleicheVerbindung, Zaehlt
<1>6. u \in Station BY <1>5 DEF Gleichwertig, GleicheVerbindung, Zaehlt
<1> HIDE DEF u
<1>7. Folgt(u, x) BY <1>1, <1>5, FolgtGleichwertig, GleichwertigTransitiv
<1>8. Folgt(m, u)
  <2>1. Phase("WarteGrundstellung") = "Abbau" BY DEF Phase
  <2> QED BY <1>6, <2>1, ModusWechselFolgt DEF TModus, Ruhend
<1>9. m \in Station BY <1>8 DEF Folgt, GleicheVerbindung, Zaehlt
<1> HIDE DEF m
<1>10. Gleichwertig(v, m) BY <1>9, AbbauTyp
<1> HIDE DEF v
<1>11. Folgt(v, m) BY <1>8, <1>10 DEF Folgt, Gleichwertig
<1>12. Folgt(v, u) BY <1>8, <1>11, FolgtTransitiv
<1>13. ASSUME x.modus = "KommendVerbVorstufe", y \in DurchwahlGeprueft(u) PROVE Folgt(y, u)
  <2>1. Phase(u.modus) = "Kommend" BY <1>1, <1>5, <1>13 DEF Gleichwertig, Phase
  <2> QED BY <1>6, <1>13, <2>1, DurchwahlGeprueftFolgt
<1> QED BY <1>3, <1>7, <1>12, <1>13, FolgtTransitiv

LEMMA DurchwahlTelegrammFolgt ==
    ASSUME NEW x \in Station, x.in # << >>, x.modus \notin Ruhend,
           NEW y \in DurchwahlTelegramm(x)
    PROVE  Folgt(y, x)
<1> DEFINE r == Rest(x)
           u == [r EXCEPT !.prot = "iTelex", !.abbau = FALSE]
<1>1. Gleichwertig(r, x) BY RestTyp
<1>2. r \in Station BY <1>1 DEF Gleichwertig, GleicheVerbindung, Zaehlt
<1>3. y = u \/ (x.modus = "KommendVerbVorstufe" /\ y \in DurchwahlGeprueft(u))
  BY DEF DurchwahlTelegramm, Rest
<1> HIDE DEF r
<1>4. Gleichwertig(u, r)
  <2>1. u \in Station BY <1>2 DEF Station, Protokolle
  <2>2. /\ u.mode = r.mode /\ u.handle = r.handle /\ u.ip = r.ip /\ u.blind = r.blind
        /\ u.fehler = r.fehler /\ u.out = r.out /\ u.modus = r.modus /\ u.druck = r.druck
    BY <1>2 DEF Station
  <2> QED BY <2>1, <2>2 DEF Gleichwertig, GleicheVerbindung, Zaehlt
<1>5. u \in Station BY <1>4 DEF Gleichwertig, GleicheVerbindung, Zaehlt
<1> HIDE DEF u
<1>6. Folgt(u, x) BY <1>1, <1>4, FolgtGleichwertig, GleichwertigTransitiv
<1>7. ASSUME x.modus = "KommendVerbVorstufe", y \in DurchwahlGeprueft(u) PROVE Folgt(y, u)
  <2>1. Phase(u.modus) = "Kommend" BY <1>1, <1>4, <1>7 DEF Gleichwertig, Phase
  <2> QED BY <1>5, <1>7, <2>1, DurchwahlGeprueftFolgt
<1> QED BY <1>3, <1>6, <1>7, FolgtTransitiv

(* A complete block, and room for what it prints. *)
LEMMA BlockTyp ==
    ASSUME NEW x \in Station, BlockVollstaendig(x)
    PROVE  /\ x.in \in Seq(Item) /\ x.druck \in Seq(Herkunft) /\ x.in # << >>
           /\ Tail(x.in) \in Bis(Item, SocketInBufMax) /\ Tail(x.in) # << >>
<1>1. x.in \in Seq(Item) /\ Len(x.in) >= 2 /\ Len(x.druck) < MaxPuffer
  BY PufferTyp DEF BlockVollstaendig
<1>2. x.in # << >>
  <2>1. Len(<< >>) = 0 OBVIOUS
  <2> QED BY <1>1, <2>1
<1>3. /\ Tail(x.in) \in Bis(Item, SocketInBufMax) /\ Tail(x.in) # << >>
  <2>1. Tail(x.in) \in Bis(Item, SocketInBufMax) BY <1>2, PufferTyp, Groessen, BisRest
  <2> DEFINE t == Tail(x.in)
             k == Len(x.in)
             l == Len(t)
  <2>2. l = k - 1 BY <1>1, <1>2
  <2>3. k \in Nat /\ k >= 2 BY <1>1
  <2>4. l # 0
    <3> HIDE DEF k, l
    <3> QED BY <2>2, <2>3
  <2>5. t \in Bis(Item, SocketInBufMax) /\ Len(t) # 0 BY <2>1, <2>4
  <2> HIDE DEF t
  <2>6. t # << >>
    <3>1. Len(<< >>) = 0 OBVIOUS
    <3> QED BY <2>5, <3>1
  <2> QED BY <2>5, <2>6 DEF t
<1> QED BY <1>1, <1>2, <1>3, PufferTyp

LEMMA BaudotBlockFolgt ==
    ASSUME NEW x \in Station, BlockVollstaendig(x), x.modus \notin Ruhend,
           NEW y \in BaudotBlock(x)
    PROVE  Folgt(y, x)
<1> DEFINE i == Tail(Tail(x.in))
           d == Append(x.druck, x.in[1].von)
           u == [x EXCEPT !.in = i, !.prot = "iTelex", !.druck = d]
           m == ModusWechsel(u, "KommendEinschalten")
<1>1. Len(x.druck) < MaxPuffer BY DEF BlockVollstaendig
<1>2. x.in # << >> BY BlockTyp
<1>3. Tail(x.in) \in Bis(Item, SocketInBufMax) /\ Tail(x.in) # << >> BY BlockTyp
<1>4. i \in Bis(Item, SocketInBufMax)
  <2> DEFINE t == Tail(x.in)
  <2>1. t \in Bis(Item, SocketInBufMax) /\ t # << >> BY <1>3
  <2> HIDE DEF t
  <2>2. Tail(t) \in Bis(Item, SocketInBufMax) BY <2>1, Groessen, BisRest
  <2> QED BY <2>2 DEF t
<1>5. x.in[1].von \in Herkunft BY <1>2, RestTyp DEF Item, Herkunft, Partner
<1>6. d \in Bis(Herkunft, MaxPuffer) BY <1>1, <1>5, PufferTyp, Groessen, BisAnhang
<1>7. [Rest(Rest(x)) EXCEPT !.prot = "iTelex", !.druck = Append(@, x.in[1].von)] = u
  BY DEF Rest, Station
<1>8. y = u \/ (x.modus = "KommendVerbVorstufe" /\ y = m) BY <1>7 DEF BaudotBlock
<1> HIDE DEF i, d
<1>9. GleicheVerbindung(u, x) /\ u.modus = x.modus
  <2>1. u \in Station BY <1>4, <1>6 DEF Station, Protokolle
  <2>2. /\ u.mode = x.mode /\ u.handle = x.handle /\ u.ip = x.ip /\ u.blind = x.blind
        /\ u.fehler = x.fehler /\ u.out = x.out /\ u.modus = x.modus
    BY DEF Station
  <2> QED BY <2>1, <2>2 DEF GleicheVerbindung, Zaehlt
<1>10. u \in Station BY <1>9 DEF GleicheVerbindung, Zaehlt
<1> HIDE DEF u
<1>11. Folgt(u, x) BY <1>9 DEF Folgt
<1>12. ASSUME x.modus = "KommendVerbVorstufe" PROVE Folgt(m, u)
  <2>1. Phase("KommendEinschalten") = Phase(u.modus) BY <1>9, <1>12 DEF Phase
  <2> QED BY <1>10, <2>1, ModusWechselFolgt DEF TModus, Ruhend
<1> HIDE DEF m
<1> QED BY <1>8, <1>11, <1>12, FolgtTransitiv

LEMMA EndeTelegrammFolgt ==
    ASSUME NEW x \in Station, x.in # << >>, x.modus \notin Ruhend, NEW y \in EndeTelegramm(x)
    PROVE  Folgt(y, x)
<1> DEFINE u == [Rest(x) EXCEPT !.prot = "iTelex"]
           w == WahlAbbruchMeldung(u)
<1>1. Gleichwertig(u, x) BY RestProtTyp DEF Protokolle
<1>2. PICK z \in {u, w} : y = [InterneVerbindungBeenden(z, TRUE) EXCEPT !.abbau = TRUE]
  BY DEF EndeTelegramm
<1>3. u \in Station BY <1>1 DEF Gleichwertig, GleicheVerbindung, Zaehlt
<1>4. Folgt(u, x) BY <1>1, FolgtGleichwertig
<1> HIDE DEF u
<1>5. GleicheVerbindung(w, u) /\ w.modus \in {u.modus, "PufferDruckUndSchluss"}
  BY <1>3, WahlAbbruchMeldungTyp
<1> HIDE DEF w
<1>6. Folgt(z, x)
  <2>1. Phase("PufferDruckUndSchluss") = "Abbau" BY DEF Phase
  <2> QED BY <1>2, <1>4, <1>5, <2>1 DEF Folgt, GleicheVerbindung, Zaehlt, Ruhend
<1>7. z \in Station BY <1>6 DEF Folgt, GleicheVerbindung, Zaehlt
<1> DEFINE v == InterneVerbindungBeenden(z, TRUE)
<1>8. /\ GleicheVerbindung(v, z)
      /\ v.modus \in {z.modus, "WarteSchlussQuitt", "WarteGrundstellung",
                      "PufferDruckUndSchluss"}
  BY <1>7, InterneVerbindungBeendenTyp
<1>9. y = [v EXCEPT !.abbau = TRUE] BY <1>2
<1> HIDE DEF v
<1>10. Folgt(v, z)
  <2>1. Phase(v.modus) \in {Phase(z.modus), "Abbau"} BY <1>8 DEF Phase
  <2> QED BY <1>6, <1>8, <2>1 DEF Folgt, Ruhend
<1>11. v \in Station BY <1>8 DEF GleicheVerbindung, Zaehlt
<1>12. Gleichwertig(y, v) BY <1>9, <1>11, AbbauTyp
<1>13. Folgt(y, v) BY <1>10, <1>12 DEF Folgt, Gleichwertig
<1> QED BY <1>6, <1>10, <1>13, FolgtTransitiv

LEMMA QuittTelegrammFolgt ==
    ASSUME NEW x \in Station, x.in # << >>, x.modus \notin Ruhend, NEW y \in QuittTelegramm(x)
    PROVE  Folgt(y, x)
<1> DEFINE u == [Rest(x) EXCEPT !.prot = "iTelex"]
           e == EinschaltenGehend(u)
           m == ModusWechsel(e, "GehendVerbunden")
<1>1. Gleichwertig(u, x) BY RestProtTyp DEF Protokolle
<1>2. \/ x.modus = "KommendVerbVorstufe" /\ y \in InternAnwaehlen(u)
      \/ x.modus = "GehendWaehlen" /\ y = m
      \/ y = u
  BY DEF QuittTelegramm
<1>3. u \in Station BY <1>1 DEF Gleichwertig, GleicheVerbindung, Zaehlt
<1>4. Folgt(u, x) BY <1>1, FolgtGleichwertig
<1> HIDE DEF u
<1>5. Gleichwertig(e, u) BY <1>3, GeraetTyp
<1>6. e \in Station /\ Folgt(e, u)
  BY <1>4, <1>5 DEF Folgt, Gleichwertig, GleicheVerbindung, Zaehlt
<1> HIDE DEF e
<1>7. ASSUME x.modus = "GehendWaehlen" PROVE Folgt(m, e)
  <2>1. Phase("GehendVerbunden") = Phase(e.modus) BY <1>1, <1>5, <1>7 DEF Gleichwertig, Phase
  <2> QED BY <1>6, <2>1, ModusWechselFolgt DEF TModus, Ruhend
<1> HIDE DEF m
<1>8. ASSUME x.modus = "GehendWaehlen" PROVE Folgt(m, u)
  BY <1>6, <1>7, <1>8, FolgtTransitiv
<1>9. ASSUME x.modus = "KommendVerbVorstufe", y \in InternAnwaehlen(u) PROVE Folgt(y, u)
  <2>1. Phase(u.modus) = "Kommend" BY <1>1, <1>9 DEF Gleichwertig, Phase
  <2> QED BY <1>3, <1>9, <2>1, InternAnwaehlenFolgt
<1> QED BY <1>2, <1>4, <1>8, <1>9, FolgtTransitiv

LEMMA VersionTelegrammFolgt ==
    ASSUME NEW x \in Station, x.in # << >>, x.modus \notin Ruhend, NEW y \in VersionTelegramm(x)
    PROVE  Folgt(y, x)
<1> DEFINE u == [Rest(x) EXCEPT !.prot = "iTelex"]
<1>1. Gleichwertig(u, x) BY RestProtTyp DEF Protokolle
<1>2. y \in {u, InSocketOutBuf(u)} BY DEF VersionTelegramm
<1>3. u \in Station BY <1>1 DEF Gleichwertig, GleicheVerbindung, Zaehlt
<1> HIDE DEF u
<1>4. Gleichwertig(InSocketOutBuf(u), u) BY <1>3, InSocketOutBufTyp
<1> QED BY <1>1, <1>2, <1>4, FolgtGleichwertig, GleichwertigTransitiv

LEMMA WirkungFolgt ==
    ASSUME NEW x \in Station, x.in # << >>, ~Wartet(x), x.modus \notin Ruhend,
           NEW y \in Wirkung(x, x.in[1].art)
    PROVE  Folgt(y, x)
<1> DEFINE art == x.in[1].art
<1>1. Folgt(Rest(x), x) BY RestTyp, FolgtGleichwertig
<1>2. (art = "Kopf" => BlockVollstaendig(x)) /\ (art = "Ascii" => AsciiPlatz(x))
  BY DEF Wartet
<1>3. y \in Wirkung(x, art) OBVIOUS
<1> HIDE DEF art
<1>4. CASE art = "Ascii" BY <1>2, <1>3, <1>4, AsciiZeichenFolgt DEF Wirkung
<1>5. CASE art = "Durchwahl" BY <1>3, <1>5, DurchwahlTelegrammFolgt DEF Wirkung
<1>6. CASE art = "Kopf" BY <1>2, <1>3, <1>6, BaudotBlockFolgt DEF Wirkung
<1>7. CASE art = "Ende" BY <1>3, <1>7, EndeTelegrammFolgt DEF Wirkung
<1>8. CASE art = "Quitt" BY <1>3, <1>8, QuittTelegrammFolgt DEF Wirkung
<1>9. CASE art = "Version" BY <1>3, <1>9, VersionTelegrammFolgt DEF Wirkung
<1>10. CASE art = "Rest"
  <2>1. \/ y = Rest(x) \/ y \in DurchwahlTelegramm(x)
        \/ y \in EndeTelegramm(x) \/ y \in QuittTelegramm(x)
    BY <1>3, <1>10 DEF Wirkung
  <2> QED BY <1>1, <2>1, DurchwahlTelegrammFolgt, EndeTelegrammFolgt, QuittTelegrammFolgt
<1>11. CASE art \notin {"Ascii", "Durchwahl", "Kopf", "Ende", "Quitt", "Version", "Rest"}
  BY <1>1, <1>3, <1>11 DEF Wirkung
<1> QED BY <1>4, <1>5, <1>6, <1>7, <1>8, <1>9, <1>10, <1>11

LEMMA AuswertenSchritt ==
    ASSUME IInv, Auswerten
    PROVE  Schritt
<1>1. PICK x \in {itx} \cup {FremdeVerworfen(itx)} :
        \/ /\ x.mode = "Idle"
           /\ Weiter("Auswerten", "Einschalten")
           /\ itx' = IF x.modus \in MitPartner THEN InterneVerbindungBeenden(x, FALSE) ELSE x
        \/ /\ x.mode # "Idle"
           /\ Weiter("Auswerten", "Dekodieren")
           /\ itx' = x
  BY DEF Auswerten, MitPartner
<1>2. pc = "Auswerten" BY <1>1 DEF Weiter
<1>3. itx \in Station /\ NetzOK /\ Haelt(itx, "Auswerten") BY <1>2 DEF IInv
<1>4. UNCHANGED netz BY DEF Auswerten
<1>5. /\ GleicheVerbindung(x, itx) /\ Haelt(x, "Auswerten")
      /\ x.modus \in {itx.modus, "WarteGrundstellung"}
  <2> DEFINE y == [itx EXCEPT !.in = << >>, !.abbau = TRUE]
             f == ModusWechsel(y, "WarteGrundstellung")
  <2>1. x \in {itx, f} BY DEF FremdeVerworfen
  <2>2. Gleichwertig(y, itx)
    BY <1>3, LeerTyp DEF Station, Gleichwertig, GleicheVerbindung, Zaehlt
  <2>3. y \in Station BY <2>2 DEF Gleichwertig, GleicheVerbindung, Zaehlt
  <2> HIDE DEF y
  <2>4. GleicheVerbindung(f, y) /\ f.modus = "WarteGrundstellung"
    BY <2>3, ModusWechselTyp DEF TModus
  <2> HIDE DEF f
  <2>5. Haelt(f, "Auswerten")
    BY <1>3, <2>2, <2>4 DEF Haelt, Ruhend, Gleichwertig, GleicheVerbindung, Zaehlt
  <2> QED BY <1>3, <2>1, <2>2, <2>4, <2>5 DEF Gleichwertig, GleicheVerbindung, Zaehlt
<1>6. CASE x.mode # "Idle"
  <2>1. itx' = x /\ pc' = "Dekodieren" BY <1>1, <1>6 DEF Weiter
  <2>2. Haelt(x, "Dekodieren") BY <1>5, <1>6 DEF Haelt
  <2>3. Phase(x.modus) \in {Phase(itx.modus), "Abbau"} BY <1>5 DEF Phase
  <2> QED BY <1>4, <1>5, <2>1, <2>2, <2>3, NurModus DEF Bloecke
<1>7. CASE x.mode = "Idle"
  <2> DEFINE y == InterneVerbindungBeenden(x, FALSE)
  <2>1. pc' = "Einschalten" /\ itx' = IF x.modus \in MitPartner THEN y ELSE x
    BY <1>1, <1>7 DEF Weiter
  <2>2. /\ GleicheVerbindung(y, x)
        /\ x.modus \in MitPartner
             => y.modus \in {"WarteSchlussQuitt", "WarteGrundstellung", "PufferDruckUndSchluss"}
    BY <1>5, InterneVerbindungBeendenTyp DEF MitPartner, GleicheVerbindung, Zaehlt
  <2> HIDE DEF y
  <2>3. GleicheVerbindung(itx', itx) /\ Haelt(itx', "Einschalten")
    BY <1>5, <1>7, <2>1, <2>2 DEF Haelt, GleicheVerbindung, Zaehlt, MitPartner
  <2>4. Phase(itx'.modus) \in {Phase(itx.modus), "Abbau"} BY <1>5, <2>1, <2>2 DEF Phase
  <2> QED BY <1>4, <2>1, <2>3, <2>4, NurModus DEF Bloecke
<1> QED BY <1>6, <1>7

LEMMA DekodierenSchritt ==
    ASSUME IInv, Dekodieren
    PROVE  Schritt
<1>1. PICK y \in Wirkung(itx, itx.in[1].art) : Dekodiert(y) BY DEF Dekodieren
<1>2. pc = "Dekodieren" /\ pc' = "Dekodieren" /\ itx' = y BY <1>1 DEF Dekodiert, Weiter
<1>3. itx \in Station /\ NetzOK /\ Haelt(itx, "Dekodieren") BY <1>2 DEF IInv
<1>4. UNCHANGED netz BY <1>1 DEF Dekodiert
<1>5. itx.mode # "Idle" /\ itx.modus \notin Ruhend BY <1>3 DEF Haelt
<1>6. Folgt(y, itx) BY <1>3, <1>5, WirkungFolgt DEF Dekodieren
<1>7. Haelt(y, "Dekodieren")
  BY <1>3, <1>5, <1>6 DEF Haelt, Folgt, GleicheVerbindung, Zaehlt, Ruhend
<1> QED BY <1>2, <1>4, <1>6, <1>7, NurModus DEF Folgt, Bloecke

LEMMA DekodierenEndeSchritt ==
    ASSUME IInv, DekodierenEnde
    PROVE  Schritt
<1>1. /\ pc = "Dekodieren" /\ pc' = "Weiterleiten" /\ pc' \in Bloecke
  BY DEF DekodierenEnde, Weiter, Bloecke
<1>2. itx \in Station /\ NetzOK /\ Haelt(itx, "Dekodieren") BY <1>1 DEF IInv
<1>3. UNCHANGED netz BY DEF DekodierenEnde
<1>4. itx' = itx \/ \E p \in Protokolle : itx' = [itx EXCEPT !.prot = p]
  BY DEF DekodierenEnde, Protokolle
<1>5. Gleichwertig(itx', itx)
  <2>1. CASE itx' = itx BY <1>2, <2>1 DEF Gleichwertig, GleicheVerbindung, Zaehlt
  <2>2. CASE \E p \in Protokolle : itx' = [itx EXCEPT !.prot = p]
    <3>1. PICK p \in Protokolle : itx' = [itx EXCEPT !.prot = p] BY <2>2
    <3> QED BY <1>2, <3>1, ProtTyp
  <2> QED BY <1>4, <2>1, <2>2
<1>6. Haelt(itx', "Weiterleiten")
  BY <1>2, <1>5 DEF Haelt, Gleichwertig, GleicheVerbindung, Zaehlt
<1> QED BY <1>1, <1>3, <1>5, <1>6, NurModus DEF Gleichwertig

LEMMA TippenGesendetTyp ==
    ASSUME NEW x \in Station
    PROVE  Gleichwertig(TippenGesendet(x), x)
<1> DEFINE o == Append(x.out, x.tipp[1])
           t == Tail(x.tipp)
           y == [x EXCEPT !.out = o, !.tipp = t]
<1>1. CASE x.tipp # << >> /\ Len(x.out) < SocketOutBufMax
  <2>1. x.tipp[1] \in Partner /\ t \in Bis(Partner, MaxPuffer)
    BY <1>1, PufferTyp, Groessen, BisRest
  <2>2. o \in Bis(Partner, SocketOutBufMax) BY <1>1, <2>1, PufferTyp, Groessen, BisAnhang
  <2>3. TippenGesendet(x) = y BY <1>1 DEF TippenGesendet
  <2>4. o # << >>
    <3>1. x.out \in Seq(Partner) BY PufferTyp
    <3>2. Len(o) = Len(x.out) + 1 /\ Len(x.out) \in Nat BY <2>1, <3>1
    <3> HIDE DEF o
    <3>3. Len(o) # 0 BY <3>2
    <3>4. Len(<< >>) = 0 OBVIOUS
    <3> QED BY <3>3, <3>4
  <2> HIDE DEF o, t
  <2>5. y \in Station BY <2>1, <2>2 DEF Station
  <2>6. /\ y.mode = x.mode /\ y.handle = x.handle /\ y.ip = x.ip /\ y.blind = x.blind
        /\ y.fehler = x.fehler /\ y.out = o /\ y.modus = x.modus /\ y.druck = x.druck
    BY DEF Station
  <2> QED BY <2>3, <2>4, <2>5, <2>6 DEF Gleichwertig, GleicheVerbindung, Zaehlt
<1>2. CASE ~(x.tipp # << >> /\ Len(x.out) < SocketOutBufMax)
  BY <1>2 DEF TippenGesendet, Gleichwertig, GleicheVerbindung, Zaehlt
<1> QED BY <1>1, <1>2

LEMMA MitQuittungTyp ==
    ASSUME NEW x \in Station
    PROVE  Gleichwertig(MitQuittung(x), x)
<1>1. Gleichwertig(InSocketOutBuf(x), x) BY InSocketOutBufTyp
<1>2. Gleichwertig(x, x) BY DEF Gleichwertig, GleicheVerbindung, Zaehlt
<1> QED BY <1>1, <1>2 DEF MitQuittung

LEMMA WeiterleitenSchritt ==
    ASSUME IInv, Weiterleiten
    PROVE  Schritt
<1> DEFINE t == TippenGesendet(itx)
<1>1. /\ pc = "Weiterleiten" /\ pc' = "Einschalten" /\ pc' \in Bloecke
  BY DEF Weiterleiten, Weiter, Bloecke
<1>2. itx \in Station /\ NetzOK /\ Haelt(itx, "Weiterleiten") BY <1>1 DEF IInv
<1>3. UNCHANGED netz BY DEF Weiterleiten
<1>4. itx' \in {itx, t, MitQuittung(itx), MitQuittung(t)} BY DEF Weiterleiten
<1>5. Gleichwertig(t, itx) BY <1>2, TippenGesendetTyp
<1>6. t \in Station BY <1>5 DEF Gleichwertig, GleicheVerbindung, Zaehlt
<1> HIDE DEF t
<1>7. Gleichwertig(itx, itx) BY <1>2 DEF Gleichwertig, GleicheVerbindung, Zaehlt
<1>8. Gleichwertig(itx', itx)
  BY <1>2, <1>4, <1>5, <1>6, <1>7, MitQuittungTyp, GleichwertigTransitiv
<1>9. Haelt(itx', "Einschalten")
  BY <1>2, <1>8 DEF Haelt, Gleichwertig, GleicheVerbindung, Zaehlt
<1> QED BY <1>1, <1>3, <1>8, <1>9, NurModus DEF Gleichwertig

(***************************************************************************)
(* The timed blocks.                                                       *)
(***************************************************************************)
Beendet == {"WarteSchlussQuitt", "WarteGrundstellung", "PufferDruckUndSchluss"}

(* In a mode of Beendet the invariant asks little. *)
LEMMA BeendetHaelt ==
    ASSUME NEW x, NEW p, NEW y, NEW q \in Bloecke \ {"Dekodieren", "Weiterleiten"},
           Haelt(x, p), GleicheVerbindung(y, x), y.modus \in Beendet
    PROVE  Haelt(y, q)
BY DEF Haelt, GleicheVerbindung, Zaehlt, Beendet, Ruhend, MitPartner

LEMMA BeendetPhase ==
    ASSUME NEW m \in Beendet
    PROVE  Phase(m) = "Abbau"
BY DEF Beendet, Phase

LEMMA BeendetWechsel ==
    ASSUME NEW x \in Station, NEW neu \in Beendet
    PROVE  GleicheVerbindung(ModusWechsel(x, neu), x) /\ ModusWechsel(x, neu).modus = neu
BY ModusWechselTyp DEF Beendet, TModus

LEMMA TerminalStartenSchritt ==
    ASSUME IInv, TerminalStarten
    PROVE  Schritt
<1>1. /\ pc = "Einschalten" /\ pc' = "Wahl5" /\ pc' \in Bloecke
  BY DEF TerminalStarten, Weiter, Bloecke
<1>2. itx \in Station /\ NetzOK /\ Haelt(itx, "Einschalten") BY <1>1 DEF IInv
<1>3. UNCHANGED netz BY DEF TerminalStarten
<1>4. SUFFICES /\ GleicheVerbindung(itx', itx) /\ Haelt(itx', "Wahl5")
               /\ Phase(itx'.modus) \in {Phase(itx.modus), "Abbau"}
  BY <1>1, <1>3, NurModus
<1>5. CASE itx.modus = "GehendWaehlen" /\ itx.druck # << >>
  <2> DEFINE e == EinschaltenGehend(itx)
             y == ModusWechsel(e, "GehendVerbunden")
  <2>1. itx' = y BY <1>5 DEF TerminalStarten
  <2>2. Gleichwertig(e, itx) BY <1>2, GeraetTyp
  <2>3. e \in Station BY <2>2 DEF Gleichwertig, GleicheVerbindung, Zaehlt
  <2> HIDE DEF e
  <2>4. GleicheVerbindung(y, e) /\ y.modus = "GehendVerbunden"
    BY <2>3, ModusWechselTyp DEF TModus
  <2> HIDE DEF y
  <2>5. itx.mode # "Idle" BY <1>2, <1>5 DEF Haelt
  <2>6. Haelt(y, "Wahl5")
    BY <1>2, <2>2, <2>4, <2>5 DEF Haelt, Gleichwertig, GleicheVerbindung, Zaehlt, Ruhend
  <2>7. Phase(y.modus) = Phase(itx.modus) BY <1>5, <2>4 DEF Phase
  <2> QED BY <2>1, <2>2, <2>4, <2>6, <2>7 DEF Gleichwertig, GleicheVerbindung, Zaehlt
<1>6. CASE itx.modus = "KommendEinschalten"
  <2>1. itx' \in InternAnwaehlen(itx) BY <1>6 DEF TerminalStarten
  <2>2. /\ Folgt(itx', itx)
        /\ itx'.modus \in {"KommendWarteEinQuitt", "WarteGrundstellung"}
    <3>1. Phase(itx.modus) = "Kommend" BY <1>6 DEF Phase
    <3> QED BY <1>2, <2>1, <3>1, InternAnwaehlenFolgt
  <2>3. itx.mode # "Idle" BY <1>2, <1>6 DEF Haelt, MitPartner
  <2>4. Haelt(itx', "Wahl5") BY <1>2, <2>2, <2>3 DEF Haelt, Folgt, GleicheVerbindung, Zaehlt
  <2> QED BY <2>2, <2>4 DEF Folgt
<1>7. CASE ~(itx.modus = "GehendWaehlen" /\ itx.druck # << >>) /\ itx.modus # "KommendEinschalten"
  <2>1. itx' = itx BY <1>7 DEF TerminalStarten
  <2>2. Haelt(itx, "Wahl5") BY <1>2, <1>7 DEF Haelt
  <2> QED BY <1>2, <2>1, <2>2 DEF GleicheVerbindung, Zaehlt
<1> QED BY <1>5, <1>6, <1>7

LEMMA Wahl5Schritt ==
    ASSUME IInv, Wahl5
    PROVE  Schritt
<1>1. /\ pc = "Wahl5" /\ pc' = "Wahl15" /\ pc' \in Bloecke
  BY DEF Wahl5, Weiter, Bloecke
<1>2. itx \in Station /\ NetzOK /\ Haelt(itx, "Wahl5") BY <1>1 DEF IInv
<1>3. CASE itx' = itx /\ UNCHANGED <<tcp, anrufe>>
  <2>1. UNCHANGED netz BY <1>3 DEF netz, Wahl5
  <2>2. Haelt(itx, "Wahl15") BY <1>2 DEF Haelt
  <2> QED BY <1>1, <1>2, <1>3, <2>1, <2>2, NurModus DEF GleicheVerbindung, Zaehlt
<1>4. CASE ~(itx' = itx /\ UNCHANGED <<tcp, anrufe>>)
  <2> DEFINE y == [itx EXCEPT !.ziel = Niemand]
  <2>1. /\ itx.modus = "GehendWaehlen" /\ itx.mode = "Idle"
        /\ \/ VerbindungGelingt(y, itx.ziel)
           \/ itx' = Misslungen(y, itx.ziel) /\ UNCHANGED <<tcp, anrufe>>
    BY <1>4 DEF Wahl5
  <2>2. itx.ziel \in Gegenstellen /\ itx.ziel \in Partner
    BY <1>2, <1>4 DEF Wahl5, Station, Partner
  <2>3. Gleichwertig(y, itx) BY <1>2, ZielTyp DEF Partner
  <2>4. y \in Station BY <2>3 DEF Gleichwertig, GleicheVerbindung, Zaehlt
  <2> HIDE DEF y
  <2>5. itx.druck = << >> BY <1>2, <2>1 DEF Haelt
  <2>6. CASE VerbindungGelingt(y, itx.ziel)
    <3>1. /\ tcp' \in Tabelle /\ anrufe' \in Nat
          /\ itx' \in Station /\ itx'.mode = "Originate" /\ itx'.ip = itx.ziel
          /\ itx'.modus \in {y.modus, "GehendVerbunden"} /\ itx'.druck = y.druck
          /\ Neuvergabe \/ SocketPasst(itx', tcp')
      BY <1>2, <2>2, <2>3, <2>4, <2>6, VerbindungGelingtTyp
         DEF IInv, Gleichwertig, GleicheVerbindung, Zaehlt
    <3>2. NetzOK' BY <1>2, <3>1 DEF NetzOK, Wahl5
    <3>3. Haelt(itx', "Wahl15")
      BY <2>1, <2>2, <2>3, <2>5, <3>1 DEF Haelt, Gleichwertig, Ruhend
    <3>4. Erlaubt(itx', itx)
      BY <2>1, <2>2, <2>3, <3>1 DEF Erlaubt, Gleichwertig, Phase
    <3> QED BY <1>1, <3>1, <3>2, <3>3, <3>4, SchrittRegel
  <2>7. CASE itx' = Misslungen(y, itx.ziel) /\ UNCHANGED <<tcp, anrufe>>
    <3>1. /\ itx' \in Station /\ itx'.mode = "Idle" /\ itx'.handle = NO_SOCKET_USED
          /\ itx'.modus = y.modus /\ itx'.druck = y.druck /\ itx'.blind = y.blind
      BY <2>2, <2>4, <2>7, MisslungenTyp
    <3>2. NetzOK' BY <1>2, <2>7 DEF NetzOK, Wahl5
    <3>3. Haelt(itx', "Wahl15")
      BY <2>1, <2>3, <2>5, <3>1 DEF Haelt, Gleichwertig, MitPartner
    <3>4. Anschluss(itx', itx) BY <2>3, <3>1 DEF Anschluss, Gleichwertig, GleicheVerbindung, Zaehlt
    <3>5. Erlaubt(itx', itx) BY <2>3, <3>1 DEF Erlaubt, Gleichwertig
    <3>6. Fortsetzung(tcp', tcp) BY <1>2, <2>7, FortsetzungSelbst DEF NetzOK
    <3> QED BY <1>1, <3>1, <3>2, <3>3, <3>4, <3>5, <3>6, OhneNeue
  <2> QED BY <2>1, <2>6, <2>7
<1> QED BY <1>3, <1>4

LEMMA Wahl15Schritt ==
    ASSUME IInv, Wahl15
    PROVE  Schritt
<1>1. /\ pc = "Wahl15" /\ pc' = "Fristen" /\ pc' \in Bloecke
  BY DEF Wahl15, Weiter, Bloecke
<1>2. itx \in Station /\ NetzOK /\ Haelt(itx, "Wahl15") BY <1>1 DEF IInv
<1>3. UNCHANGED netz BY DEF Wahl15
<1>4. Haelt(itx, "Fristen") BY <1>2 DEF Haelt
<1>5. CASE itx' = itx BY <1>1, <1>2, <1>3, <1>4, <1>5, NurModus DEF GleicheVerbindung, Zaehlt
<1>6. CASE itx' # itx
  <2> DEFINE w == WahlAbbruchMeldung(itx)
             v == InterneVerbindungBeenden(w, TRUE)
  <2>1. itx.modus = "GehendWaehlen" /\ itx.mode = "Idle" /\ itx' = v
    BY <1>6 DEF Wahl15
  <2>2. /\ GleicheVerbindung(w, itx) /\ w.druck = itx.druck
        /\ w.modus \in {itx.modus, "PufferDruckUndSchluss"}
    BY <1>2, WahlAbbruchMeldungTyp
  <2>3. w \in Station BY <2>2 DEF GleicheVerbindung, Zaehlt
  <2> HIDE DEF w
  <2>4. /\ GleicheVerbindung(v, w) /\ v.druck = w.druck
        /\ v.modus = w.modus \/ v.modus \in Beendet
    BY <2>3, InterneVerbindungBeendenTyp DEF Beendet
  <2> HIDE DEF v
  <2>5. Haelt(v, "Fristen")
    BY <1>4, <2>1, <2>2, <2>4 DEF Haelt, GleicheVerbindung, Zaehlt, Beendet, Ruhend, MitPartner
  <2>6. GleicheVerbindung(v, itx) BY <2>2, <2>4 DEF GleicheVerbindung, Zaehlt
  <2>7. Phase(v.modus) \in {Phase(itx.modus), "Abbau"}
    BY <2>2, <2>4 DEF Beendet, Phase
  <2> QED BY <1>1, <1>3, <2>1, <2>5, <2>6, <2>7, NurModus
<1> QED BY <1>5, <1>6

LEMMA FristenSchritt ==
    ASSUME IInv, Fristen
    PROVE  Schritt
<1> DEFINE i == InterneVerbindungBeenden(itx, TRUE)
<1>1. /\ pc = "Fristen" /\ pc' = "Taste" /\ pc' \in Bloecke
  BY DEF Fristen, KeineFrist, SchlussFrist, EinschaltFrist, FunkstilleFrist, Frist,
         Weiter, Bloecke
<1>2. itx \in Station /\ NetzOK /\ Haelt(itx, "Fristen") BY <1>1 DEF IInv
<1>3. UNCHANGED netz
  BY DEF Fristen, KeineFrist, SchlussFrist, EinschaltFrist, FunkstilleFrist, Frist
<1>4. SUFFICES \/ GleicheVerbindung(itx', itx) /\ itx'.modus \in Beendet
               \/ itx' = itx
  <2>1. CASE GleicheVerbindung(itx', itx) /\ itx'.modus \in Beendet
    BY <1>1, <1>2, <1>3, <2>1, BeendetHaelt, BeendetPhase, NurModus DEF Bloecke
  <2>2. CASE itx' = itx
    <3>1. Haelt(itx', "Taste") BY <1>2, <2>2 DEF Haelt
    <3> QED BY <1>1, <1>2, <1>3, <2>2, <3>1, NurModus DEF GleicheVerbindung, Zaehlt
  <2> QED BY <1>4, <2>1, <2>2
<1>6. /\ GleicheVerbindung(i, itx)
      /\ i.modus = itx.modus \/ i.modus \in Beendet
      /\ itx.modus = "KommendWarteEinQuitt" => i.modus \in Beendet
  BY <1>2, InterneVerbindungBeendenTyp DEF Beendet
<1>7. i \in Station BY <1>6 DEF GleicheVerbindung, Zaehlt
<1>8. CASE KeineFrist BY <1>8 DEF KeineFrist, Frist
<1>9. CASE SchlussFrist
  <2>1. itx' = ModusWechsel(itx, "WarteGrundstellung") BY <1>9 DEF SchlussFrist, Frist
  <2> QED BY <1>2, <2>1, BeendetWechsel DEF Beendet
<1>10. CASE EinschaltFrist
  <2>1. itx' = SendeStopkommando(i) /\ itx.modus = "KommendWarteEinQuitt"
    BY <1>10 DEF EinschaltFrist, Frist
  <2> HIDE DEF i
  <2>2. Gleichwertig(itx', i) BY <1>7, <2>1, ExterneVerbindungBeendenTyp
  <2> QED BY <1>6, <2>1, <2>2 DEF Gleichwertig, GleicheVerbindung, Zaehlt
<1>11. CASE FunkstilleFrist
  <2> DEFINE e == ExterneVerbindungBeenden(i)
             y == ModusWechsel(e, "WarteGrundstellung")
  <2>1. itx' = y BY <1>11 DEF FunkstilleFrist, Frist
  <2> HIDE DEF i
  <2>2. Gleichwertig(e, i) BY <1>7, ExterneVerbindungBeendenTyp
  <2>3. e \in Station BY <2>2 DEF Gleichwertig, GleicheVerbindung, Zaehlt
  <2> HIDE DEF e
  <2>4. GleicheVerbindung(y, e) /\ y.modus \in Beendet BY <2>3, BeendetWechsel DEF Beendet
  <2> QED BY <1>6, <2>1, <2>2, <2>4 DEF Gleichwertig, GleicheVerbindung, Zaehlt
<1> QED BY <1>8, <1>9, <1>10, <1>11 DEF Fristen

LEMMA TasteSchritt ==
    ASSUME IInv, Taste
    PROVE  Schritt
<1>1. /\ pc = "Taste" /\ pc' = "Schluss" /\ pc' \in Bloecke
  BY DEF Taste, Weiter, Bloecke
<1>2. itx \in Station /\ NetzOK /\ Haelt(itx, "Taste") BY <1>1 DEF IInv
<1>3. UNCHANGED netz BY DEF Taste
<1>4. ASSUME GleicheVerbindung(itx', itx), Haelt(itx', "Schluss"),
             itx.modus = "Ruhe" /\ Phase(itx'.modus) \in {"Gehend", "Eigen", "Aus"}
      PROVE  Schritt
  <2>1. NetzOK' BY <1>2, <1>3, NetzUnveraendert
  <2>2. Fortsetzung(tcp', tcp) BY <1>2, <1>3, FortsetzungSelbst DEF netz, NetzOK
  <2>3. Erlaubt(itx', itx) /\ Anschluss(itx', itx)
    BY <1>4 DEF Erlaubt, Anschluss, GleicheVerbindung, Zaehlt, Phase
  <2> QED BY <1>1, <1>4, <2>1, <2>2, <2>3, OhneNeue DEF GleicheVerbindung, Zaehlt
<1>5. ASSUME GleicheVerbindung(itx', itx), itx'.modus \in Beendet
      PROVE  Schritt
  BY <1>1, <1>2, <1>3, <1>5, BeendetHaelt, BeendetPhase, NurModus DEF Bloecke
<1>6. CASE itx' = itx
  <2>1. Haelt(itx, "Schluss") BY <1>2 DEF Haelt
  <2> QED BY <1>1, <1>2, <1>3, <1>6, <2>1, NurModus DEF GleicheVerbindung, Zaehlt
<1>7. CASE Deaktivieren
  <2>1. itx.modus = "Ruhe" /\ itx' = ModusWechsel(itx, "Deaktiviert")
    BY <1>7 DEF Deaktivieren
  <2>2. GleicheVerbindung(itx', itx) /\ itx'.modus = "Deaktiviert"
    BY <1>2, <2>1, ModusWechselTyp DEF TModus
  <2>3. Haelt(itx', "Schluss")
    BY <1>2, <2>1, <2>2 DEF Haelt, GleicheVerbindung, Zaehlt, Ruhend, MitPartner
  <2>4. Phase(itx'.modus) = "Aus" BY <2>2 DEF Phase
  <2> QED BY <1>4, <2>1, <2>2, <2>3, <2>4
<1>8. CASE Aktivieren
  <2>1. itx' = ModusWechsel(itx, "WarteGrundstellung") BY <1>8 DEF Aktivieren
  <2> QED BY <1>2, <1>5, <2>1, BeendetWechsel DEF Beendet
<1>9. CASE RestdruckAbbrechen
  <2> DEFINE k == SendeBusKdoSchluss(itx)
             m == ModusWechsel(k, "WarteSchlussQuitt")
  <2>1. itx' = [m EXCEPT !.ascii = << >>, !.druck = << >>] BY <1>9 DEF RestdruckAbbrechen
  <2>2. Gleichwertig(k, itx) BY <1>2, GeraetTyp
  <2>3. k \in Station BY <2>2 DEF Gleichwertig, GleicheVerbindung, Zaehlt
  <2> HIDE DEF k
  <2>4. GleicheVerbindung(m, k) /\ m.modus \in Beendet BY <2>3, BeendetWechsel DEF Beendet
  <2>5. m \in Station BY <2>4 DEF GleicheVerbindung, Zaehlt
  <2> HIDE DEF m
  <2>6. GleicheVerbindung(itx', m) /\ itx'.modus = m.modus
    BY <2>1, <2>5, LeerTyp DEF Station, GleicheVerbindung, Zaehlt
  <2> QED BY <1>5, <2>2, <2>4, <2>6 DEF Gleichwertig, GleicheVerbindung, Zaehlt
<1>10. CASE Meldungsdruck
  <2> DEFINE y == [itx EXCEPT !.ascii = <<Lokal>>]
             e == Einschalten(y)
             m == ModusWechsel(e, "MeldungsdruckWarteEinQuitt")
             g == ModusWechsel(y, "WarteGrundstellung")
  <2>1. itx.modus = "Ruhe" /\ itx' \in {m, g} BY <1>10 DEF Meldungsdruck
  <2>2. <<Lokal>> \in Bis(Herkunft, MaxPuffer)
    <3>1. <<Lokal>> \in Seq(Herkunft) BY DEF Herkunft
    <3>2. Len(<<Lokal>>) = 1 OBVIOUS
    <3>3. 1 <= MaxPuffer BY Groessen
    <3> QED BY <3>1, <3>2, <3>3 DEF Bis
  <2>3. Gleichwertig(y, itx) BY <1>2, <2>2, AsciiTyp
  <2>4. y \in Station BY <2>3 DEF Gleichwertig, GleicheVerbindung, Zaehlt
  <2> HIDE DEF y
  <2>5. Gleichwertig(e, y) BY <2>4, GeraetTyp
  <2>6. e \in Station BY <2>5 DEF Gleichwertig, GleicheVerbindung, Zaehlt
  <2> HIDE DEF e
  <2>7. GleicheVerbindung(g, y) /\ g.modus \in Beendet BY <2>4, BeendetWechsel DEF Beendet
  <2>8. GleicheVerbindung(m, e) /\ m.modus = "MeldungsdruckWarteEinQuitt"
    BY <2>6, ModusWechselTyp DEF TModus
  <2> HIDE DEF g, m
  <2>9. CASE itx' = g
    BY <1>5, <2>3, <2>7, <2>9 DEF Gleichwertig, GleicheVerbindung, Zaehlt
  <2>10. CASE itx' = m
    <3>1. GleicheVerbindung(m, itx) BY <2>3, <2>5, <2>8 DEF Gleichwertig, GleicheVerbindung, Zaehlt
    <3>2. Haelt(m, "Schluss")
      BY <1>2, <2>1, <2>8, <3>1 DEF Haelt, GleicheVerbindung, Zaehlt, Ruhend, MitPartner
    <3>3. Phase(m.modus) = "Eigen" BY <2>8 DEF Phase
    <3> QED BY <1>4, <2>1, <2>10, <3>1, <3>2, <3>3
  <2> QED BY <2>1, <2>9, <2>10
<1> QED BY <1>6, <1>7, <1>8, <1>9, <1>10 DEF Taste

LEMMA SchlussSchritt ==
    ASSUME IInv, Schluss
    PROVE  Schritt
<1> DEFINE y == AsciiDruckPufferVerarbeiten(itx)
           k == SendeBusKdoSchluss(y)
           s == ModusWechsel(k, "WarteSchlussQuitt")
           r == ModusWechsel(y, "Ruhe")
<1>1. /\ pc = "Schluss" /\ pc' = "Twi" /\ pc' \in Bloecke
  BY DEF Schluss, Weiter, Bloecke
<1>2. itx \in Station /\ NetzOK /\ Haelt(itx, "Schluss") BY <1>1 DEF IInv
<1>3. NetzOK' /\ Fortsetzung(tcp', tcp)
  BY <1>2, NetzUnveraendert, FortsetzungSelbst DEF Schluss, netz, NetzOK
<1>4. \/ itx' = s \/ itx' = y
      \/ itx' = r /\ y.modus = "WarteGrundstellung" /\ y.mode = "Idle"
                  /\ y.handle = NO_SOCKET_USED
  BY DEF Schluss
<1>5. /\ GleicheVerbindung(y, itx) /\ y.modus = itx.modus
      /\ y.druck = itx.druck \/ Fernschreibend(itx)
  <2> DEFINE a == [itx EXCEPT !.druck = itx.ascii, !.ascii = << >>]
  <2>1. y = itx \/ (Fernschreibend(itx) /\ y = a) BY DEF AsciiDruckPufferVerarbeiten
  <2>2. GleicheVerbindung(a, itx) /\ a.modus = itx.modus
    BY <1>2, LeerTyp DEF Station, GleicheVerbindung, Zaehlt
  <2> HIDE DEF a, y
  <2> QED BY <1>2, <2>1, <2>2 DEF GleicheVerbindung, Zaehlt
<1>6. y \in Station BY <1>5 DEF GleicheVerbindung, Zaehlt
<1> HIDE DEF y
<1>7. Haelt(y, "Twi")
  BY <1>2, <1>5 DEF Haelt, GleicheVerbindung, Zaehlt, Fernschreibend
<1>8. Gleichwertig(k, y) BY <1>6, GeraetTyp
<1>9. k \in Station BY <1>8 DEF Gleichwertig, GleicheVerbindung, Zaehlt
<1> HIDE DEF k
<1>10. GleicheVerbindung(s, k) /\ s.modus \in Beendet BY <1>9, BeendetWechsel DEF Beendet
<1>11. GleicheVerbindung(r, y) /\ r.modus = "Ruhe" BY <1>6, ModusWechselTyp DEF TModus
<1> HIDE DEF s, r
<1>12. GleicheVerbindung(s, y) BY <1>8, <1>10 DEF Gleichwertig, GleicheVerbindung, Zaehlt
<1>13. Haelt(s, "Twi") BY <1>7, <1>10, <1>12, BeendetHaelt DEF Bloecke
<1>14. y.mode = "Idle" /\ y.handle = NO_SOCKET_USED => Haelt(r, "Twi")
  BY <1>11 DEF Haelt, GleicheVerbindung, Zaehlt, MitPartner
<1>15. GleicheVerbindung(itx', itx) /\ Haelt(itx', "Twi")
  BY <1>4, <1>5, <1>6, <1>7, <1>11, <1>12, <1>13, <1>14 DEF GleicheVerbindung, Zaehlt
<1>16. \/ itx'.modus = itx.modus \/ Phase(itx'.modus) = "Abbau"
       \/ itx'.modus = "Ruhe" /\ itx.modus = "WarteGrundstellung" /\ itx.mode = "Idle"
  BY <1>4, <1>5, <1>10, <1>11, BeendetPhase DEF GleicheVerbindung, Zaehlt
<1>17. Erlaubt(itx', itx) /\ Anschluss(itx', itx)
  BY <1>15, <1>16 DEF Erlaubt, Anschluss, GleicheVerbindung, Zaehlt, Phase
<1> QED BY <1>1, <1>3, <1>15, <1>17, OhneNeue DEF GleicheVerbindung, Zaehlt

(***************************************************************************)
(* The interrupts and the passing of time.                                 *)
(***************************************************************************)
LEMMA NetzSchritt ==
    ASSUME IInv, Netz
    PROVE  Schritt
<1>1. UNCHANGED <<itx, pc>> BY DEF Netz, NetzEreignis
<1>2. itx \in Station /\ NetzOK /\ pc \in Bloecke /\ Haelt(itx, pc) BY DEF IInv
<1>3. SUFFICES NetzOK' /\ (Neuvergabe \/ SocketPasst(itx, tcp'))
  BY <1>1, <1>2, SchrittRegel DEF Erlaubt
<1>4. PICK s \in Slots :
         \/ \E p \in Gegenstellen : Anruf(s, p)
         \/ \E art \in Telegramme : DatenEmpfangen(s, art)
         \/ FinEmpfangen(s) \/ Zeitueberschreitung(s) \/ SocketFrei(s)
  BY DEF Netz, NetzEreignis, Daten
<1>5. ASSUME NEW p \in Gegenstellen, Anruf(s, p)
      PROVE  NetzOK' /\ (Neuvergabe \/ SocketPasst(itx, tcp'))
  <2>1. SynEmpfangen(s, p) /\ (Neuvergabe \/ s \notin {itx.handle, itx.blind})
    BY <1>5 DEF Anruf
  <2>2. NetzOK' BY <1>2, <2>1, SynTyp
  <2>3. \A k \in Slots \ {s} : tcp'[k] = tcp[k] BY <1>2, <2>1 DEF SynEmpfangen, NetzOK, Tabelle
  <2>4. ASSUME ~Neuvergabe PROVE SocketPasst(itx, tcp')
    BY <1>2, <2>1, <2>3, <2>4 DEF IInv, SocketPasst, Station
  <2> QED BY <2>2, <2>4
<1>6. ASSUME NetzOK', Fortsetzung(tcp', tcp)
      PROVE  NetzOK' /\ (Neuvergabe \/ SocketPasst(itx, tcp'))
  <2>1. Anschluss(itx, itx) BY DEF Anschluss
  <2> QED BY <1>2, <1>6, <2>1, SocketBleibt DEF IInv, NetzOK
<1> QED BY <1>2, <1>4, <1>5, <1>6, DatenTyp, EndeTyp

LEMMA UhrSchritt ==
    ASSUME IInv, Drucken \/ Tippen \/ AbbruchZeit
    PROVE  Schritt
<1>1. UNCHANGED netz /\ UNCHANGED pc BY DEF Drucken, Tippen, AbbruchZeit
<1>2. itx \in Station /\ NetzOK /\ pc \in Bloecke /\ Haelt(itx, pc) BY DEF IInv
<1>4. SUFFICES GleicheVerbindung(itx', itx) /\ Haelt(itx', pc) /\ itx'.modus = itx.modus
  BY <1>1, <1>2, NurModus
<1>5. CASE Drucken
  <2> DEFINE d == Tail(itx.druck)
  <2>1. itx' = [itx EXCEPT !.druck = d] /\ Fernschreibend(itx) /\ itx.druck # << >>
    BY <1>5 DEF Drucken, Seriell
  <2>2. itx.druck \in Bis(Herkunft, MaxPuffer) BY <1>2, PufferTyp
  <2>3. d \in Bis(Herkunft, MaxPuffer) BY <2>1, <2>2, Groessen, BisRest
  <2> HIDE DEF d
  <2>4. GleicheVerbindung(itx', itx) /\ itx'.modus = itx.modus
    <3>0. itx' = [itx EXCEPT !.druck = d] BY <2>1
    <3>1. itx' \in Station BY ONLY <1>2, <2>3, <3>0 DEF Station
    <3>2. /\ itx'.mode = itx.mode /\ itx'.handle = itx.handle /\ itx'.ip = itx.ip
          /\ itx'.blind = itx.blind /\ itx'.fehler = itx.fehler /\ itx'.out = itx.out
          /\ itx'.modus = itx.modus
      BY <1>2, <2>1 DEF Station
    <3> QED BY <3>1, <3>2 DEF GleicheVerbindung, Zaehlt
  <2>5. Haelt(itx', pc)
    BY <1>2, <2>1, <2>4 DEF Haelt, GleicheVerbindung, Zaehlt, Fernschreibend
  <2> QED BY <2>4, <2>5
<1>6. CASE Tippen
  <2> DEFINE t == Append(itx.tipp, itx.ip)
  <2>1. itx' = [itx EXCEPT !.tipp = t] BY <1>6 DEF Tippen
  <2>2. t \in Bis(Partner, MaxPuffer)
    <3>1. itx.ip \in Partner BY <1>2 DEF Station
    <3>2. Len(itx.tipp) < MaxPuffer BY <1>6 DEF Tippen
    <3>3. itx.tipp \in Bis(Partner, MaxPuffer) BY <1>2, PufferTyp
    <3> QED BY <3>1, <3>2, <3>3, Groessen, BisAnhang
  <2> HIDE DEF t
  <2>3. Gleichwertig(itx', itx)
    <3>1. itx' \in Station BY <1>2, <2>1, <2>2 DEF Station
    <3>2. /\ itx'.mode = itx.mode /\ itx'.handle = itx.handle /\ itx'.ip = itx.ip
          /\ itx'.blind = itx.blind /\ itx'.fehler = itx.fehler /\ itx'.out = itx.out
          /\ itx'.modus = itx.modus /\ itx'.druck = itx.druck
      BY <1>2, <2>1 DEF Station
    <3> QED BY <3>1, <3>2 DEF Gleichwertig, GleicheVerbindung, Zaehlt
  <2> QED BY <1>2, <2>3 DEF Haelt, Gleichwertig, GleicheVerbindung, Zaehlt
<1>7. CASE AbbruchZeit
  <2>1. Gleichwertig(itx', itx) BY <1>2, <1>7, AbbruchUmTyp DEF AbbruchZeit
  <2> QED BY <1>2, <2>1 DEF Haelt, Gleichwertig, GleicheVerbindung, Zaehlt
<1> QED BY <1>5, <1>6, <1>7

(***************************************************************************)
(* The theorems.                                                           *)
(***************************************************************************)
LEMMA AnfangGilt == Init => IInv
<1> SUFFICES ASSUME Init PROVE IInv
  OBVIOUS
<1>1. NetzOK
  <2>1. LeererSocket \in Socket /\ LeererSocket.st = "NotUse"
    BY << >> \in Seq(Item) DEF LeererSocket, Socket, SocketStates
  <2> QED BY <2>1, TcpAnnahme DEF Init, TcpInit, NetzOK, Tabelle
<1>2. itx \in Station
  <2>1. 0 \in 0 .. 255 OBVIOUS
  <2> QED BY <2>1, LeerTyp DEF Init, Station, TModus, SocketModes, Protokolle, Partner
<1>3. pc \in Bloecke BY DEF Init, Bloecke
<1>4. Haelt(itx, pc) BY DEF Init, Haelt, MitPartner
<1>5. SocketPasst(itx, tcp) BY DEF Init, SocketPasst
<1> QED BY <1>1, <1>2, <1>3, <1>4, <1>5 DEF IInv

LEMMA JederSchritt == IInv /\ [Next]_vars => Schritt
<1> SUFFICES ASSUME IInv, [Next]_vars PROVE Schritt
  OBVIOUS
<1>1. CASE UNCHANGED vars
  <2>1. UNCHANGED <<tcp, anrufe, tele, itx, pc>> BY <1>1 DEF vars
  <2> QED BY <2>1 DEF Schritt, IInv, NetzOK, Haelt, SocketPasst, Erlaubt
<1>2. CASE Thread
  BY <1>2, TwiSchritt, WaechterSchritt, PortSchritt, TrennungSchritt, KeineTrennungSchritt,
     PlanmaessigerAbbauSchritt, EmpfangSchritt, SendenSchritt, AbbruchSchritt,
     AuswertenSchritt, DekodierenSchritt, DekodierenEndeSchritt, WeiterleitenSchritt,
     TerminalStartenSchritt, Wahl5Schritt, Wahl15Schritt, FristenSchritt, TasteSchritt,
     SchlussSchritt DEF Thread
<1>3. CASE Netz BY <1>3, NetzSchritt
<1>4. CASE Drucken \/ Tippen \/ AbbruchZeit BY <1>4, UhrSchritt
<1> QED BY <1>1, <1>2, <1>3, <1>4 DEF Next

LEMMA InvarianteGilt == Spec => []IInv
<1>1. IInv /\ [Next]_vars => IInv' BY JederSchritt DEF Schritt
<1> QED BY <1>1, AnfangGilt, PTL DEF Spec

(* Every variable keeps its type, for buffers of any size: no step of the  *)
(* thread or of an interrupt puts more into SocketInBuf, SocketOutBuf,     *)
(* SendePuffer, EmpfPuffer or the Ascii buffers than they hold, takes a    *)
(* character from an empty one, or a socket handle out of the table.       *)
THEOREM TypKorrekt == Spec => []TypeOK
<1>1. IInv => TypeOK BY DEF IInv, NetzOK, Tabelle, TypeOK, TcpTyp
<1> QED BY <1>1, InvarianteGilt, PTL

(* A line that is at rest, switched off or only seized has no connection,  *)
(* and an open socket belongs to a connection, for any number of sockets   *)
(* and partners: the five places of SocketBearbeiten that give up a        *)
(* connection and the calls of ModusWechsel agree.                         *)
THEOREM LeitungFreiGilt == Spec => []LeitungFrei
<1>1. IInv => LeitungFrei BY DEF IInv, Haelt, Ruhend, LeitungFrei
<1> QED BY <1>1, InvarianteGilt, PTL

(* Outside SocketBearbeiten a terminal that is connected or about to be    *)
(* has a partner: the evaluation of every pass finds the end of the        *)
(* connection and tells the terminal.                                      *)
THEOREM VerbundenMitPartnerGilt == Spec => []VerbundenMitPartner
<1>1. IInv => VerbundenMitPartner BY DEF IInv, Haelt, MitPartner, VerbundenMitPartner
<1> QED BY <1>1, InvarianteGilt, PTL

(* An accepted call that counts send errors has something to send, however *)
(* many attempts fail, whatever closes its socket (2288) and whoever takes *)
(* it up again (1980): SocketSendeFehlerZaehler never keeps it silent.     *)
THEOREM FehlerWirdGeheiltGilt == Spec => []FehlerWirdGeheilt
<1>1. IInv => FehlerWirdGeheilt BY DEF IInv, Haelt, FehlerWirdGeheilt
<1> QED BY <1>1, InvarianteGilt, PTL

(* The partner of a call does not change while the call lasts: no call,    *)
(* dialling or reconnect that comes in between replaces iTelexSocketIP.    *)
THEOREM PartnerBleibtGilt == Spec => PartnerBleibt
<1>1. IInv /\ [Next]_vars => [itx.mode # "Idle" /\ itx'.mode # "Idle" => itx'.ip = itx.ip]_vars
  BY JederSchritt DEF Schritt, Erlaubt
<1> QED BY <1>1, InvarianteGilt, PTL DEF Spec, PartnerBleibt

(* However often a connection is lost and taken up again, the open socket  *)
(* leads to the partner of the call and is not that of the busy signal,    *)
(* in every history in which no table entry is given away while a handle   *)
(* still refers to it.                                                     *)
THEOREM SocketDesPartnersGilt == ~Neuvergabe /\ Spec => []SocketDesPartners
<1>1. ~Neuvergabe /\ IInv => SocketDesPartners BY DEF IInv, SocketPasst, SocketDesPartners
<1>2. CASE Neuvergabe BY <1>2
<1>3. CASE ~Neuvergabe
  <2>1. IInv => SocketDesPartners BY <1>1, <1>3
  <2> QED BY <2>1, InvarianteGilt, PTL
<1> QED BY <1>2, <1>3

(* The line implements Leitung, for any number of sockets and partners and *)
(* every combination of the switches: the mode machine starts at rest, and *)
(* each of its steps seizes, takes, releases or rests the line, begins or  *)
(* ends a call, or cannot be seen from outside.                            *)
THEOREM LeitungImplementiert == Spec => ImplementiertLeitung
<1>1. Init => L!Init BY DEF Init, L!Init, Phase
<1>2. IInv /\ [Next]_vars => [L!Next]_(L!leitung)
  <2> SUFFICES ASSUME Erlaubt(itx', itx) PROVE [L!Next]_(L!leitung)
    BY JederSchritt DEF Schritt
  <2> QED BY DEF Erlaubt, L!Next, L!leitung, L!Belegen, L!Annehmen, L!Anrufen, L!Trennen,
                 L!Freigeben, L!Ruhen, L!Ausschalten
<1> QED BY <1>1, <1>2, InvarianteGilt, PTL DEF Spec, ImplementiertLeitung, L!Spec

(***************************************************************************)
(* Two properties of the whole station: no path leaves the terminal        *)
(* running that nobody will switch off, and what waits in a buffer during  *)
(* a call belongs to that call.                                            *)
(*                                                                         *)
(* Each has an inductive invariant of its own over the station, beside     *)
(* IInv: Abgeschaltet adds to GeraetAus the two modes of an accepted call  *)
(* whose terminal is not started yet; Ordentlich adds to NurDieserAnruf    *)
(* what a line that dials must not have in its buffers when the call       *)
(* begins.  Almost every helper keeps both (Erhaelt), so each helper is    *)
(* looked at once, and a block of the thread is a chain of helpers.        *)
(***************************************************************************)

(***************************************************************************)
(* What a sequence contains.                                               *)
(***************************************************************************)
LEMMA InhaltLeer == Inhalt(<< >>) = {}
BY DEF Inhalt

LEMMA InhaltAnhang ==
    ASSUME NEW S, NEW s \in Seq(S), NEW e \in S
    PROVE  Inhalt(Append(s, e)) = Inhalt(s) \cup {e}
<1>1. Len(Append(s, e)) = Len(s) + 1 /\ Append(s, e)[Len(s) + 1] = e OBVIOUS
<1>2. \A i \in 1 .. Len(s) : Append(s, e)[i] = s[i] OBVIOUS
<1>3. Len(s) \in Nat OBVIOUS
<1> QED BY <1>1, <1>2, <1>3 DEF Inhalt

LEMMA InhaltRest ==
    ASSUME NEW S, NEW s \in Seq(S), s # << >>
    PROVE  Inhalt(Tail(s)) \subseteq Inhalt(s) /\ s[1] \in Inhalt(s)
<1>1. Len(s) \in Nat /\ Len(s) >= 1 OBVIOUS
<1>2. Len(Tail(s)) = Len(s) - 1 OBVIOUS
<1>3. \A i \in 1 .. Len(Tail(s)) : Tail(s)[i] = s[i + 1] OBVIOUS
<1> QED BY <1>1, <1>2, <1>3 DEF Inhalt

LEMMA InhaltTeil ==
    ASSUME NEW S, NEW s \in Seq(S), NEW m \in 1 .. Len(s) + 1, NEW n \in 0 .. Len(s)
    PROVE  Inhalt(SubSeq(s, m, n)) \subseteq Inhalt(s)
<1>1. Len(s) \in Nat OBVIOUS
<1>2. Len(SubSeq(s, m, n)) = IF m <= n THEN n - m + 1 ELSE 0 BY <1>1
<1>3. \A i \in 1 .. Len(SubSeq(s, m, n)) : SubSeq(s, m, n)[i] = s[m + i - 1] BY <1>1, <1>2
<1> QED BY <1>1, <1>2, <1>3 DEF Inhalt

LEMMA InhaltVerkettet ==
    ASSUME NEW S, NEW s \in Seq(S), NEW t \in Seq(S)
    PROVE  Inhalt(s \o t) = Inhalt(s) \cup Inhalt(t)
<1>1. Len(s) \in Nat /\ Len(t) \in Nat /\ Len(s \o t) = Len(s) + Len(t) OBVIOUS
<1>2. \A i \in 1 .. Len(s) : (s \o t)[i] = s[i] OBVIOUS
<1>3. \A i \in 1 .. Len(t) : (s \o t)[Len(s) + i] = t[i] BY <1>1
<1>4. Inhalt(s) \cup Inhalt(t) \subseteq Inhalt(s \o t)
  BY SMTT(60), <1>1, <1>2, <1>3 DEF Inhalt
<1>5. ASSUME NEW i \in 1 .. Len(s \o t) PROVE (s \o t)[i] \in Inhalt(s) \cup Inhalt(t)
  <2>1. CASE i <= Len(s) BY <1>1, <1>2, <2>1 DEF Inhalt
  <2>2. CASE i > Len(s)
    <3>1. i - Len(s) \in 1 .. Len(t) BY <1>1, <2>2
    <3>2. (s \o t)[i] = t[i - Len(s)] BY <1>1, <1>3, <2>2, <3>1
    <3> QED BY <3>1, <3>2 DEF Inhalt
  <2> QED BY <1>1, <2>1, <2>2
<1>6. Inhalt(s \o t) \subseteq Inhalt(s) \cup Inhalt(t) BY <1>5 DEF Inhalt
<1> QED BY <1>4, <1>6

(***************************************************************************)
(* The invariants over a station x, and over the table t it uses.          *)
(***************************************************************************)
AusModi == {"Ruhe", "Deaktiviert", "WarteSchlussQuitt", "WarteGrundstellung",
            "KommendVerbVorstufe", "KommendEinschalten"}

Abgeschaltet(x) == x.modus \in AusModi => ~x.geraet

Waehlend == {"GehendReserv", "GehendWaehlen"}

OhneText(s) == \A t \in Inhalt(s) : t.art # "Ascii"

(* The buffers of x hold nothing that is not of its call. *)
Passende(x) ==
    /\ \A t \in Inhalt(x.in) : t.von = x.ip
    /\ Inhalt(x.druck) \cup Inhalt(x.ascii) \subseteq {x.ip, Lokal}
    /\ Inhalt(x.tipp) \cup Inhalt(x.out) \subseteq {x.ip}

Ordentlich(x) ==
    /\ x.mode # "Idle" => Passende(x)
    /\ x.modus \in Waehlend => x.ascii = << >> /\ x.tipp = << >>
    /\ x.modus = "GehendWaehlen" /\ x.mode # "Idle" =>
         x.mode = "Originate" /\ OhneText(x.in)

(* What the table keeps for the main loop came from the peer of its entry, *)
(* and for a line that dials it is no text.                                *)
TabellePasst(x, t) ==
    /\ \A s \in Slots : \A i \in Inhalt(t[s].rx) : i.von = t[s].peer
    /\ x.modus = "GehendWaehlen" /\ x.handle # NO_SOCKET_USED => OhneText(t[x.handle].rx)

(* The station y may follow x without harm to either invariant. *)
Erhaelt(y, x) ==
    /\ y \in Station
    /\ y.handle \in {x.handle, NO_SOCKET_USED}
    /\ y.modus = "GehendWaehlen" => x.modus = "GehendWaehlen"
    /\ Abgeschaltet(x) => Abgeschaltet(y)
    /\ Ordentlich(x) => Ordentlich(y)

LEMMA ErhaeltSelbst ==
    ASSUME NEW x \in Station
    PROVE  Erhaelt(x, x)
BY DEF Erhaelt

LEMMA ErhaeltTransitiv ==
    ASSUME NEW x, NEW y, NEW z, Erhaelt(z, y), Erhaelt(y, x)
    PROVE  Erhaelt(z, x)
BY DEF Erhaelt

(* What a step must do to buffers it fills. *)
LEMMA PufferRegel ==
    ASSUME NEW x \in Station, NEW y \in Station,
           y.modus = x.modus, y.mode = x.mode, y.ip = x.ip, y.handle = x.handle,
           y.geraet = x.geraet,
           x.mode # "Idle" /\ Passende(x) => Passende(y),
           Ordentlich(x) /\ x.modus \in Waehlend => y.ascii = << >> /\ y.tipp = << >>,
           x.mode # "Idle" /\ OhneText(x.in) => OhneText(y.in)
    PROVE  Erhaelt(y, x)
BY DEF Erhaelt, Abgeschaltet, Ordentlich

(* Buffers may be emptied, the call may end. *)
LEMMA WenigerErhaelt ==
    ASSUME NEW x \in Station, NEW y \in Station,
           y.modus = x.modus, y.geraet = x.geraet, y.handle \in {x.handle, NO_SOCKET_USED},
           (y.mode = x.mode /\ y.ip = x.ip) \/ y.mode = "Idle",
           y.in \in {x.in, << >>}, y.out \in {x.out, << >>}, y.druck \in {x.druck, << >>},
           y.ascii \in {x.ascii, << >>}, y.tipp \in {x.tipp, << >>}
    PROVE  Erhaelt(y, x)
<1>1. y.mode # "Idle" /\ Passende(x) => Passende(y) BY InhaltLeer DEF Passende
<1>2. OhneText(x.in) => OhneText(y.in) BY InhaltLeer DEF OhneText
<1> QED BY <1>1, <1>2 DEF Erhaelt, Abgeschaltet, Ordentlich

LEMMA WechselOrdentlich ==
    ASSUME NEW x \in Station, NEW neu \in TModus \ {"GehendWaehlen"}
    PROVE  LET y == ModusWechsel(x, neu)
           IN  /\ y \in Station /\ y.modus = neu /\ y.handle = x.handle
               /\ y.geraet = x.geraet
               /\ Ordentlich(x) => Ordentlich(y)
<1> DEFINE y == ModusWechsel(x, neu)
<1>1. GleicheVerbindung(y, x) /\ y.modus = neu BY ModusWechselTyp
<1>2. y.geraet = x.geraet /\ y.in = x.in /\ y.out = x.out
  BY DEF ModusWechsel, Station
<1>3. y.druck \in {x.druck, << >>} /\ y.ascii \in {x.ascii, << >>} /\ y.tipp \in {x.tipp, << >>}
  BY DEF ModusWechsel, Station
<1>4. neu = "GehendReserv" => (y.ascii = << >> /\ y.tipp = << >>) \/ y = x
  BY DEF ModusWechsel, Station, NeuerAnruf
<1> HIDE DEF y
<1>5. Passende(x) => Passende(y)
  BY <1>1, <1>2, <1>3, InhaltLeer DEF Passende, GleicheVerbindung
<1>6. Ordentlich(x) => Ordentlich(y)
  BY <1>1, <1>2, <1>4, <1>5 DEF Ordentlich, GleicheVerbindung, Waehlend
<1> QED BY <1>1, <1>2, <1>6 DEF y, GleicheVerbindung

LEMMA WechselErhaelt ==
    ASSUME NEW x \in Station, NEW neu \in TModus \ {"GehendWaehlen"},
           neu \in AusModi => x.modus \in AusModi \/ ~x.geraet
    PROVE  Erhaelt(ModusWechsel(x, neu), x)
BY WechselOrdentlich DEF Erhaelt, Abgeschaltet

(***************************************************************************)
(* The helpers of iTelex.c.                                                *)
(***************************************************************************)
(* y differs from x in no field that the two invariants read. *)
LEMMA NebenfeldErhaelt ==
    ASSUME NEW x \in Station, NEW y, Gleichwertig(y, x), y.geraet = x.geraet,
           y.in = x.in, y.out = x.out, y.ascii = x.ascii, y.tipp = x.tipp
    PROVE  Erhaelt(y, x)
BY WenigerErhaelt DEF Gleichwertig, GleicheVerbindung

LEMMA AbbauErhaelt ==
    ASSUME NEW x \in Station, NEW b \in BOOLEAN
    PROVE  Erhaelt([x EXCEPT !.abbau = b], x)
<1>1. Gleichwertig([x EXCEPT !.abbau = b], x) BY AbbauTyp
<1> QED BY <1>1, NebenfeldErhaelt DEF Station

LEMMA AusschaltenErhaelt ==
    ASSUME NEW x \in Station
    PROVE  /\ Erhaelt(SendeBusKdoSchluss(x), x) /\ ~SendeBusKdoSchluss(x).geraet
           /\ SendeBusKdoSchluss(x).modus = x.modus
<1> DEFINE y == SendeBusKdoSchluss(x)
<1>1. /\ y.modus = x.modus /\ y.mode = x.mode /\ y.ip = x.ip /\ y.handle = x.handle
      /\ y.in = x.in /\ y.out = x.out /\ y.druck = x.druck /\ y.ascii = x.ascii
      /\ y.tipp = x.tipp /\ y.geraet = FALSE
  BY DEF SendeBusKdoSchluss, Station
<1>2. y \in Station BY GeraetTyp DEF Gleichwertig, GleicheVerbindung
<1> HIDE DEF y
<1>3. Erhaelt(y, x) BY <1>1, <1>2 DEF Erhaelt, Abgeschaltet, Ordentlich, Passende
<1> QED BY <1>1, <1>3 DEF y

(* The terminal is switched off and the mode changes. *)
LEMMA AusWechselErhaelt ==
    ASSUME NEW x \in Station, NEW neu \in TModus \ {"GehendWaehlen"}
    PROVE  Erhaelt(ModusWechsel(SendeBusKdoSchluss(x), neu), x)
<1> DEFINE a == SendeBusKdoSchluss(x)
<1>1. Erhaelt(a, x) /\ ~a.geraet BY AusschaltenErhaelt
<1>2. a \in Station BY <1>1 DEF Erhaelt
<1> HIDE DEF a
<1>3. Erhaelt(ModusWechsel(a, neu), a) BY <1>1, <1>2, WechselErhaelt
<1>4. Erhaelt(ModusWechsel(a, neu), x) BY <1>1, <1>3, ErhaeltTransitiv
<1> QED BY <1>4 DEF a

(* The terminal is switched on and takes part from now on. *)
LEMMA EinWechselErhaelt ==
    ASSUME NEW x \in Station, NEW neu \in TModus \ (AusModi \cup {"GehendWaehlen"})
    PROVE  /\ Erhaelt(ModusWechsel(Einschalten(x), neu), x)
           /\ Erhaelt(ModusWechsel(EinschaltenGehend(x), neu), x)
<1>1. ASSUME NEW e \in Station,
             e.modus = x.modus, e.mode = x.mode, e.ip = x.ip, e.handle = x.handle,
             e.in = x.in, e.out = x.out, e.druck = x.druck, e.ascii = x.ascii,
             e.tipp = x.tipp
      PROVE  Erhaelt(ModusWechsel(e, neu), x)
  <2> DEFINE y == ModusWechsel(e, neu)
  <2>1. Ordentlich(x) => Ordentlich(e) BY <1>1 DEF Ordentlich, Passende
  <2>2. /\ y \in Station /\ y.modus = neu /\ y.handle = e.handle
        /\ Ordentlich(e) => Ordentlich(y)
    BY WechselOrdentlich
  <2> HIDE DEF y
  <2>3. Erhaelt(y, x) BY <1>1, <2>1, <2>2 DEF Erhaelt, Abgeschaltet
  <2> QED BY <2>3 DEF y
<1>2. Erhaelt(ModusWechsel(Einschalten(x), neu), x)
  <2> DEFINE e == Einschalten(x)
  <2>1. /\ e.modus = x.modus /\ e.mode = x.mode /\ e.ip = x.ip /\ e.handle = x.handle
        /\ e.in = x.in /\ e.out = x.out /\ e.druck = x.druck /\ e.ascii = x.ascii
        /\ e.tipp = x.tipp
    BY DEF Einschalten, Station
  <2>2. e \in Station BY GeraetTyp DEF Gleichwertig, GleicheVerbindung
  <2> HIDE DEF e
  <2>3. Erhaelt(ModusWechsel(e, neu), x) BY <1>1, <2>1, <2>2
  <2> QED BY <2>3 DEF e
<1>3. Erhaelt(ModusWechsel(EinschaltenGehend(x), neu), x)
  <2> DEFINE e == EinschaltenGehend(x)
  <2>1. /\ e.modus = x.modus /\ e.mode = x.mode /\ e.ip = x.ip /\ e.handle = x.handle
        /\ e.in = x.in /\ e.out = x.out /\ e.druck = x.druck /\ e.ascii = x.ascii
        /\ e.tipp = x.tipp
    BY DEF EinschaltenGehend, Station
  <2>2. e \in Station BY GeraetTyp DEF Gleichwertig, GleicheVerbindung
  <2> HIDE DEF e
  <2>3. Erhaelt(ModusWechsel(e, neu), x) BY <1>1, <2>1, <2>2
  <2> QED BY <2>3 DEF e
<1> QED BY <1>2, <1>3

LEMMA InSocketOutBufErhaelt ==
    ASSUME NEW x \in Station
    PROVE  /\ Erhaelt(InSocketOutBuf(x), x)
           /\ InSocketOutBuf(x).modus = x.modus /\ InSocketOutBuf(x).geraet = x.geraet
<1> DEFINE y == InSocketOutBuf(x)
           o == Anhaengen(x.out, x.ip, SocketOutBufMax)
<1>1. x.out \in Seq(Partner) /\ x.ip \in Partner BY PufferTyp DEF Station
<1>2. Inhalt(o) \subseteq Inhalt(x.out) \cup {x.ip} BY <1>1, InhaltAnhang DEF Anhaengen
<1> HIDE DEF o
<1>3. y = [x EXCEPT !.out = o] BY DEF InSocketOutBuf, o
<1>4. /\ y.modus = x.modus /\ y.mode = x.mode /\ y.ip = x.ip /\ y.handle = x.handle
      /\ y.in = x.in /\ y.out = o /\ y.druck = x.druck /\ y.ascii = x.ascii
      /\ y.tipp = x.tipp /\ y.geraet = x.geraet
  BY <1>3 DEF Station
<1>5. y \in Station BY InSocketOutBufTyp DEF Gleichwertig, GleicheVerbindung
<1> HIDE DEF y
<1>6. Passende(x) => Passende(y) BY <1>2, <1>4 DEF Passende
<1>7. Ordentlich(x) /\ x.modus \in Waehlend => y.ascii = << >> /\ y.tipp = << >>
  BY <1>4 DEF Ordentlich
<1>8. Erhaelt(y, x) BY <1>4, <1>5, <1>6, <1>7, PufferRegel
<1> QED BY <1>4, <1>8 DEF y

LEMMA ExterneErhaelt ==
    ASSUME NEW x \in Station
    PROVE  /\ Erhaelt(ExterneVerbindungBeenden(x), x)
           /\ ExterneVerbindungBeenden(x).modus = x.modus
           /\ ExterneVerbindungBeenden(x).geraet = x.geraet
<1> DEFINE y == [x EXCEPT !.ascii = << >>]
           z == [y EXCEPT !.abbau = TRUE]
           i == InSocketOutBuf(z)
<1>1. /\ y.modus = x.modus /\ y.mode = x.mode /\ y.ip = x.ip /\ y.handle = x.handle
      /\ y.in = x.in /\ y.out = x.out /\ y.druck = x.druck /\ y.ascii = << >>
      /\ y.tipp = x.tipp /\ y.geraet = x.geraet
  BY DEF Station
<1>2. y \in Station BY AsciiTyp, LeerTyp DEF Gleichwertig, GleicheVerbindung
<1>3. ExterneVerbindungBeenden(x) \in {y, z, i} BY DEF ExterneVerbindungBeenden
<1> HIDE DEF y
<1>4. Erhaelt(y, x) BY <1>1, <1>2, WenigerErhaelt
<1>5. Erhaelt(z, y) BY <1>2, AbbauErhaelt
<1>6. z.modus = y.modus /\ z.geraet = y.geraet BY <1>2 DEF Station
<1>7. z \in Station BY <1>5 DEF Erhaelt
<1> HIDE DEF z
<1>8. Erhaelt(i, z) /\ i.modus = z.modus /\ i.geraet = z.geraet
  BY <1>7, InSocketOutBufErhaelt
<1> HIDE DEF i
<1>9. Erhaelt(z, x) BY <1>4, <1>5, ErhaeltTransitiv
<1>10. Erhaelt(i, x) BY <1>8, <1>9, ErhaeltTransitiv
<1> QED BY <1>1, <1>3, <1>4, <1>6, <1>8, <1>9, <1>10

LEMMA SendeStopErhaelt ==
    ASSUME NEW x \in Station
    PROVE  /\ Erhaelt(SendeStopkommando(x), x)
           /\ SendeStopkommando(x).modus = x.modus /\ SendeStopkommando(x).geraet = x.geraet
<1> DEFINE i == InSocketOutBuf(x)
           y == [i EXCEPT !.abbau = TRUE]
<1>1. Erhaelt(i, x) /\ i.modus = x.modus /\ i.geraet = x.geraet BY InSocketOutBufErhaelt
<1>2. SendeStopkommando(x) = y BY DEF SendeStopkommando
<1>3. i \in Station BY <1>1 DEF Erhaelt
<1> HIDE DEF i
<1>4. Erhaelt(y, i) BY <1>3, AbbauErhaelt
<1>5. y.modus = i.modus /\ y.geraet = i.geraet BY <1>3 DEF Station
<1> HIDE DEF y
<1>6. Erhaelt(y, x) BY <1>1, <1>4, ErhaeltTransitiv
<1> QED BY <1>1, <1>2, <1>5, <1>6

LEMMA InterneErhaelt ==
    ASSUME NEW x \in Station, NEW force \in BOOLEAN
    PROVE  Erhaelt(InterneVerbindungBeenden(x, force), x)
<1> DEFINE a == SendeBusKdoSchluss(x)
<1>1. {"WarteSchlussQuitt", "WarteGrundstellung", "PufferDruckUndSchluss"}
        \subseteq TModus \ {"GehendWaehlen"}
  BY DEF TModus
<1>2. /\ Erhaelt(ModusWechsel(a, "WarteSchlussQuitt"), x)
      /\ Erhaelt(ModusWechsel(a, "WarteGrundstellung"), x)
  BY <1>1, AusWechselErhaelt
<1>3. CASE x.modus \in {"GehendReserv", "GehendWaehlen", "MeldungsdruckWarteEinQuitt"}
  BY <1>2, <1>3, ErhaeltSelbst DEF InterneVerbindungBeenden
<1>4. CASE x.modus \in {"KommendVerbVorstufe", "KommendEinschalten"}
  <2>1. Erhaelt(ModusWechsel(x, "WarteGrundstellung"), x)
    BY <1>1, <1>4, WechselErhaelt DEF AusModi
  <2> QED BY <1>4, <2>1 DEF InterneVerbindungBeenden
<1>5. CASE x.modus = "KommendWarteEinQuitt"
  BY <1>2, <1>5 DEF InterneVerbindungBeenden
<1>6. CASE x.modus \in {"KommendVerbunden", "GehendVerbunden"}
  <2>1. Erhaelt(ModusWechsel(x, "PufferDruckUndSchluss"), x)
    BY <1>1, WechselErhaelt DEF AusModi
  <2> QED BY <1>6, <2>1 DEF InterneVerbindungBeenden
<1>7. CASE x.modus \notin {"GehendReserv", "GehendWaehlen", "MeldungsdruckWarteEinQuitt",
                           "KommendVerbVorstufe", "KommendEinschalten",
                           "KommendWarteEinQuitt", "KommendVerbunden", "GehendVerbunden"}
  BY <1>7, ErhaeltSelbst DEF InterneVerbindungBeenden
<1> QED BY <1>3, <1>4, <1>5, <1>6, <1>7

(* The connection from the network ends, by STOP, ENDE or the watchdog. *)
LEMMA InterneAbbauErhaelt ==
    ASSUME NEW x \in Station
    PROVE  Erhaelt([InterneVerbindungBeenden(x, TRUE) EXCEPT !.abbau = TRUE], x)
<1> DEFINE i == InterneVerbindungBeenden(x, TRUE)
<1>1. Erhaelt(i, x) BY InterneErhaelt
<1>2. i \in Station BY <1>1 DEF Erhaelt
<1> HIDE DEF i
<1>3. Erhaelt([i EXCEPT !.abbau = TRUE], i) BY <1>2, AbbauErhaelt
<1>4. Erhaelt([i EXCEPT !.abbau = TRUE], x) BY <1>1, <1>3, ErhaeltTransitiv
<1> QED BY <1>4 DEF i

LEMMA MeldungErhaelt ==
    ASSUME NEW x \in Station, x.modus # "GehendReserv"
    PROVE  Erhaelt(WahlAbbruchMeldung(x), x)
<1> DEFINE s == Append(x.ascii, Lokal)
           a == [x EXCEPT !.ascii = s]
           e == EinschaltenGehend(a)
           p == ModusWechsel(e, "PufferDruckUndSchluss")
           w == WahlAbbruchMeldung(x)
<1>a. CASE LangeDienstmeldungen \/ Len(x.ascii) >= MaxPuffer
  <2>1. w = x BY <1>a DEF WahlAbbruchMeldung
  <2> QED BY <2>1, ErhaeltSelbst
<1> SUFFICES ASSUME ~LangeDienstmeldungen, ~(Len(x.ascii) >= MaxPuffer)
             PROVE  Erhaelt(w, x)
  BY <1>a
<1>1. x.ascii \in Seq(Herkunft) /\ Lokal \in Herkunft /\ Len(x.ascii) < MaxPuffer
  <2>1. x.ascii \in Seq(Herkunft) BY PufferTyp
  <2>2. Len(x.ascii) \in Nat BY <2>1
  <2> QED BY <2>1, <2>2, Groessen DEF Herkunft
<1>2. s \in Bis(Herkunft, MaxPuffer) /\ Inhalt(s) = Inhalt(x.ascii) \cup {Lokal}
  BY <1>1, InhaltAnhang, PufferTyp, Groessen, BisAnhang
<1> HIDE DEF s
<1>3. a \in Station BY <1>2, AsciiTyp DEF Gleichwertig, GleicheVerbindung
<1>4. /\ a.modus = x.modus /\ a.mode = x.mode /\ a.ip = x.ip /\ a.handle = x.handle
      /\ a.in = x.in /\ a.out = x.out /\ a.druck = x.druck /\ a.ascii = s
      /\ a.tipp = x.tipp /\ a.geraet = x.geraet
  BY DEF Station
<1>5. (w = a /\ x.modus # "GehendWaehlen") \/ (w = p /\ x.modus = "GehendWaehlen")
  BY <1>4 DEF WahlAbbruchMeldung, s
<1> HIDE DEF a, w
<1>6. Passende(x) => Passende(a) BY <1>2, <1>4 DEF Passende
<1>7. CASE w = a /\ x.modus # "GehendWaehlen"
  <2>1. Erhaelt(a, x) BY <1>3, <1>4, <1>6, <1>7, PufferRegel DEF Waehlend
  <2> QED BY <1>7, <2>1 DEF w
<1>8. CASE w = p /\ x.modus = "GehendWaehlen"
  <2>1. e \in Station BY <1>3, GeraetTyp DEF Gleichwertig, GleicheVerbindung
  <2>2. /\ e.modus = a.modus /\ e.mode = a.mode /\ e.ip = a.ip /\ e.handle = a.handle
        /\ e.in = a.in /\ e.out = a.out /\ e.druck = a.druck /\ e.ascii = a.ascii
        /\ e.tipp = a.tipp
    BY <1>3 DEF EinschaltenGehend, Station
  <2> HIDE DEF e
  <2>3. GleicheVerbindung(p, e) /\ p.modus = "PufferDruckUndSchluss"
    BY <2>1, ModusWechselTyp DEF TModus
  <2>4. /\ p.in = e.in /\ p.out = e.out /\ p.druck = e.druck /\ p.ascii = e.ascii
        /\ p.tipp = e.tipp
    BY <1>4, <1>8, <2>1, <2>2 DEF ModusWechsel, NeuerAnruf, Station
  <2> HIDE DEF p
  <2>5. Passende(a) => Passende(p)
    BY <2>2, <2>3, <2>4 DEF Passende, GleicheVerbindung
  <2>6. Ordentlich(x) => Ordentlich(p)
    BY <1>4, <1>6, <2>2, <2>3, <2>5 DEF Ordentlich, Waehlend, GleicheVerbindung
  <2>7. Erhaelt(p, x)
    BY <1>4, <2>2, <2>3, <2>6 DEF Erhaelt, Abgeschaltet, AusModi, GleicheVerbindung
  <2> QED BY <1>8, <2>7 DEF w
<1> QED BY <1>5, <1>7, <1>8 DEF w

LEMMA AbgewiesenErhaelt ==
    ASSUME NEW x \in Station, x.modus \in AusModi
    PROVE  Erhaelt(Abgewiesen(x), x)
<1> DEFINE y == SendeStopkommando(x)
<1>1. Erhaelt(y, x) /\ y.modus = x.modus BY SendeStopErhaelt
<1>2. y \in Station BY <1>1 DEF Erhaelt
<1>3. Abgewiesen(x) = ModusWechsel(y, "WarteGrundstellung") BY DEF Abgewiesen
<1> HIDE DEF y
<1>4. Erhaelt(ModusWechsel(y, "WarteGrundstellung"), y)
  BY <1>1, <1>2, WechselErhaelt DEF TModus
<1> QED BY <1>1, <1>3, <1>4, ErhaeltTransitiv

LEMMA InternAnwaehlenErhaelt ==
    ASSUME NEW x \in Station, x.modus \in AusModi, NEW y \in InternAnwaehlen(x)
    PROVE  Erhaelt(y, x)
<1>1. Erhaelt(ModusWechsel(Einschalten(x), "KommendWarteEinQuitt"), x)
  BY EinWechselErhaelt DEF TModus, AusModi
<1> QED BY <1>1, AbgewiesenErhaelt DEF InternAnwaehlen

LEMMA DurchwahlGeprueftErhaelt ==
    ASSUME NEW x \in Station, x.modus \in AusModi, NEW y \in DurchwahlGeprueft(x)
    PROVE  Erhaelt(y, x)
<1>1. Erhaelt(ModusWechsel(x, "KommendEinschalten"), x)
  BY WechselErhaelt DEF TModus
<1> QED BY <1>1, AbgewiesenErhaelt DEF DurchwahlGeprueft

(***************************************************************************)
(* The evaluation of the received data.                                    *)
(***************************************************************************)
(* The first telegram is taken; what it brings is printed, at once or as   *)
(* text, and text is not the first data of a station that is dialled.      *)
LEMMA GelesenErhaelt ==
    ASSUME NEW x \in Station, NEW y \in Station, x.in # << >>,
           y.modus = x.modus, y.mode = x.mode, y.ip = x.ip, y.handle = x.handle,
           y.geraet = x.geraet, y.out = x.out, y.tipp = x.tipp,
           Inhalt(y.in) \subseteq Inhalt(x.in),
           Inhalt(y.druck) \subseteq Inhalt(x.druck) \cup {x.in[1].von},
           \/ y.ascii = x.ascii
           \/ /\ x.modus # "GehendReserv" /\ x.mode # "Idle" /\ x.in[1].art = "Ascii"
              /\ Inhalt(y.ascii) = Inhalt(x.ascii) \cup {x.in[1].von}
    PROVE  Erhaelt(y, x)
<1>1. x.in[1] \in Inhalt(x.in)
  <2>1. x.in \in Seq(Item) BY PufferTyp
  <2> QED BY <2>1, InhaltRest
<1>2. Passende(x) => Passende(y) BY <1>1 DEF Passende
<1>3. Ordentlich(x) /\ x.modus \in Waehlend => y.ascii = << >> /\ y.tipp = << >>
  BY <1>1 DEF Ordentlich, Waehlend, OhneText
<1>4. OhneText(x.in) => OhneText(y.in) BY DEF OhneText
<1> QED BY <1>2, <1>3, <1>4, PufferRegel

LEMMA RestFelder ==
    ASSUME NEW x \in Station, x.in # << >>, NEW y,
           \E p \in Protokolle, b \in BOOLEAN :
              y \in {Rest(x), [Rest(x) EXCEPT !.prot = p], [Rest(x) EXCEPT !.prot = p, !.abbau = b]}
    PROVE  /\ y \in Station /\ y.modus = x.modus /\ y.mode = x.mode /\ y.ip = x.ip
           /\ y.handle = x.handle /\ y.geraet = x.geraet /\ y.in = Tail(x.in)
           /\ y.out = x.out /\ y.druck = x.druck /\ y.ascii = x.ascii /\ y.tipp = x.tipp
           /\ Erhaelt(y, x)
<1> DEFINE i == Tail(x.in)
           r == Rest(x)
<1> PICK p \in Protokolle, b \in BOOLEAN :
       y \in {r, [r EXCEPT !.prot = p], [r EXCEPT !.prot = p, !.abbau = b]} OBVIOUS
<1>1. x.in \in Seq(Item) BY PufferTyp
<1>2. i \in Bis(Item, SocketInBufMax) BY PufferTyp, Groessen, BisRest
<1>3. r = [x EXCEPT !.in = i] BY DEF Rest
<1> HIDE DEF i
<1>4. /\ r \in Station /\ r.modus = x.modus /\ r.mode = x.mode /\ r.ip = x.ip
      /\ r.handle = x.handle /\ r.geraet = x.geraet /\ r.in = i
      /\ r.out = x.out /\ r.druck = x.druck /\ r.ascii = x.ascii /\ r.tipp = x.tipp
  BY <1>2, <1>3 DEF Station
<1> HIDE DEF r
<1>5. /\ y \in Station /\ y.modus = r.modus /\ y.mode = r.mode /\ y.ip = r.ip
      /\ y.handle = r.handle /\ y.geraet = r.geraet /\ y.in = r.in
      /\ y.out = r.out /\ y.druck = r.druck /\ y.ascii = r.ascii /\ y.tipp = r.tipp
  <2>1. y \in {r, [r EXCEPT !.prot = p], [r EXCEPT !.prot = p, !.abbau = b]} BY DEF r
  <2>2. CASE y = r BY <1>4, <2>2
  <2>3. CASE y = [r EXCEPT !.prot = p]
    <3>1. y \in Station BY <1>4, <2>3 DEF Station
    <3> QED BY <1>4, <2>3, <3>1 DEF Station
  <2>4. CASE y = [r EXCEPT !.prot = p, !.abbau = b]
    <3> DEFINE q == [r EXCEPT !.prot = p]
    <3>1. q \in Station BY <1>4, ProtTyp DEF Gleichwertig, GleicheVerbindung
    <3>2. y = [q EXCEPT !.abbau = b] BY <1>4, <2>4 DEF Station
    <3> HIDE DEF q
    <3>3. y \in Station BY <3>1, <3>2, AbbauTyp DEF Gleichwertig, GleicheVerbindung
    <3> QED BY <1>4, <2>4, <3>3 DEF Station
  <2> QED BY <2>1, <2>2, <2>3, <2>4
<1>6. Inhalt(i) \subseteq Inhalt(x.in) BY <1>1, InhaltRest DEF i
<1>7. Erhaelt(y, x) BY <1>4, <1>5, <1>6, GelesenErhaelt
<1> QED BY <1>4, <1>5, <1>7 DEF i

LEMMA AsciiZeichenErhaelt ==
    ASSUME NEW x \in Station, x.in # << >>, x.in[1].art = "Ascii", AsciiPlatz(x),
           x.mode # "Idle", x.modus # "GehendReserv", NEW z \in AsciiZeichen(x)
    PROVE  Erhaelt(z, x)
<1> DEFINE r == Rest(x)
           u == [r EXCEPT !.prot = "Ascii", !.abbau = FALSE]
           s == Append(x.ascii, x.in[1].von)
           y == [u EXCEPT !.ascii = s]
           w == ModusWechsel(y, "WarteGrundstellung")
<1>1. /\ u \in Station /\ u.modus = x.modus /\ u.mode = x.mode /\ u.ip = x.ip
      /\ u.handle = x.handle /\ u.geraet = x.geraet /\ u.in = Tail(x.in)
      /\ u.out = x.out /\ u.druck = x.druck /\ u.ascii = x.ascii /\ u.tipp = x.tipp
  <2>1. "Ascii" \in Protokolle BY DEF Protokolle
  <2> HIDE DEF u
  <2>2. u \in {Rest(x), [Rest(x) EXCEPT !.prot = "Ascii"],
               [Rest(x) EXCEPT !.prot = "Ascii", !.abbau = FALSE]}
    BY DEF u
  <2>3. \E p \in Protokolle, b \in BOOLEAN :
           u \in {Rest(x), [Rest(x) EXCEPT !.prot = p], [Rest(x) EXCEPT !.prot = p, !.abbau = b]}
    BY <2>1, <2>2
  <2> QED BY <2>3, RestFelder
<1>2. x.in \in Seq(Item) /\ x.ascii \in Seq(Herkunft) BY PufferTyp
<1>3. x.in[1] \in Inhalt(x.in) /\ Inhalt(Tail(x.in)) \subseteq Inhalt(x.in)
  BY <1>2, InhaltRest
<1>4. x.in[1].von \in Herkunft
  <2>1. x.in[1] \in Item BY RestTyp
  <2> QED BY <2>1 DEF Item, Herkunft, Partner
<1>5. s \in Bis(Herkunft, MaxPuffer) /\ Inhalt(s) = Inhalt(x.ascii) \cup {x.in[1].von}
  <2>1. s \in Bis(Herkunft, MaxPuffer)
    BY <1>4, PufferTyp, Groessen, BisAnhang DEF AsciiPlatz
  <2> QED BY <1>2, <1>4, <2>1, InhaltAnhang
<1>6. /\ z \in {y, [w EXCEPT !.abbau = TRUE]} \cup DurchwahlGeprueft(y)
      /\ z = y \/ x.modus = "KommendVerbVorstufe"
  <2>1. u.ascii = x.ascii BY <1>1
  <2>2. [r EXCEPT !.prot = "Ascii", !.abbau = FALSE, !.ascii = Append(@, x.in[1].von)] = y
    <3>1. r.ascii = x.ascii BY DEF Rest, Station
    <3> HIDE DEF r
    <3> QED BY <3>1 DEF s
  <2> HIDE DEF y, u, s
  <2> QED BY <2>2 DEF AsciiZeichen, r
<1> HIDE DEF u, s
<1>7. y \in Station BY <1>1, <1>5, AsciiTyp DEF Gleichwertig, GleicheVerbindung
<1>8. /\ y.modus = x.modus /\ y.mode = x.mode /\ y.ip = x.ip
      /\ y.handle = x.handle /\ y.geraet = x.geraet /\ y.in = Tail(x.in)
      /\ y.out = x.out /\ y.druck = x.druck /\ y.ascii = s /\ y.tipp = x.tipp
  BY <1>1 DEF Station
<1> HIDE DEF y
<1>9. Erhaelt(y, x) BY <1>3, <1>5, <1>7, <1>8, GelesenErhaelt
<1>10. CASE x.modus = "KommendVerbVorstufe" /\ z = [w EXCEPT !.abbau = TRUE]
  <2>1. Erhaelt(w, y) BY <1>7, <1>8, <1>10, WechselErhaelt DEF TModus, AusModi
  <2>2. w \in Station BY <2>1 DEF Erhaelt
  <2> HIDE DEF w
  <2>3. Erhaelt(z, w) BY <1>10, <2>2, AbbauErhaelt
  <2> QED BY <1>9, <2>1, <2>3, ErhaeltTransitiv
<1>11. CASE x.modus = "KommendVerbVorstufe" /\ z \in DurchwahlGeprueft(y)
  <2>1. Erhaelt(z, y) BY <1>7, <1>8, <1>11, DurchwahlGeprueftErhaelt DEF AusModi
  <2> QED BY <1>9, <2>1, ErhaeltTransitiv
<1> QED BY <1>6, <1>9, <1>10, <1>11

LEMMA DurchwahlTelegrammErhaelt ==
    ASSUME NEW x \in Station, x.in # << >>, NEW z \in DurchwahlTelegramm(x)
    PROVE  Erhaelt(z, x)
<1> DEFINE y == [Rest(x) EXCEPT !.prot = "iTelex", !.abbau = FALSE]
<1>1. Erhaelt(y, x) /\ y \in Station /\ y.modus = x.modus
  <2>1. "iTelex" \in Protokolle BY DEF Protokolle
  <2> HIDE DEF y
  <2>2. y \in {Rest(x), [Rest(x) EXCEPT !.prot = "iTelex"],
               [Rest(x) EXCEPT !.prot = "iTelex", !.abbau = FALSE]}
    BY DEF y
  <2>3. \E p \in Protokolle, b \in BOOLEAN :
           y \in {Rest(x), [Rest(x) EXCEPT !.prot = p], [Rest(x) EXCEPT !.prot = p, !.abbau = b]}
    BY <2>1, <2>2
  <2> QED BY <2>3, RestFelder
<1>2. z = y \/ (x.modus = "KommendVerbVorstufe" /\ z \in DurchwahlGeprueft(y))
  BY DEF DurchwahlTelegramm
<1> HIDE DEF y
<1>3. x.modus = "KommendVerbVorstufe" /\ z \in DurchwahlGeprueft(y) => Erhaelt(z, y)
  BY <1>1, DurchwahlGeprueftErhaelt DEF AusModi
<1> QED BY <1>1, <1>2, <1>3, ErhaeltTransitiv

LEMMA BaudotBlockErhaelt ==
    ASSUME NEW x \in Station, BlockVollstaendig(x), NEW z \in BaudotBlock(x)
    PROVE  Erhaelt(z, x)
<1> DEFINE i == Tail(Tail(x.in))
           d == Append(x.druck, x.in[1].von)
           y == [x EXCEPT !.in = i, !.prot = "iTelex", !.druck = d]
<1>1. x.in \in Seq(Item) /\ x.in # << >> /\ x.druck \in Seq(Herkunft)
  BY BlockTyp
<1>2. Tail(x.in) \in Bis(Item, SocketInBufMax) /\ Tail(x.in) # << >> BY BlockTyp
<1>3. i \in Bis(Item, SocketInBufMax) /\ Inhalt(i) \subseteq Inhalt(Tail(x.in))
  <2> DEFINE t == Tail(x.in)
  <2>0. t \in Bis(Item, SocketInBufMax) /\ t # << >> BY <1>2
  <2> HIDE DEF t
  <2>1. Tail(t) \in Bis(Item, SocketInBufMax) BY <2>0, Groessen, BisRest
  <2>2. Inhalt(Tail(t)) \subseteq Inhalt(t)
    <3>1. t \in Seq(Item) BY <2>0 DEF Bis
    <3> QED BY <2>0, <3>1, InhaltRest
  <2> QED BY <2>1, <2>2 DEF t
<1>4. Inhalt(Tail(x.in)) \subseteq Inhalt(x.in) BY <1>1, InhaltRest
<1>5. Inhalt(i) \subseteq Inhalt(x.in) BY <1>3, <1>4
<1>6. x.in[1].von \in Herkunft
  <2>1. x.in[1] \in Item BY <1>1, RestTyp
  <2> QED BY <2>1 DEF Item, Herkunft, Partner
<1>7. d \in Bis(Herkunft, MaxPuffer) /\ Inhalt(d) = Inhalt(x.druck) \cup {x.in[1].von}
  <2>1. d \in Bis(Herkunft, MaxPuffer)
    BY <1>6, PufferTyp, Groessen, BisAnhang DEF BlockVollstaendig
  <2> QED BY <1>1, <1>6, <2>1, InhaltAnhang
<1>8. [Rest(Rest(x)) EXCEPT !.prot = "iTelex", !.druck = Append(@, x.in[1].von)] = y
  BY DEF Rest, Station
<1>9. z = y \/ (x.modus = "KommendVerbVorstufe" /\ z = ModusWechsel(y, "KommendEinschalten"))
  BY <1>8 DEF BaudotBlock
<1> HIDE DEF i, d
<1>10. /\ y \in Station /\ y.modus = x.modus /\ y.mode = x.mode /\ y.ip = x.ip
       /\ y.handle = x.handle /\ y.geraet = x.geraet /\ y.in = i
       /\ y.out = x.out /\ y.druck = d /\ y.ascii = x.ascii /\ y.tipp = x.tipp
  BY <1>3, <1>7 DEF Station, Protokolle
<1> HIDE DEF y
<1>11. Erhaelt(y, x) BY <1>1, <1>5, <1>7, <1>10, GelesenErhaelt
<1>12. x.modus = "KommendVerbVorstufe" => Erhaelt(ModusWechsel(y, "KommendEinschalten"), y)
  BY <1>10, WechselErhaelt DEF TModus, AusModi
<1> QED BY <1>9, <1>11, <1>12, ErhaeltTransitiv

LEMMA RestProtErhaelt ==
    ASSUME NEW x \in Station, x.in # << >>
    PROVE  LET y == [Rest(x) EXCEPT !.prot = "iTelex"]
           IN  Erhaelt(y, x) /\ y \in Station /\ y.modus = x.modus
<1> DEFINE y == [Rest(x) EXCEPT !.prot = "iTelex"]
<1>1. "iTelex" \in Protokolle BY DEF Protokolle
<1> HIDE DEF y
<1>2. y \in {Rest(x), [Rest(x) EXCEPT !.prot = "iTelex"],
             [Rest(x) EXCEPT !.prot = "iTelex", !.abbau = FALSE]}
  BY DEF y
<1>3. \E p \in Protokolle, b \in BOOLEAN :
         y \in {Rest(x), [Rest(x) EXCEPT !.prot = p], [Rest(x) EXCEPT !.prot = p, !.abbau = b]}
  BY <1>1, <1>2
<1>4. Erhaelt(y, x) /\ y \in Station /\ y.modus = x.modus BY <1>3, RestFelder
<1> QED BY <1>4 DEF y

LEMMA EndeTelegrammErhaelt ==
    ASSUME NEW x \in Station, x.in # << >>, x.modus # "GehendReserv",
           NEW z \in EndeTelegramm(x)
    PROVE  Erhaelt(z, x)
<1> DEFINE y == [Rest(x) EXCEPT !.prot = "iTelex"]
           w == WahlAbbruchMeldung(y)
<1>1. Erhaelt(y, x) /\ y \in Station /\ y.modus = x.modus BY RestProtErhaelt
<1>2. PICK v \in {y, w} : z = [InterneVerbindungBeenden(v, TRUE) EXCEPT !.abbau = TRUE]
  BY DEF EndeTelegramm
<1> HIDE DEF y
<1>3. Erhaelt(w, y) BY <1>1, MeldungErhaelt
<1>4. w \in Station BY <1>3 DEF Erhaelt
<1> HIDE DEF w
<1>5. Erhaelt(v, x) BY <1>1, <1>3, ErhaeltTransitiv
<1>6. Erhaelt(z, v) BY <1>1, <1>2, <1>4, InterneAbbauErhaelt
<1> QED BY <1>5, <1>6, ErhaeltTransitiv

LEMMA QuittTelegrammErhaelt ==
    ASSUME NEW x \in Station, x.in # << >>, NEW z \in QuittTelegramm(x)
    PROVE  Erhaelt(z, x)
<1> DEFINE y == [Rest(x) EXCEPT !.prot = "iTelex"]
<1>1. Erhaelt(y, x) /\ y \in Station /\ y.modus = x.modus BY RestProtErhaelt
<1>2. \/ x.modus = "KommendVerbVorstufe" /\ z \in InternAnwaehlen(y)
      \/ z = ModusWechsel(EinschaltenGehend(y), "GehendVerbunden")
      \/ z = y
  BY DEF QuittTelegramm
<1> HIDE DEF y
<1>3. x.modus = "KommendVerbVorstufe" /\ z \in InternAnwaehlen(y) => Erhaelt(z, y)
  BY <1>1, InternAnwaehlenErhaelt DEF AusModi
<1>4. Erhaelt(ModusWechsel(EinschaltenGehend(y), "GehendVerbunden"), y)
  BY <1>1, EinWechselErhaelt DEF TModus, AusModi
<1> QED BY <1>1, <1>2, <1>3, <1>4, ErhaeltTransitiv

LEMMA VersionTelegrammErhaelt ==
    ASSUME NEW x \in Station, x.in # << >>, NEW z \in VersionTelegramm(x)
    PROVE  Erhaelt(z, x)
<1> DEFINE y == [Rest(x) EXCEPT !.prot = "iTelex"]
<1>1. Erhaelt(y, x) /\ y \in Station BY RestProtErhaelt
<1>2. z \in {y, InSocketOutBuf(y)} BY DEF VersionTelegramm
<1> HIDE DEF y
<1>3. Erhaelt(InSocketOutBuf(y), y) BY <1>1, InSocketOutBufErhaelt
<1> QED BY <1>1, <1>2, <1>3, ErhaeltTransitiv

LEMMA WirkungErhaelt ==
    ASSUME NEW x \in Station, x.in # << >>, ~Wartet(x), x.mode # "Idle",
           x.modus # "GehendReserv", NEW z \in Wirkung(x, x.in[1].art)
    PROVE  Erhaelt(z, x)
<1> DEFINE art == x.in[1].art
<1>1. Erhaelt(Rest(x), x)
  <2>1. "iTelex" \in Protokolle BY DEF Protokolle
  <2>2. \E p \in Protokolle, b \in BOOLEAN :
           Rest(x) \in {Rest(x), [Rest(x) EXCEPT !.prot = p],
                       [Rest(x) EXCEPT !.prot = p, !.abbau = b]}
    BY <2>1
  <2> QED BY <2>2, RestFelder
<1>2. CASE art = "Ascii" BY <1>2, AsciiZeichenErhaelt DEF Wirkung, Wartet
<1>3. CASE art = "Durchwahl" BY <1>3, DurchwahlTelegrammErhaelt DEF Wirkung
<1>4. CASE art = "Kopf"
  BY <1>4, BaudotBlockErhaelt DEF Wirkung, Wartet
<1>5. CASE art = "Ende" BY <1>5, EndeTelegrammErhaelt DEF Wirkung
<1>6. CASE art = "Quitt" BY <1>6, QuittTelegrammErhaelt DEF Wirkung
<1>7. CASE art = "Version" BY <1>7, VersionTelegrammErhaelt DEF Wirkung
<1>8. CASE art = "Rest"
  <2>1. z \in {Rest(x)} \cup DurchwahlTelegramm(x) \cup EndeTelegramm(x) \cup QuittTelegramm(x)
    BY <1>8 DEF Wirkung
  <2> QED BY <1>1, <2>1, DurchwahlTelegrammErhaelt, EndeTelegrammErhaelt, QuittTelegrammErhaelt
<1>9. CASE art \notin {"Ascii", "Durchwahl", "Kopf", "Ende", "Quitt", "Version", "Rest"}
  BY <1>1, <1>9 DEF Wirkung
<1> QED BY <1>2, <1>3, <1>4, <1>5, <1>6, <1>7, <1>8, <1>9

(***************************************************************************)
(* The table, and what a step does to both invariants.                     *)
(***************************************************************************)
(* Nothing is received that was not there before. *)
RxBleibt(u, t) ==
    \A s \in Slots : u[s].peer = t[s].peer /\ Inhalt(u[s].rx) \subseteq Inhalt(t[s].rx)

LEMMA RxTransitiv ==
    ASSUME NEW t, NEW u, NEW v, RxBleibt(v, u), RxBleibt(u, t)
    PROVE  RxBleibt(v, t)
BY DEF RxBleibt

LEMMA RxSchliessen ==
    ASSUME NEW t \in Tabelle, NEW h
    PROVE  RxBleibt(CloseTCPSocket(t, h), t)
<1>1. \A s \in Slots : /\ CloseTCPSocket(t, h)[s].peer = t[s].peer
                       /\ CloseTCPSocket(t, h)[s].rx = t[s].rx
  BY DEF CloseTCPSocket, Tabelle, Socket
<1> QED BY <1>1 DEF RxBleibt

LEMMA RxAngenommen ==
    ASSUME NEW t \in Tabelle, NEW K
    PROVE  RxBleibt(Angenommen(t, K), t)
<1>1. \A s \in Slots : /\ Angenommen(t, K)[s].peer = t[s].peer
                       /\ Angenommen(t, K)[s].rx = t[s].rx
  BY DEF Angenommen, Tabelle, Socket
<1> QED BY <1>1 DEF RxBleibt

LEMMA TabelleBleibt ==
    ASSUME NEW x \in Station, NEW y, NEW t, NEW u,
           Erhaelt(y, x), RxBleibt(u, t), TabellePasst(x, t)
    PROVE  TabellePasst(y, u)
<1>1. \A s \in Slots : OhneText(t[s].rx) => OhneText(u[s].rx) BY DEF RxBleibt, OhneText
<1>2. \A s \in Slots : \A i \in Inhalt(u[s].rx) : i.von = u[s].peer
  BY DEF RxBleibt, TabellePasst
<1>3. y.handle # NO_SOCKET_USED => y.handle = x.handle /\ x.handle \in Slots
  BY DEF Erhaelt, Station
<1> QED BY <1>1, <1>2, <1>3 DEF TabellePasst, Erhaelt

(* Every step keeps the first invariant as long as the ten minute timer is *)
(* left alone, and the second as long as no entry in use is given away and *)
(* a station that is dialled does not answer with text.                    *)
Bewahrt ==
    /\ ~Funkstille /\ Abgeschaltet(itx) => Abgeschaltet(itx')
    /\ ~Neuvergabe /\ ~TextBeimWaehlen /\ Ordentlich(itx) /\ TabellePasst(itx, tcp)
         => Ordentlich(itx') /\ TabellePasst(itx', tcp')

LEMMA BewahrtRegel ==
    ASSUME IInv, Erhaelt(itx', itx), RxBleibt(tcp', tcp)
    PROVE  Bewahrt
<1>1. itx \in Station BY DEF IInv
<1>2. TabellePasst(itx, tcp) => TabellePasst(itx', tcp') BY <1>1, TabelleBleibt
<1> QED BY <1>2 DEF Bewahrt, Erhaelt

LEMMA NurStation ==
    ASSUME IInv, tcp' = tcp, Erhaelt(itx', itx)
    PROVE  Bewahrt
<1>1. RxBleibt(tcp', tcp) BY DEF RxBleibt
<1> QED BY <1>1, BewahrtRegel

LEMMA NichtsBewahrt ==
    ASSUME itx' = itx, tcp' = tcp
    PROVE  Bewahrt
BY DEF Bewahrt, Abgeschaltet, Ordentlich, TabellePasst, Passende

(***************************************************************************)
(* A connection to the station dialled: the line that dials has nothing in *)
(* its buffers, so the call begins with nothing but its own.               *)
(***************************************************************************)
LEMMA AufgebautOrdentlich ==
    ASSUME NEW x \in Station, NEW p \in Partner, NEW s \in Slots, NEW alsAscii \in BOOLEAN,
           x.modus = "GehendWaehlen",
           x.druck = << >>, x.ascii = << >>, x.tipp = << >>
    PROVE  Ordentlich(Aufgebaut(x, p, s, alsAscii))
<1> DEFINE y == [x EXCEPT !.ip = p, !.handle = s, !.mode = "Originate",
                          !.abbau = FALSE, !.abbruchUm = FALSE,
                          !.prot = IF alsAscii THEN "Ascii" ELSE "iTelex",
                          !.in = << >>, !.out = << >>]
<1>1. OhnePuffer([x EXCEPT !.ip = p, !.handle = s, !.mode = "Originate",
                           !.abbau = FALSE, !.abbruchUm = FALSE,
                           !.prot = IF alsAscii THEN "Ascii" ELSE "iTelex"]) = y
  BY DEF OhnePuffer, Station
<1>2. Aufgebaut(x, p, s, alsAscii)
        \in {ModusWechsel(EinschaltenGehend(y), "GehendVerbunden"), InSocketOutBuf(y)}
  BY <1>1 DEF Aufgebaut
<1>3. y \in Station
  <2> DEFINE prot == IF alsAscii THEN "Ascii" ELSE "iTelex"
             z == [x EXCEPT !.ip = p, !.handle = s, !.mode = "Originate", !.abbau = FALSE,
                            !.abbruchUm = FALSE, !.prot = prot, !.in = << >>, !.out = << >>]
  <2>1. prot \in Protokolle /\ "Originate" \in SocketModes BY DEF Protokolle, SocketModes
  <2>2. y = z OBVIOUS
  <2> HIDE DEF prot, y
  <2>3. z \in Station BY <2>1, LeerTyp DEF Station
  <2> QED BY <2>2, <2>3
<1>4. /\ y.modus = "GehendWaehlen" /\ y.mode = "Originate" /\ y.in = << >> /\ y.out = << >>
      /\ y.druck = << >> /\ y.ascii = << >> /\ y.tipp = << >>
  BY DEF Station
<1> HIDE DEF y
<1>5. Ordentlich(y)
  BY <1>4, InhaltLeer DEF Ordentlich, Passende, OhneText
<1>6. Erhaelt(InSocketOutBuf(y), y) BY <1>3, InSocketOutBufErhaelt
<1>7. Erhaelt(ModusWechsel(EinschaltenGehend(y), "GehendVerbunden"), y)
  BY <1>3, EinWechselErhaelt DEF TModus, AusModi
<1> QED BY <1>2, <1>5, <1>6, <1>7 DEF Erhaelt

(* A new entry has received nothing. *)
LEMMA NeuerEintragOhneText ==
    ASSUME NEW t \in Tabelle, NEW x, NEW y, NEW s \in Slots, NEW p \in Gegenstellen,
           TabellePasst(x, t), y.handle = s
    PROVE  TabellePasst(y, [t EXCEPT ![s] = NeuerSocket("Ready", p)])
<1> DEFINE u == [t EXCEPT ![s] = NeuerSocket("Ready", p)]
<1>1. u[s].rx = << >> BY DEF Tabelle, NeuerSocket
<1>2. \A k \in Slots \ {s} : u[k] = t[k] BY DEF Tabelle
<1> HIDE DEF u
<1>3. TabellePasst(y, u) BY <1>1, <1>2, InhaltLeer DEF TabellePasst, OhneText
<1> QED BY <1>3 DEF u

LEMMA VerbindungBewahrt ==
    ASSUME IInv, itx.modus = "GehendWaehlen", itx.mode = "Idle",
           NEW p \in Gegenstellen, VerbindungGelingt([itx EXCEPT !.ziel = Niemand], p)
    PROVE  Bewahrt
<1> DEFINE x == [itx EXCEPT !.ziel = Niemand]
<1>1. itx \in Station /\ tcp \in Tabelle /\ itx.druck = << >>
  BY DEF IInv, NetzOK, Haelt
<1>2a. Niemand \in Partner BY DEF Partner
<1>2b. x \in Station BY <1>1, <1>2a DEF Station
<1>2. /\ x \in Station /\ x.modus = "GehendWaehlen" /\ x.druck = << >>
      /\ x.ascii = itx.ascii /\ x.tipp = itx.tipp
  BY <1>1, <1>2b DEF Station
<1> HIDE DEF x
<1>3. PICK s \in Slots, alsAscii \in BOOLEAN :
        /\ tcp' = [tcp EXCEPT ![s] = NeuerSocket("Ready", p)]
        /\ itx' = Aufgebaut(x, p, s, alsAscii)
  BY DEF VerbindungGelingt, x
<1>4. p \in Partner BY DEF Partner
<1>5. itx'.handle = s /\ itx'.modus \in {"GehendWaehlen", "GehendVerbunden"}
  BY <1>2, <1>3, <1>4, AufgebautTyp
<1>6. Abgeschaltet(itx') BY <1>5 DEF Abgeschaltet, AusModi
<1>7. Ordentlich(itx) => Ordentlich(itx')
  <2> SUFFICES ASSUME Ordentlich(itx) PROVE Ordentlich(itx') OBVIOUS
  <2>1. itx.ascii = << >> /\ itx.tipp = << >> BY DEF Ordentlich, Waehlend
  <2> QED BY <1>2, <1>3, <1>4, <2>1, AufgebautOrdentlich
<1>8. TabellePasst(itx, tcp) => TabellePasst(itx', tcp')
  BY <1>1, <1>3, <1>5, NeuerEintragOhneText
<1> QED BY <1>6, <1>7, <1>8 DEF Bewahrt

LEMMA MisslungenErhaelt ==
    ASSUME NEW x \in Station, NEW p \in Partner
    PROVE  Erhaelt(Misslungen(x, p), x) /\ Misslungen(x, p).modus = x.modus
<1> DEFINE y == Misslungen(x, p)
<1>1. /\ y.modus = x.modus /\ y.geraet = x.geraet /\ y.handle = NO_SOCKET_USED
      /\ y.mode = "Idle" /\ y.in = x.in /\ y.out = x.out /\ y.druck = x.druck
      /\ y.ascii = x.ascii /\ y.tipp = x.tipp
  BY DEF Misslungen, Station
<1>2. y \in Station BY MisslungenTyp
<1> HIDE DEF y
<1>3. Erhaelt(y, x) BY <1>1, <1>2, WenigerErhaelt
<1> QED BY <1>1, <1>3 DEF y

LEMMA ZielErhaelt ==
    ASSUME NEW x \in Station, NEW p \in Partner
    PROVE  Erhaelt([x EXCEPT !.ziel = p], x) /\ [x EXCEPT !.ziel = p].modus = x.modus
<1>1. Gleichwertig([x EXCEPT !.ziel = p], x) BY ZielTyp
<1>2. [x EXCEPT !.ziel = p].modus = x.modus BY DEF Station
<1> QED BY <1>1, <1>2, NebenfeldErhaelt DEF Station

(***************************************************************************)
(* The blocks of the thread.                                               *)
(***************************************************************************)
LEMMA WahlzifferBewahrt ==
    ASSUME IInv, Wahlziffer
    PROVE  Bewahrt
<1> DEFINE y == [itx EXCEPT !.ziel = Niemand]
<1>1. itx \in Station /\ itx.modus = "GehendWaehlen" /\ itx.mode = "Idle"
  BY DEF IInv, Wahlziffer
<1>2. Verzeichnis \subseteq Gegenstellen /\ Verzeichnis \subseteq Partner /\ Niemand \in Partner
  BY VerbindungAnnahme DEF Partner
<1>3. Erhaelt(y, itx) /\ y \in Station /\ y.modus = "GehendWaehlen"
  BY <1>1, <1>2, ZielErhaelt DEF Erhaelt
<1>4. \/ tcp' = tcp /\ itx' = y
      \/ \E p \in Verzeichnis : tcp' = tcp /\ itx' = [y EXCEPT !.ziel = p]
      \/ \E p \in Verzeichnis : VerbindungGelingt(y, p)
      \/ \E p \in Verzeichnis :
           /\ tcp' = tcp
           /\ itx' = InterneVerbindungBeenden(WahlAbbruchMeldung(Misslungen(y, p)), TRUE)
  BY DEF Wahlziffer, TwiCode, netz
<1>5. CASE tcp' = tcp /\ itx' = y BY <1>3, <1>5, NurStation
<1>6. CASE \E p \in Verzeichnis : VerbindungGelingt(y, p)
  BY <1>1, <1>2, <1>6, VerbindungBewahrt
<1> HIDE DEF y
<1>7. ASSUME NEW p \in Verzeichnis, tcp' = tcp, itx' = [y EXCEPT !.ziel = p]
      PROVE  Bewahrt
  <2>1. Erhaelt(itx', y) BY <1>2, <1>3, <1>7, ZielErhaelt
  <2> QED BY <1>3, <1>7, <2>1, ErhaeltTransitiv, NurStation
<1>8. ASSUME NEW p \in Verzeichnis, tcp' = tcp,
             itx' = InterneVerbindungBeenden(WahlAbbruchMeldung(Misslungen(y, p)), TRUE)
      PROVE  Bewahrt
  <2> DEFINE m == Misslungen(y, p)
             w == WahlAbbruchMeldung(m)
  <2>1. Erhaelt(m, y) /\ m \in Station /\ m.modus = "GehendWaehlen"
    BY <1>2, <1>3, MisslungenErhaelt DEF Erhaelt
  <2> HIDE DEF m
  <2>2. Erhaelt(w, m) /\ w \in Station BY <2>1, MeldungErhaelt DEF Erhaelt
  <2> HIDE DEF w
  <2>3. Erhaelt(itx', w) BY <1>8, <2>2, InterneErhaelt DEF w, m
  <2>4. Erhaelt(w, itx) BY <1>3, <2>1, <2>2, ErhaeltTransitiv
  <2> QED BY <1>8, <2>3, <2>4, ErhaeltTransitiv, NurStation
<1> QED BY <1>4, <1>5, <1>6, <1>7, <1>8

LEMMA TwiBewahrt ==
    ASSUME IInv, Twi
    PROVE  Bewahrt
<1>1. itx \in Station /\ Haelt(itx, pc) BY DEF IInv
<1>2. CASE KeinCode BY <1>2, NichtsBewahrt DEF KeinCode, TwiCode, netz
<1>3. CASE BusVerbaufnahme
  <2>1. tcp' = tcp /\ itx' = ModusWechsel(itx, "GehendReserv")
    BY <1>3 DEF BusVerbaufnahme, TwiCode, netz
  <2>2. Erhaelt(itx', itx) BY <1>1, <2>1, WechselErhaelt DEF TModus, AusModi
  <2> QED BY <2>1, <2>2, NurStation
<1>4. CASE BusKdoEin
  <2> DEFINE e == Einschalten(itx)
             w == ModusWechsel(e, "GehendWaehlen")
  <2>1. tcp' = tcp /\ itx' = w /\ itx.modus = "GehendReserv"
    BY <1>4 DEF BusKdoEin, TwiCode, netz
  <2>2. itx.mode = "Idle" /\ itx.handle = NO_SOCKET_USED
    BY <1>1, <2>1 DEF Haelt, Ruhend
  <2>3. Gleichwertig(e, itx) BY <1>1, GeraetTyp
  <2>4. e.ascii = itx.ascii /\ e.tipp = itx.tipp BY <1>1 DEF Einschalten, Station
  <2>5. e \in Station BY <2>3 DEF Gleichwertig, GleicheVerbindung
  <2> HIDE DEF e
  <2>6. GleicheVerbindung(w, e) /\ w.modus = "GehendWaehlen"
    BY <2>5, ModusWechselTyp DEF TModus
  <2>7. w.ascii = e.ascii /\ w.tipp = e.tipp
    BY <2>5 DEF ModusWechsel, NeuerAnruf, Station
  <2> HIDE DEF w
  <2>8. w.mode = "Idle" /\ w.handle = NO_SOCKET_USED
    BY <2>2, <2>3, <2>6 DEF Gleichwertig, GleicheVerbindung
  <2>9. Ordentlich(itx) => Ordentlich(w)
    BY <2>1, <2>4, <2>6, <2>7, <2>8 DEF Ordentlich, Waehlend
  <2>10. TabellePasst(itx, tcp) => TabellePasst(w, tcp) BY <2>8 DEF TabellePasst
  <2>11. Abgeschaltet(w) BY <2>6 DEF Abgeschaltet, AusModi
  <2> QED BY <2>1, <2>9, <2>10, <2>11 DEF Bewahrt
<1>5. CASE BusQuittEin
  <2> DEFINE y == ModusWechsel(itx, "KommendVerbunden")
             d == Anhaengen(y.druck, Lokal, MaxPuffer)
             t == Anhaengen(y.tipp, y.ip, MaxPuffer)
             z == [y EXCEPT !.druck = d, !.tipp = t]
             v == ModusWechsel(itx, "PufferDruckUndSchluss")
             q == [itx EXCEPT !.warte = FALSE]
  <2>1. tcp' = tcp /\ itx' \in {y, z, v, q} BY <1>5 DEF BusQuittEin, TwiCode, netz
  <2>a. Erhaelt(q, itx)
    <3>1. q \in Station BY <1>1 DEF Station
    <3>2. /\ q.modus = itx.modus /\ q.mode = itx.mode /\ q.ip = itx.ip
          /\ q.handle = itx.handle /\ q.in = itx.in /\ q.out = itx.out
          /\ q.druck = itx.druck /\ q.ascii = itx.ascii /\ q.tipp = itx.tipp
          /\ q.geraet = itx.geraet
      BY <1>1 DEF Station
    <3> HIDE DEF q
    <3> QED BY <1>1, <3>1, <3>2, WenigerErhaelt
  <2> HIDE DEF q
  <2>2. Erhaelt(y, itx) /\ Erhaelt(v, itx) BY <1>1, WechselErhaelt DEF TModus, AusModi
  <2>3. y \in Station /\ y.modus = "KommendVerbunden"
    BY <1>1, WechselOrdentlich DEF TModus
  <2> HIDE DEF y, v
  <2>4. /\ y.druck \in Seq(Herkunft) /\ Lokal \in Herkunft
        /\ y.tipp \in Seq(Partner) /\ y.ip \in Partner
        /\ y.druck \in Bis(Herkunft, MaxPuffer) /\ y.tipp \in Bis(Partner, MaxPuffer)
    <3>1. y.ip \in Partner BY <2>3 DEF Station
    <3> QED BY <2>3, <3>1, PufferTyp DEF Herkunft
  <2>5. /\ d \in Bis(Herkunft, MaxPuffer) /\ Inhalt(d) \subseteq Inhalt(y.druck) \cup {Lokal}
        /\ t \in Bis(Partner, MaxPuffer) /\ Inhalt(t) \subseteq Inhalt(y.tipp) \cup {y.ip}
    <3>1. d \in Bis(Herkunft, MaxPuffer) /\ t \in Bis(Partner, MaxPuffer)
      BY <2>4, Groessen, BisAnhang
    <3> QED BY <2>4, <3>1, InhaltAnhang DEF Anhaengen
  <2> HIDE DEF d, t
  <2>6. /\ z \in Station /\ z.modus = y.modus /\ z.mode = y.mode /\ z.ip = y.ip
        /\ z.handle = y.handle /\ z.geraet = y.geraet /\ z.in = y.in /\ z.out = y.out
        /\ z.druck = d /\ z.tipp = t /\ z.ascii = y.ascii
    BY <2>3, <2>5 DEF Station
  <2> HIDE DEF z
  <2>7. Passende(y) => Passende(z) BY <2>5, <2>6 DEF Passende
  <2>8. Erhaelt(z, y) BY <2>3, <2>6, <2>7, PufferRegel DEF Waehlend
  <2>9. Erhaelt(z, itx) BY <2>2, <2>8, ErhaeltTransitiv
  <2> QED BY <2>1, <2>2, <2>9, <2>a, NurStation
<1>6. CASE Wahlziffer BY <1>6, WahlzifferBewahrt
<1>7. CASE BusQuittSchluss
  <2> DEFINE a == SendeBusKdoSchluss(itx)
             y == [a EXCEPT !.ascii = << >>]
             z == [itx EXCEPT !.ascii = << >>, !.geraet = FALSE]
  <2>1. z = y BY <1>1 DEF Station, SendeBusKdoSchluss
  <2>2. tcp' = tcp /\ itx' = ModusWechsel(y, "WarteGrundstellung")
    BY <1>7, <2>1 DEF BusQuittSchluss, TwiCode, netz
  <2>3. Erhaelt(a, itx) /\ ~a.geraet /\ a \in Station
    BY <1>1, AusschaltenErhaelt DEF Erhaelt
  <2> HIDE DEF a
  <2>4. y \in Station BY <2>3, AsciiTyp, LeerTyp DEF Gleichwertig, GleicheVerbindung
  <2>5. /\ y.modus = a.modus /\ y.mode = a.mode /\ y.ip = a.ip /\ y.handle = a.handle
        /\ y.in = a.in /\ y.out = a.out /\ y.druck = a.druck /\ y.ascii = << >>
        /\ y.tipp = a.tipp /\ y.geraet = a.geraet
    BY <2>3 DEF Station
  <2> HIDE DEF y
  <2>6. Erhaelt(y, a) BY <2>3, <2>4, <2>5, WenigerErhaelt
  <2>7. Erhaelt(itx', y) BY <2>2, <2>3, <2>4, <2>5, WechselErhaelt DEF TModus
  <2> QED BY <2>2, <2>3, <2>6, <2>7, ErhaeltTransitiv, NurStation
<1>8. CASE BusKdoSchluss
  <2> DEFINE a == SendeBusKdoSchluss(itx)
             y == ExterneVerbindungBeenden(a)
  <2>1. PICK v \in {itx, y} : /\ tcp' = tcp /\ itx' = ModusWechsel(v, "WarteGrundstellung")
                              /\ v = y \/ (v = itx /\ itx.modus = "Ruhe")
    <3>1. a = [itx EXCEPT !.geraet = FALSE] BY DEF SendeBusKdoSchluss
    <3> HIDE DEF a
    <3> QED BY <1>8, <3>1 DEF BusKdoSchluss, TwiCode, netz
  <2>2. Erhaelt(a, itx) /\ ~a.geraet /\ a \in Station
    BY <1>1, AusschaltenErhaelt DEF Erhaelt
  <2> HIDE DEF a
  <2>3. Erhaelt(y, a) /\ y.geraet = a.geraet BY <2>2, ExterneErhaelt
  <2>4. y \in Station BY <2>3 DEF Erhaelt
  <2> HIDE DEF y
  <2>5. Erhaelt(v, itx) BY <1>1, <2>1, <2>2, <2>3, ErhaeltTransitiv, ErhaeltSelbst
  <2>6. v \in Station /\ (v.modus \in AusModi \/ ~v.geraet)
    BY <1>1, <2>1, <2>2, <2>3, <2>4 DEF AusModi
  <2>7. Erhaelt(itx', v) BY <2>1, <2>6, WechselErhaelt DEF TModus
  <2> QED BY <2>1, <2>5, <2>7, ErhaeltTransitiv, NurStation
<1> QED BY <1>2, <1>3, <1>4, <1>5, <1>6, <1>7, <1>8 DEF Twi

LEMMA WaechterBewahrt ==
    ASSUME IInv, Waechter
    PROVE  Bewahrt
<1> DEFINE y == [InterneVerbindungBeenden(itx, TRUE) EXCEPT !.abbau = TRUE]
<1>1. itx \in Station BY DEF IInv
<1>2. tcp' = tcp /\ itx' \in {itx, InSocketOutBuf(y)} BY DEF Waechter, netz
<1>3. Erhaelt(y, itx) /\ y \in Station BY <1>1, InterneAbbauErhaelt DEF Erhaelt
<1> HIDE DEF y
<1>4. Erhaelt(InSocketOutBuf(y), itx) BY <1>3, InSocketOutBufErhaelt, ErhaeltTransitiv
<1> QED BY <1>1, <1>2, <1>4, ErhaeltSelbst, NurStation

LEMMA OhneAbnehmerErhaelt ==
    ASSUME NEW x \in Station
    PROVE  Erhaelt(OhneAbnehmer(x), x)
<1> DEFINE y == [x EXCEPT !.in = << >>]
<1>1. y \in Station BY InTyp, LeerTyp DEF Gleichwertig, GleicheVerbindung
<1>2. /\ y.modus = x.modus /\ y.mode = x.mode /\ y.ip = x.ip /\ y.handle = x.handle
      /\ y.in = << >> /\ y.out = x.out /\ y.druck = x.druck /\ y.ascii = x.ascii
      /\ y.tipp = x.tipp /\ y.geraet = x.geraet
  BY DEF Station
<1>3. OhneAbnehmer(x) \in {x, y} BY DEF OhneAbnehmer
<1> HIDE DEF y
<1> QED BY <1>1, <1>2, <1>3, WenigerErhaelt

(* An accepted call starts with nothing in any buffer. *)
LEMMA KommendBewahrt ==
    ASSUME IInv, NEW h \in Slots, itx.modus = "Ruhe",
           itx' = KommendeVerbindungInitialisieren(itx, h), RxBleibt(tcp', tcp)
    PROVE  Bewahrt
<1> DEFINE y == [itx EXCEPT !.handle = h, !.ip = tcp[h].peer,
                            !.mode = "Answer", !.abbau = FALSE,
                            !.prot = "Unknown", !.abbruchUm = FALSE]
           z == OhnePuffer(y)
           w == ModusWechsel(z, "KommendVerbVorstufe")
<1>1. itx \in Station /\ tcp[h].peer \in Partner
  BY DEF IInv, NetzOK, Tabelle, Socket, Partner
<1>2. itx' = w BY DEF KommendeVerbindungInitialisieren
<1>3. y \in Station /\ y.geraet = itx.geraet /\ y.modus = "Ruhe"
  BY <1>1 DEF Station, SocketModes, Protokolle
<1> HIDE DEF y
<1>4. z \in Station BY <1>3, OhnePufferTyp DEF Gleichwertig, GleicheVerbindung
<1>5. z.geraet = itx.geraet /\ z.modus = "Ruhe" /\ z.in = << >> /\ z.out = << >>
  BY <1>3 DEF OhnePuffer, Station
<1> HIDE DEF z
<1>6. /\ w.geraet = itx.geraet /\ w.modus = "KommendVerbVorstufe"
      /\ w.in = << >> /\ w.out = << >> /\ w.druck = << >> /\ w.ascii = << >> /\ w.tipp = << >>
  BY <1>4, <1>5 DEF ModusWechsel, NeuerAnruf, Station
<1> HIDE DEF w
<1>7. Ordentlich(w) BY <1>6, InhaltLeer DEF Ordentlich, Passende, Waehlend
<1>8. TabellePasst(itx, tcp) => TabellePasst(w, tcp') BY <1>6 DEF TabellePasst, RxBleibt
<1>9. Abgeschaltet(itx) => Abgeschaltet(w) BY <1>6 DEF Abgeschaltet, AusModi
<1> QED BY <1>2, <1>7, <1>8, <1>9 DEF Bewahrt

LEMMA PortBewahrt ==
    ASSUME IInv, Port
    PROVE  Bewahrt
<1>1. itx \in Station /\ tcp \in Tabelle BY DEF IInv, NetzOK
<1>2. CASE KeinAnruf \/ AnrufNochNichtSichtbar
  BY <1>1, <1>2, OhneAbnehmerErhaelt, NurStation DEF KeinAnruf, AnrufNochNichtSichtbar
<1>3. ASSUME NEW K \in SUBSET Slots, NEW neu \in Slots, PortRequest(K, neu),
             AnrufAnnehmen(K, neu)
      PROVE  Bewahrt
  <2>1. RxBleibt(tcp', tcp) BY <1>1, <1>3, RxAngenommen DEF AnrufAnnehmen
  <2>2. CASE itx.mode = "Idle"
    BY <1>3, <2>1, <2>2, KommendBewahrt DEF AnrufAnnehmen, Annehmbar
  <2>3. CASE itx.mode # "Idle"
    <3> DEFINE y == [itx EXCEPT !.handle = neu]
    <3>1. itx.mode = "Answer" /\ itx' = OhneAbnehmer(y)
      BY <1>3, <2>3 DEF AnrufAnnehmen, Annehmbar
    <3>2. /\ y \in Station /\ y.modus = itx.modus /\ y.mode = itx.mode /\ y.ip = itx.ip
          /\ y.in = itx.in /\ y.out = itx.out /\ y.druck = itx.druck
          /\ y.ascii = itx.ascii /\ y.tipp = itx.tipp /\ y.geraet = itx.geraet
      BY <1>1 DEF Station
    <3> HIDE DEF y
    <3>3. Abgeschaltet(itx) => Abgeschaltet(y) BY <3>2 DEF Abgeschaltet
    <3>4. Ordentlich(itx) => Ordentlich(y) /\ y.modus # "GehendWaehlen"
      BY <3>1, <3>2 DEF Ordentlich, Passende
    <3>5. TabellePasst(itx, tcp) /\ y.modus # "GehendWaehlen" => TabellePasst(y, tcp)
      BY DEF TabellePasst
    <3>6. Erhaelt(itx', y) BY <3>1, <3>2, OhneAbnehmerErhaelt
    <3>7. TabellePasst(y, tcp) => TabellePasst(itx', tcp')
      BY <2>1, <3>2, <3>6, TabelleBleibt
    <3> QED BY <3>3, <3>4, <3>5, <3>6, <3>7 DEF Bewahrt, Erhaelt
  <2> QED BY <2>2, <2>3
<1>4. ASSUME NEW K \in SUBSET Slots, NEW neu \in Slots, PortRequest(K, neu),
             AnrufAbweisen(K, neu)
      PROVE  Bewahrt
  <2> DEFINE g == Angenommen(tcp, K)
             t == CloseTCPSocket(g, itx.blind)
             y == [itx EXCEPT !.blind = neu]
  <2>1. K \in SUBSET {s \in Slots : tcp[s].st = "Ready2Use"}
    BY <1>4 DEF PortRequest, Wartend
  <2>2. g \in Tabelle /\ RxBleibt(g, tcp) BY <1>1, <2>1, AngenommenTyp, RxAngenommen
  <2>3. tcp' \in {t, CloseTCPSocket(t, neu)} BY <1>4 DEF AnrufAbweisen
  <2> HIDE DEF g
  <2>4. t \in Tabelle /\ RxBleibt(t, g) BY <2>2, CloseTyp, RxSchliessen
  <2> HIDE DEF t
  <2>5. RxBleibt(CloseTCPSocket(t, neu), t) BY <2>4, RxSchliessen
  <2>6. RxBleibt(t, tcp) BY <2>2, <2>4, RxTransitiv
  <2>7. RxBleibt(tcp', tcp) BY <2>3, <2>5, <2>6, RxTransitiv
  <2>8. /\ y \in Station /\ y.modus = itx.modus /\ y.mode = itx.mode /\ y.ip = itx.ip
        /\ y.handle = itx.handle /\ y.in = itx.in /\ y.out = itx.out /\ y.druck = itx.druck
        /\ y.ascii = itx.ascii /\ y.tipp = itx.tipp /\ y.geraet = itx.geraet
    BY <1>1 DEF Station
  <2>9. itx' = OhneAbnehmer(y) BY <1>4 DEF AnrufAbweisen
  <2> HIDE DEF y
  <2>10. Erhaelt(y, itx) BY <1>1, <2>8, WenigerErhaelt
  <2>11. Erhaelt(itx', itx) BY <2>8, <2>9, <2>10, OhneAbnehmerErhaelt, ErhaeltTransitiv
  <2> QED BY <2>7, <2>11, BewahrtRegel
<1> QED BY <1>2, <1>3, <1>4 DEF Port

(* The call ends, with or without what waits in the socket buffers. *)
LEMMA GetrenntErhaelt ==
    ASSUME NEW x \in Station
    PROVE  /\ Erhaelt(OhneVerbindung(x), x)
           /\ Erhaelt(OhneVerbindung(OhnePuffer(x)), x)
<1> DEFINE y == OhneVerbindung(x)
           p == OhnePuffer(x)
           z == OhneVerbindung(p)
<1>1. /\ y.modus = x.modus /\ y.mode = "Idle" /\ y.handle = x.handle
      /\ y.in = x.in /\ y.out = x.out /\ y.druck = x.druck /\ y.ascii = x.ascii
      /\ y.tipp = x.tipp /\ y.geraet = x.geraet
  BY DEF OhneVerbindung, Station
<1>2. p \in Station BY OhnePufferTyp DEF Gleichwertig, GleicheVerbindung
<1>3. /\ p.modus = x.modus /\ p.mode = x.mode /\ p.ip = x.ip /\ p.handle = x.handle
      /\ p.in = << >> /\ p.out = << >> /\ p.druck = x.druck /\ p.ascii = x.ascii
      /\ p.tipp = x.tipp /\ p.geraet = x.geraet
  BY DEF OhnePuffer, Station
<1> HIDE DEF p
<1>4. /\ z.modus = p.modus /\ z.mode = "Idle" /\ z.handle = p.handle
      /\ z.in = p.in /\ z.out = p.out /\ z.druck = p.druck /\ z.ascii = p.ascii
      /\ z.tipp = p.tipp /\ z.geraet = p.geraet
  BY <1>2 DEF OhneVerbindung, Station
<1>5. y \in Station /\ z \in Station BY <1>2, OhneVerbindungTyp
<1> HIDE DEF y, z
<1>6. Erhaelt(y, x) BY <1>1, <1>5, WenigerErhaelt
<1>7. Erhaelt(z, x) BY <1>3, <1>4, <1>5, WenigerErhaelt
<1> QED BY <1>6, <1>7 DEF y, z, p

LEMMA HandleErhaelt ==
    ASSUME NEW x \in Station, NEW y \in Station,
           y.handle = NO_SOCKET_USED, y.modus = x.modus, y.mode = x.mode, y.ip = x.ip,
           y.in = x.in, y.out = x.out, y.druck = x.druck, y.ascii = x.ascii,
           y.tipp = x.tipp, y.geraet = x.geraet
    PROVE  Erhaelt(y, x)
BY WenigerErhaelt

LEMMA TrennungBewahrt ==
    ASSUME IInv, Trennung \/ PlanmaessigerAbbau
    PROVE  Bewahrt
<1> DEFINE h == [itx EXCEPT !.handle = NO_SOCKET_USED]
           y == [itx EXCEPT !.handle = NO_SOCKET_USED, !.abbruchUm = FALSE]
<1>1. itx \in Station /\ tcp \in Tabelle BY DEF IInv, NetzOK
<1>2. /\ tcp' = CloseTCPSocket(tcp, itx.handle)
      /\ itx' \in {y, OhneVerbindung(OhnePuffer(y)), OhneVerbindung(h)}
  BY DEF Trennung, PlanmaessigerAbbau
<1>3. RxBleibt(tcp', tcp) BY <1>1, <1>2, RxSchliessen
<1>4. /\ h \in Station /\ h.handle = NO_SOCKET_USED /\ h.modus = itx.modus
      /\ h.mode = itx.mode /\ h.ip = itx.ip /\ h.in = itx.in /\ h.out = itx.out
      /\ h.druck = itx.druck /\ h.ascii = itx.ascii /\ h.tipp = itx.tipp
      /\ h.geraet = itx.geraet
  BY <1>1 DEF Station
<1>5. /\ y \in Station /\ y.handle = NO_SOCKET_USED /\ y.modus = itx.modus
      /\ y.mode = itx.mode /\ y.ip = itx.ip /\ y.in = itx.in /\ y.out = itx.out
      /\ y.druck = itx.druck /\ y.ascii = itx.ascii /\ y.tipp = itx.tipp
      /\ y.geraet = itx.geraet
  BY <1>1 DEF Station
<1> HIDE DEF h, y
<1>6. Erhaelt(h, itx) /\ Erhaelt(y, itx) BY <1>1, <1>4, <1>5, HandleErhaelt
<1>7. /\ Erhaelt(OhneVerbindung(h), h)
      /\ Erhaelt(OhneVerbindung(OhnePuffer(y)), y)
  BY <1>4, <1>5, GetrenntErhaelt
<1>8. Erhaelt(itx', itx) BY <1>2, <1>6, <1>7, ErhaeltTransitiv
<1> QED BY <1>3, <1>8, BewahrtRegel

(* What is received came from the peer of the entry, the partner. *)
LEMMA EmpfangBewahrt ==
    ASSUME IInv, Empfang
    PROVE  Bewahrt
<1> DEFINE h == itx.handle
           rx == tcp[h].rx
           n == Kleiner(Len(rx), SocketInBufMax - Len(itx.in))
           i == itx.in \o SubSeq(rx, 1, n)
           r == SubSeq(rx, n + 1, Len(rx))
           y == [itx EXCEPT !.in = i, !.abbruchUm = FALSE]
<1>0. itx \in Station /\ tcp \in Tabelle BY DEF IInv, NetzOK
<1>1. itx \in Station /\ tcp \in Tabelle /\ itx.in \in Seq(Item) BY <1>0, PufferTyp
<1>a. itx' \in Station
  <2>1. [Next]_vars BY DEF Next, Thread
  <2> QED BY <2>1, JederSchritt DEF Schritt, IInv
<1>2. CASE itx' = itx /\ tcp' = tcp BY <1>2, NichtsBewahrt
<1>3. CASE /\ h # NO_SOCKET_USED /\ Len(itx.in) < SocketInBufMax
           /\ itx' = y /\ tcp' = [tcp EXCEPT ![h].rx = r]
  <2>1. h \in Slots BY <1>1, <1>3 DEF Station
  <2>2. rx \in Seq(Item) BY <1>1, <2>1 DEF Tabelle, Socket
  <2>3. n \in 0 .. Len(rx)
    <3>1. Len(rx) \in Nat /\ Len(itx.in) \in Nat BY <1>1, <2>2
    <3> QED BY SMTT(60), <1>3, <3>1, VerbindungAnnahme DEF Kleiner
  <2>4. SubSeq(rx, 1, n) \in Seq(Item) /\ Inhalt(SubSeq(rx, 1, n)) \subseteq Inhalt(rx)
    BY <2>2, <2>3, InhaltTeil
  <2>5. Inhalt(r) \subseteq Inhalt(rx)
    <3>1. Len(rx) \in Nat /\ n + 1 \in 1 .. Len(rx) + 1 BY <2>2, <2>3
    <3> QED BY <2>2, <3>1, InhaltTeil
  <2>6. i \in Seq(Item) /\ Inhalt(i) \subseteq Inhalt(itx.in) \cup Inhalt(rx)
    <3> DEFINE q == SubSeq(rx, 1, n)
    <3>1. q \in Seq(Item) /\ Inhalt(q) \subseteq Inhalt(rx) BY <2>4
    <3>2. i = itx.in \o q OBVIOUS
    <3> HIDE DEF q, i, rx
    <3> QED BY <1>1, <3>1, <3>2, InhaltVerkettet
  <2>7. /\ tcp'[h].peer = tcp[h].peer /\ tcp'[h].rx = r
        /\ \A s \in Slots \ {h} : tcp'[s] = tcp[s]
    BY <1>1, <1>3, <2>1 DEF Tabelle, Socket
  <2> HIDE DEF i, r, n
  <2>8. RxBleibt(tcp', tcp) BY <2>5, <2>7 DEF RxBleibt
  <2>9. /\ y \in Station /\ y.modus = itx.modus /\ y.mode = itx.mode /\ y.ip = itx.ip
        /\ y.handle = itx.handle /\ y.in = i /\ y.out = itx.out /\ y.druck = itx.druck
        /\ y.ascii = itx.ascii /\ y.tipp = itx.tipp /\ y.geraet = itx.geraet
    <3>1. y \in Station BY <1>3, <1>a
    <3> QED BY <1>1, <3>1 DEF Station
  <2> HIDE DEF y
  <2>10. Abgeschaltet(itx) => Abgeschaltet(y) BY <2>9 DEF Abgeschaltet
  <2>11. ASSUME ~Neuvergabe, Ordentlich(itx), TabellePasst(itx, tcp)
         PROVE  Ordentlich(y) /\ TabellePasst(y, tcp')
    <3>1. tcp[h].peer = itx.ip BY <1>3, <2>11 DEF IInv, SocketPasst
    <3>2. \A t \in Inhalt(rx) : t.von = itx.ip BY <2>1, <2>11, <3>1 DEF TabellePasst
    <3>3. itx.modus = "GehendWaehlen" => OhneText(rx) BY <1>3, <2>11 DEF TabellePasst
    <3> HIDE DEF rx
    <3>4. Passende(itx) => Passende(y) BY <2>6, <2>9, <3>2 DEF Passende
    <3>5. itx.modus = "GehendWaehlen" /\ OhneText(itx.in) => OhneText(y.in)
      BY <2>6, <2>9, <3>3 DEF OhneText
    <3>6. Ordentlich(y) BY <2>9, <2>11, <3>4, <3>5 DEF Ordentlich
    <3>7. TabellePasst(y, tcp)
      BY <2>9, <2>11 DEF TabellePasst
    <3>8. Erhaelt(y, y) BY <2>9, ErhaeltSelbst
    <3>9. TabellePasst(y, tcp') BY <2>8, <2>9, <3>7, <3>8, TabelleBleibt
    <3> QED BY <3>6, <3>9
  <2> QED BY <1>3, <2>10, <2>11 DEF Bewahrt
<1>4. Len(itx.in) \in Nat /\ SocketInBufMax \in Nat BY <1>1, VerbindungAnnahme
<1>5. \/ itx' = itx /\ tcp' = tcp
      \/ /\ h # NO_SOCKET_USED /\ ~(Len(itx.in) >= SocketInBufMax)
         /\ itx' = y /\ tcp' = [tcp EXCEPT ![h].rx = r]
  BY DEF Empfang, Empfangen
<1> QED BY <1>2, <1>3, <1>4, <1>5

LEMMA GesendetErhaelt ==
    ASSUME NEW x \in Station, NEW y \in Station,
           y.modus = x.modus, y.mode = x.mode, y.ip = x.ip, y.handle = x.handle,
           y.in = x.in, Inhalt(y.out) \subseteq Inhalt(x.out), y.druck = x.druck,
           y.ascii = x.ascii, y.tipp = x.tipp, y.geraet = x.geraet
    PROVE  Erhaelt(y, x)
<1>1. Passende(x) => Passende(y) BY DEF Passende
<1>2. Ordentlich(x) /\ x.modus \in Waehlend => y.ascii = << >> /\ y.tipp = << >>
  BY DEF Ordentlich
<1> QED BY <1>1, <1>2, PufferRegel

LEMMA AllesTeilGesendetErhaelt ==
    ASSUME NEW x \in Station
    PROVE  /\ Erhaelt(AllesGesendet(x), x)
           /\ Len(x.out) > 1 => Erhaelt(TeilGesendet(x), x)
<1> DEFINE y == AllesGesendet(x)
           z == TeilGesendet(x)
<1>1. x.out \in Seq(Partner) BY PufferTyp
<1>2. /\ y.modus = x.modus /\ y.mode = x.mode /\ y.ip = x.ip /\ y.handle = x.handle
      /\ y.in = x.in /\ y.out = << >> /\ y.druck = x.druck
      /\ y.ascii = x.ascii /\ y.tipp = x.tipp /\ y.geraet = x.geraet
  BY DEF AllesGesendet, Station
<1>3. /\ z.modus = x.modus /\ z.mode = x.mode /\ z.ip = x.ip /\ z.handle = x.handle
      /\ z.in = x.in /\ z.out = Tail(x.out) /\ z.druck = x.druck
      /\ z.ascii = x.ascii /\ z.tipp = x.tipp /\ z.geraet = x.geraet
  BY DEF TeilGesendet, Station
<1>4. y \in Station BY AllesGesendetTyp DEF Gleichwertig, GleicheVerbindung
<1>5. Len(x.out) > 1 => z \in Station BY TeilGesendetTyp DEF Gleichwertig, GleicheVerbindung
<1>6. Len(x.out) > 1 => Inhalt(Tail(x.out)) \subseteq Inhalt(x.out)
  <2>1. Len(x.out) > 1 => x.out # << >> OBVIOUS
  <2> QED BY <1>1, <2>1, InhaltRest
<1> HIDE DEF y, z
<1>7. Erhaelt(y, x) BY <1>2, <1>4, InhaltLeer, GesendetErhaelt
<1>8. Len(x.out) > 1 => Erhaelt(z, x) BY <1>3, <1>5, <1>6, GesendetErhaelt
<1> QED BY <1>7, <1>8 DEF y, z

LEMMA NichtsGesendetErhaelt ==
    ASSUME NEW x \in Station
    PROVE  Erhaelt(NichtsGesendet(x), x)
<1> DEFINE n == (x.fehler + 1) % 256
           y == [x EXCEPT !.fehler = n]
           z == [y EXCEPT !.handle = NO_SOCKET_USED]
<1>1. n \in 0 .. 255
  <2>1. x.fehler \in 0 .. 255 BY DEF Station
  <2> HIDE DEF y, z
  <2> QED BY <2>1, UmlaufTyp
<1>2. NichtsGesendet(x) \in {y, z, OhneVerbindung(OhnePuffer(z))} BY DEF NichtsGesendet
<1> HIDE DEF n
<1>3. /\ y \in Station /\ y.modus = x.modus /\ y.mode = x.mode /\ y.ip = x.ip
      /\ y.handle = x.handle /\ y.in = x.in /\ y.out = x.out /\ y.druck = x.druck
      /\ y.ascii = x.ascii /\ y.tipp = x.tipp /\ y.geraet = x.geraet
  BY <1>1 DEF Station
<1> HIDE DEF y
<1>4. /\ z \in Station /\ z.modus = y.modus /\ z.mode = y.mode /\ z.ip = y.ip
      /\ z.handle = NO_SOCKET_USED /\ z.in = y.in /\ z.out = y.out /\ z.druck = y.druck
      /\ z.ascii = y.ascii /\ z.tipp = y.tipp /\ z.geraet = y.geraet
  BY <1>3 DEF Station
<1> HIDE DEF z
<1>5. Erhaelt(y, x) BY <1>3, GesendetErhaelt
<1>6. Erhaelt(z, y) BY <1>3, <1>4, HandleErhaelt
<1>7. Erhaelt(z, x) BY <1>5, <1>6, ErhaeltTransitiv
<1>8. Erhaelt(OhneVerbindung(OhnePuffer(z)), z) BY <1>4, GetrenntErhaelt
<1> QED BY <1>2, <1>5, <1>7, <1>8, ErhaeltTransitiv

LEMMA SendenOderWartenErhaelt ==
    ASSUME NEW x \in Station, NEW t \in Tabelle, SendenOderWarten(x, t)
    PROVE  Erhaelt(itx', x) /\ RxBleibt(tcp', t)
<1>1. CASE itx' = x /\ tcp' = t BY <1>1, ErhaeltSelbst DEF RxBleibt
<1>2. CASE Senden1(x, t)
  <2>1. CASE tcp' = t /\ (itx' = AllesGesendet(x) \/ (Len(x.out) > 1 /\ itx' = TeilGesendet(x)))
    BY <2>1, AllesTeilGesendetErhaelt DEF RxBleibt
  <2>2. CASE tcp' = CloseTCPSocket(t, x.handle) /\ itx' = NichtsGesendet(x)
    BY <2>2, NichtsGesendetErhaelt, RxSchliessen
  <2> QED BY <1>2, <2>1, <2>2 DEF Senden1
<1> QED BY <1>1, <1>2 DEF SendenOderWarten

LEMMA SendenBewahrt ==
    ASSUME IInv, Senden
    PROVE  Bewahrt
<1>1. itx \in Station /\ tcp \in Tabelle BY DEF IInv, NetzOK
<1>2. PICK x \in {itx, MitLebenszeichen(itx)} :
        Gesendet(x) \/ WiederaufbauSpaeter(x) \/ WiederaufbauMisslungen(x) \/ Wiederaufbau(x)
  BY DEF Senden
<1>3. Erhaelt(x, itx) /\ x \in Station
  <2>1. Erhaelt(InSocketOutBuf(itx), itx) BY <1>1, InSocketOutBufErhaelt
  <2> QED BY <1>1, <2>1, ErhaeltSelbst DEF MitLebenszeichen, Erhaelt
<1>4. CASE Gesendet(x)
  <2>1. Erhaelt(itx', x) /\ RxBleibt(tcp', tcp)
    BY <1>1, <1>3, <1>4, SendenOderWartenErhaelt DEF Gesendet
  <2> QED BY <1>3, <2>1, ErhaeltTransitiv, BewahrtRegel
<1>5. CASE WiederaufbauSpaeter(x) \/ WiederaufbauMisslungen(x)
  <2>1. tcp' = tcp /\ itx' = x BY <1>5 DEF WiederaufbauSpaeter, WiederaufbauMisslungen
  <2> QED BY <1>3, <2>1, NurStation
<1>6. CASE Wiederaufbau(x)
  <2>1. PICK s \in Slots :
          SendenOderWarten([x EXCEPT !.handle = s],
                           [tcp EXCEPT ![s] = NeuerSocket("Ready", x.ip)])
    BY <1>6 DEF Wiederaufbau
  <2> DEFINE y == [x EXCEPT !.handle = s]
             t == [tcp EXCEPT ![s] = NeuerSocket("Ready", x.ip)]
  <2>2. /\ y \in Station /\ y.modus = x.modus /\ y.mode = x.mode /\ y.ip = x.ip
        /\ y.handle = s /\ y.in = x.in /\ y.out = x.out /\ y.druck = x.druck
        /\ y.ascii = x.ascii /\ y.tipp = x.tipp /\ y.geraet = x.geraet
    BY <1>3 DEF Station
  <2>3. x.mode = itx.mode /\ x.ip = itx.ip
    BY <1>1, <1>2, MitLebenszeichenTyp DEF Gleichwertig, GleicheVerbindung
  <2>4. x.ip \in Gegenstellen
    BY <1>6, <2>3 DEF Wiederaufbau, WiederaufbauNoetig, IInv, Haelt
  <2>5. t \in Tabelle BY <1>1, <2>4, NeuerSocketTyp DEF SocketStates
  <2>6. TabellePasst(itx, tcp) => TabellePasst(y, t)
    BY <1>1, <2>2, <2>4, NeuerEintragOhneText
  <2> HIDE DEF y, t
  <2>7. Erhaelt(itx', y) /\ RxBleibt(tcp', t)
    BY <2>1, <2>2, <2>5, SendenOderWartenErhaelt DEF y, t
  <2>8. Abgeschaltet(x) => Abgeschaltet(y) BY <2>2 DEF Abgeschaltet
  <2>9. Ordentlich(x) => Ordentlich(y) BY <2>2 DEF Ordentlich, Passende
  <2>10. TabellePasst(y, t) => TabellePasst(itx', tcp') BY <2>2, <2>7, TabelleBleibt
  <2> QED BY <1>3, <2>6, <2>7, <2>8, <2>9, <2>10 DEF Bewahrt, Erhaelt
<1> QED BY <1>2, <1>4, <1>5, <1>6

LEMMA AbbruchBewahrt ==
    ASSUME IInv, Abbruch
    PROVE  Bewahrt
<1> DEFINE a == Aufgegeben(itx)
           b == [a EXCEPT !.blind = NO_SOCKET_USED]
<1>1. itx \in Station /\ tcp \in Tabelle BY DEF IInv, NetzOK
<1>2. itx' \in {a, b} /\ (tcp' = tcp \/ tcp' = CloseTCPSocket(tcp, itx.blind))
  BY DEF Abbruch, BlindBleibt, BlindEnde, netz
<1>3. RxBleibt(tcp', tcp) BY <1>1, <1>2, RxSchliessen DEF RxBleibt
<1>4. Erhaelt(a, itx) /\ a \in Station
  BY <1>1, GetrenntErhaelt, ErhaeltSelbst DEF Aufgegeben, Erhaelt
<1> HIDE DEF a
<1>5. /\ b \in Station /\ b.modus = a.modus /\ b.mode = a.mode /\ b.ip = a.ip
      /\ b.handle = a.handle /\ b.in = a.in /\ b.out = a.out /\ b.druck = a.druck
      /\ b.ascii = a.ascii /\ b.tipp = a.tipp /\ b.geraet = a.geraet
  BY <1>4 DEF Station
<1> HIDE DEF b
<1>6. Erhaelt(b, a) BY <1>4, <1>5, WenigerErhaelt
<1>7. Erhaelt(itx', itx) BY <1>2, <1>4, <1>6, ErhaeltTransitiv
<1> QED BY <1>3, <1>7, BewahrtRegel

LEMMA AuswertenBewahrt ==
    ASSUME IInv, Auswerten
    PROVE  Bewahrt
<1> DEFINE a == [itx EXCEPT !.in = << >>]
           b == [a EXCEPT !.abbau = TRUE]
           f == ModusWechsel(b, "WarteGrundstellung")
<1>1. itx \in Station BY DEF IInv
<1>2. FremdeVerworfen(itx) = f BY DEF FremdeVerworfen
<1>3. tcp' = tcp BY DEF Auswerten, netz
<1>4. PICK x \in {itx, f} : /\ itx' = x \/ itx' = InterneVerbindungBeenden(x, FALSE)
                            /\ x = itx \/ itx.modus = "KommendVerbVorstufe"
  BY <1>2 DEF Auswerten, Fremdprogramm
<1>5. a \in Station BY <1>1, InTyp, LeerTyp DEF Gleichwertig, GleicheVerbindung
<1>6. /\ a.modus = itx.modus /\ a.mode = itx.mode /\ a.ip = itx.ip /\ a.handle = itx.handle
      /\ a.in = << >> /\ a.out = itx.out /\ a.druck = itx.druck /\ a.ascii = itx.ascii
      /\ a.tipp = itx.tipp /\ a.geraet = itx.geraet
  BY <1>1 DEF Station
<1> HIDE DEF a
<1>7. Erhaelt(a, itx) BY <1>1, <1>5, <1>6, WenigerErhaelt
<1>8. Erhaelt(b, a) /\ b.modus = itx.modus /\ b \in Station
  <2>1. Erhaelt(b, a) BY <1>5, AbbauErhaelt
  <2>2. b.modus = itx.modus BY <1>5, <1>6 DEF Station
  <2> QED BY <2>1, <2>2 DEF Erhaelt
<1> HIDE DEF b
<1>9. itx.modus = "KommendVerbVorstufe" => Erhaelt(f, b)
  BY <1>8, WechselErhaelt DEF TModus, AusModi
<1> HIDE DEF f
<1>10. Erhaelt(x, itx)
  BY <1>1, <1>4, <1>7, <1>8, <1>9, ErhaeltSelbst, ErhaeltTransitiv
<1>11. x \in Station BY <1>10 DEF Erhaelt
<1>12. Erhaelt(InterneVerbindungBeenden(x, FALSE), x) BY <1>11, InterneErhaelt
<1>13. Erhaelt(InterneVerbindungBeenden(x, FALSE), itx) BY <1>10, <1>12, ErhaeltTransitiv
<1>14. Erhaelt(itx', itx) BY <1>4, <1>10, <1>13
<1> QED BY <1>3, <1>14, NurStation

LEMMA DekodierenBewahrt ==
    ASSUME IInv, Dekodieren
    PROVE  Bewahrt
<1>1. PICK z \in Wirkung(itx, itx.in[1].art) : Dekodiert(z) BY DEF Dekodieren
<1>2. tcp' = tcp /\ itx' = z /\ pc = "Dekodieren" BY <1>1 DEF Dekodiert, Weiter, netz
<1>3. itx \in Station /\ itx.mode # "Idle" /\ itx.modus # "GehendReserv"
  BY <1>2 DEF IInv, Haelt, Ruhend
<1>4. Erhaelt(z, itx) BY <1>1, <1>3, WirkungErhaelt DEF Dekodieren
<1> QED BY <1>2, <1>4, NurStation

LEMMA DekodierenEndeBewahrt ==
    ASSUME IInv, DekodierenEnde
    PROVE  Bewahrt
<1> DEFINE p == IF itx.in[1].art = "Kopf" THEN "iTelex" ELSE "Ascii"
           y == [itx EXCEPT !.prot = p]
<1>1. itx \in Station BY DEF IInv
<1>2. tcp' = tcp /\ itx' \in {itx, y} BY DEF DekodierenEnde, netz
<1>3. p \in Protokolle BY DEF Protokolle
<1> HIDE DEF p
<1>4. Gleichwertig(y, itx) BY <1>1, <1>3, ProtTyp
<1>5. y.geraet = itx.geraet /\ y.in = itx.in /\ y.out = itx.out
      /\ y.ascii = itx.ascii /\ y.tipp = itx.tipp
  BY <1>1 DEF Station
<1> HIDE DEF y
<1>6. Erhaelt(y, itx) BY <1>1, <1>4, <1>5, NebenfeldErhaelt
<1> QED BY <1>1, <1>2, <1>6, ErhaeltSelbst, NurStation

(* What was typed during the call goes out to its partner. *)
LEMMA TippenGesendetErhaelt ==
    ASSUME NEW x \in Station
    PROVE  Erhaelt(TippenGesendet(x), x)
<1> DEFINE o == Append(x.out, x.tipp[1])
           t == Tail(x.tipp)
           y == [x EXCEPT !.out = o, !.tipp = t]
<1>1. CASE TippenGesendet(x) = x BY <1>1, ErhaeltSelbst
<1>2. CASE x.tipp # << >> /\ TippenGesendet(x) = y
  <2>1. x.tipp \in Seq(Partner) /\ x.out \in Seq(Partner) BY PufferTyp
  <2>2. Inhalt(t) \subseteq Inhalt(x.tipp) /\ x.tipp[1] \in Inhalt(x.tipp)
    BY <1>2, <2>1, InhaltRest
  <2>3. x.tipp[1] \in Partner
    <3>1. 1 \in 1 .. Len(x.tipp) BY <1>2, <2>1
    <3> QED BY <2>1, <3>1
  <2>4. o \in Seq(Partner) /\ Inhalt(o) = Inhalt(x.out) \cup {x.tipp[1]}
    BY <2>1, <2>3, InhaltAnhang
  <2>5. y \in Station BY <1>2, TippenGesendetTyp DEF Gleichwertig, GleicheVerbindung
  <2> HIDE DEF o, t
  <2>6. /\ y.modus = x.modus /\ y.mode = x.mode /\ y.ip = x.ip /\ y.handle = x.handle
        /\ y.in = x.in /\ y.out = o /\ y.druck = x.druck
        /\ y.ascii = x.ascii /\ y.tipp = t /\ y.geraet = x.geraet
    BY DEF Station
  <2> HIDE DEF y
  <2>7. Passende(x) => Passende(y) BY <2>2, <2>4, <2>6 DEF Passende
  <2>8. Ordentlich(x) => x.modus \notin Waehlend BY <1>2 DEF Ordentlich
  <2>9. Erhaelt(y, x) BY <2>5, <2>6, <2>7, <2>8, PufferRegel
  <2> QED BY <1>2, <2>9
<1> QED BY <1>1, <1>2 DEF TippenGesendet

LEMMA WeiterleitenBewahrt ==
    ASSUME IInv, Weiterleiten
    PROVE  Bewahrt
<1> DEFINE t == TippenGesendet(itx)
<1>1. itx \in Station BY DEF IInv
<1>2. tcp' = tcp /\ itx' \in {itx, t, MitQuittung(itx), MitQuittung(t)}
  BY DEF Weiterleiten, netz
<1>3. Erhaelt(t, itx) /\ t \in Station BY <1>1, TippenGesendetErhaelt DEF Erhaelt
<1>4. \A x \in Station : Erhaelt(MitQuittung(x), x)
  BY InSocketOutBufErhaelt, ErhaeltSelbst DEF MitQuittung
<1> HIDE DEF t
<1>5. Erhaelt(MitQuittung(t), itx) BY <1>3, <1>4, ErhaeltTransitiv
<1> QED BY <1>1, <1>2, <1>3, <1>4, <1>5, ErhaeltSelbst, NurStation

LEMMA TerminalStartenBewahrt ==
    ASSUME IInv, TerminalStarten
    PROVE  Bewahrt
<1>1. itx \in Station BY DEF IInv
<1>2. tcp' = tcp BY DEF TerminalStarten, netz
<1>3. \/ itx' = ModusWechsel(EinschaltenGehend(itx), "GehendVerbunden")
      \/ itx.modus = "KommendEinschalten" /\ itx' \in InternAnwaehlen(itx)
      \/ itx' = itx
  BY DEF TerminalStarten
<1>4. Erhaelt(ModusWechsel(EinschaltenGehend(itx), "GehendVerbunden"), itx)
  BY <1>1, EinWechselErhaelt DEF TModus, AusModi
<1>5. itx.modus = "KommendEinschalten" /\ itx' \in InternAnwaehlen(itx) => Erhaelt(itx', itx)
  BY <1>1, InternAnwaehlenErhaelt DEF AusModi
<1> QED BY <1>1, <1>2, <1>3, <1>4, <1>5, ErhaeltSelbst, NurStation

LEMMA WahlBewahrt ==
    ASSUME IInv, Wahl5 \/ Wahl15
    PROVE  Bewahrt
<1> DEFINE y == [itx EXCEPT !.ziel = Niemand]
           w == WahlAbbruchMeldung(itx)
<1>1. itx \in Station /\ itx.ziel \in Partner /\ Niemand \in Partner
  BY DEF IInv, Station, Partner
<1>2. CASE itx' = itx /\ tcp' = tcp BY <1>2, NichtsBewahrt
<1>3. CASE itx.modus = "GehendWaehlen" /\ itx.mode = "Idle" /\ itx.ziel # Niemand
           /\ VerbindungGelingt(y, itx.ziel)
  <2>1. itx.ziel \in Gegenstellen BY <1>1, <1>3 DEF Partner
  <2> QED BY <1>3, <2>1, VerbindungBewahrt
<1>4. CASE itx' = Misslungen(y, itx.ziel) /\ tcp' = tcp
  <2>1. Erhaelt(y, itx) /\ y \in Station BY <1>1, ZielErhaelt DEF Erhaelt
  <2> HIDE DEF y
  <2>2. Erhaelt(itx', y) BY <1>1, <1>4, <2>1, MisslungenErhaelt
  <2> QED BY <1>4, <2>1, <2>2, ErhaeltTransitiv, NurStation
<1>5. CASE itx.modus = "GehendWaehlen" /\ itx' = InterneVerbindungBeenden(w, TRUE) /\ tcp' = tcp
  <2>1. Erhaelt(w, itx) /\ w \in Station BY <1>1, <1>5, MeldungErhaelt DEF Erhaelt
  <2> HIDE DEF w
  <2>2. Erhaelt(itx', w) BY <1>5, <2>1, InterneErhaelt
  <2> QED BY <1>5, <2>1, <2>2, ErhaeltTransitiv, NurStation
<1> QED BY <1>2, <1>3, <1>4, <1>5 DEF Wahl5, Wahl15, netz

(* Ten minutes of silence release the line without a word to the terminal. *)
LEMMA FristenBewahrt ==
    ASSUME IInv, Fristen
    PROVE  Bewahrt
<1> DEFINE i == InterneVerbindungBeenden(itx, TRUE)
           e == ExterneVerbindungBeenden(i)
           f == ModusWechsel(e, "WarteGrundstellung")
<1>1. itx \in Station /\ tcp \in Tabelle BY DEF IInv, NetzOK
<1>2. tcp' = tcp
  BY DEF Fristen, KeineFrist, SchlussFrist, EinschaltFrist, FunkstilleFrist, Frist, netz
<1>3. CASE KeineFrist BY <1>2, <1>3, NichtsBewahrt DEF KeineFrist, Frist
<1>4. CASE SchlussFrist
  <2>1. itx' = ModusWechsel(itx, "WarteGrundstellung") /\ itx.modus \in AusModi
    BY <1>4 DEF SchlussFrist, Frist, AusModi
  <2>2. Erhaelt(itx', itx) BY <1>1, <2>1, WechselErhaelt DEF TModus
  <2> QED BY <1>2, <2>2, NurStation
<1>5. Erhaelt(i, itx) /\ i \in Station BY <1>1, InterneErhaelt DEF Erhaelt
<1>6. CASE EinschaltFrist
  <2>1. itx' = SendeStopkommando(i) BY <1>6 DEF EinschaltFrist, Frist
  <2> HIDE DEF i
  <2>2. Erhaelt(itx', i) BY <1>5, <2>1, SendeStopErhaelt
  <2> QED BY <1>2, <1>5, <2>2, ErhaeltTransitiv, NurStation
<1>7. CASE FunkstilleFrist
  <2>1. Funkstille /\ itx' = f BY <1>7 DEF FunkstilleFrist, Frist
  <2> HIDE DEF i
  <2>2. Erhaelt(e, itx) /\ e \in Station
    BY <1>5, ExterneErhaelt, ErhaeltTransitiv DEF Erhaelt
  <2> HIDE DEF e
  <2>3. /\ f.modus = "WarteGrundstellung" /\ f.handle = e.handle
        /\ Ordentlich(e) => Ordentlich(f)
    BY <2>2, WechselOrdentlich DEF TModus
  <2> HIDE DEF f
  <2>4. Ordentlich(itx) => Ordentlich(f) BY <2>2, <2>3 DEF Erhaelt
  <2>5. TabellePasst(itx, tcp) => TabellePasst(f, tcp) BY <2>3 DEF TabellePasst
  <2> QED BY <1>2, <2>1, <2>4, <2>5 DEF Bewahrt
<1> QED BY <1>3, <1>4, <1>6, <1>7 DEF Fristen

LEMMA TasteBewahrt ==
    ASSUME IInv, Taste
    PROVE  Bewahrt
<1>1. itx \in Station /\ tcp' = tcp BY DEF IInv, Taste, netz
<1>2. CASE itx' = itx BY <1>1, <1>2, NichtsBewahrt
<1>3. CASE Deaktivieren \/ Aktivieren
  <2>1. PICK m \in {"Deaktiviert", "WarteGrundstellung"} :
          itx' = ModusWechsel(itx, m) /\ itx.modus \in AusModi
    BY <1>3 DEF Deaktivieren, Aktivieren, AusModi
  <2>2. Erhaelt(itx', itx) BY <1>1, <2>1, WechselErhaelt DEF TModus
  <2> QED BY <1>1, <2>2, NurStation
<1>4. CASE RestdruckAbbrechen
  <2> DEFINE y == ModusWechsel(SendeBusKdoSchluss(itx), "WarteSchlussQuitt")
             z == [y EXCEPT !.ascii = << >>, !.druck = << >>]
  <2>1. itx' = z BY <1>4 DEF RestdruckAbbrechen
  <2>2. Erhaelt(y, itx) /\ y \in Station
    BY <1>1, AusWechselErhaelt DEF TModus, Erhaelt
  <2> HIDE DEF y
  <2>3. z \in Station BY <2>2, LeerTyp DEF Station
  <2>4. /\ z \in Station /\ z.modus = y.modus /\ z.mode = y.mode /\ z.ip = y.ip
        /\ z.handle = y.handle /\ z.in = y.in /\ z.out = y.out /\ z.druck = << >>
        /\ z.ascii = << >> /\ z.tipp = y.tipp /\ z.geraet = y.geraet
    BY <2>2, <2>3 DEF Station
  <2> HIDE DEF z
  <2>5. Erhaelt(z, y) BY <2>2, <2>4, WenigerErhaelt
  <2> QED BY <1>1, <2>1, <2>2, <2>5, ErhaeltTransitiv, NurStation
<1>5. CASE Meldungsdruck
  <2> DEFINE s == <<Lokal>>
             y == [itx EXCEPT !.ascii = s]
  <2>1. itx.modus = "Ruhe" /\ itx.mode = "Idle"
    BY <1>5 DEF Meldungsdruck, IInv, Haelt, Ruhend
  <2>2. PICK m \in {"MeldungsdruckWarteEinQuitt", "WarteGrundstellung"} :
          \/ m = "MeldungsdruckWarteEinQuitt" /\ itx' = ModusWechsel(Einschalten(y), m)
          \/ m = "WarteGrundstellung" /\ itx' = ModusWechsel(y, m)
    BY <1>5 DEF Meldungsdruck
  <2>3. s \in Bis(Herkunft, MaxPuffer)
    <3>1. s \in Seq(Herkunft) BY DEF Herkunft
    <3>2. Len(s) = 1 OBVIOUS
    <3>3. 1 <= MaxPuffer BY Groessen
    <3> QED BY <3>1, <3>2, <3>3 DEF Bis
  <2> HIDE DEF s
  <2>4. /\ y \in Station /\ y.modus = itx.modus /\ y.mode = itx.mode /\ y.ip = itx.ip
        /\ y.handle = itx.handle /\ y.in = itx.in /\ y.out = itx.out
        /\ y.druck = itx.druck /\ y.tipp = itx.tipp /\ y.geraet = itx.geraet
    BY <1>1, <2>3 DEF Station
  <2> HIDE DEF y
  <2>5. Erhaelt(y, itx) BY <1>1, <2>1, <2>4, PufferRegel DEF Waehlend
  <2>6. CASE m = "MeldungsdruckWarteEinQuitt" /\ itx' = ModusWechsel(Einschalten(y), m)
    <3>1. Erhaelt(itx', y) BY <2>4, <2>6, EinWechselErhaelt DEF TModus, AusModi
    <3> QED BY <1>1, <2>5, <3>1, ErhaeltTransitiv, NurStation
  <2>7. CASE m = "WarteGrundstellung" /\ itx' = ModusWechsel(y, m)
    <3>1. Erhaelt(itx', y) BY <2>1, <2>4, <2>7, WechselErhaelt DEF TModus, AusModi
    <3> QED BY <1>1, <2>5, <3>1, ErhaeltTransitiv, NurStation
  <2> QED BY <2>2, <2>6, <2>7
<1> QED BY <1>2, <1>3, <1>4, <1>5 DEF Taste

(* Text becomes printable. *)
LEMMA DruckbarErhaelt ==
    ASSUME NEW x \in Station
    PROVE  Erhaelt(AsciiDruckPufferVerarbeiten(x), x)
<1> DEFINE y == [x EXCEPT !.druck = x.ascii, !.ascii = << >>]
<1>1. AsciiDruckPufferVerarbeiten(x) \in {x, y} BY DEF AsciiDruckPufferVerarbeiten
<1>2. y \in Station BY LeerTyp DEF Station
<1>3. /\ y \in Station /\ y.modus = x.modus /\ y.mode = x.mode /\ y.ip = x.ip
      /\ y.handle = x.handle /\ y.in = x.in /\ y.out = x.out /\ y.druck = x.ascii
      /\ y.ascii = << >> /\ y.tipp = x.tipp /\ y.geraet = x.geraet
  BY <1>2 DEF Station
<1> HIDE DEF y
<1>4. Passende(x) => Passende(y) BY <1>3, InhaltLeer DEF Passende
<1>5. Ordentlich(x) /\ x.modus \in Waehlend => y.ascii = << >> /\ y.tipp = << >>
  BY <1>3 DEF Ordentlich
<1>6. Erhaelt(y, x) BY <1>3, <1>4, <1>5, PufferRegel
<1> QED BY <1>1, <1>6, ErhaeltSelbst

LEMMA SchlussBewahrt ==
    ASSUME IInv, Schluss
    PROVE  Bewahrt
<1> DEFINE y == AsciiDruckPufferVerarbeiten(itx)
<1>1. itx \in Station /\ tcp' = tcp BY DEF IInv, Schluss, netz
<1>2. \/ itx' = ModusWechsel(SendeBusKdoSchluss(y), "WarteSchlussQuitt")
      \/ y.modus = "WarteGrundstellung" /\ itx' = ModusWechsel(y, "Ruhe")
      \/ itx' = y
  BY DEF Schluss
<1>3. Erhaelt(y, itx) /\ y \in Station BY <1>1, DruckbarErhaelt DEF Erhaelt
<1> HIDE DEF y
<1>4. Erhaelt(ModusWechsel(SendeBusKdoSchluss(y), "WarteSchlussQuitt"), y)
  BY <1>3, AusWechselErhaelt DEF TModus
<1>5. y.modus = "WarteGrundstellung" => Erhaelt(ModusWechsel(y, "Ruhe"), y)
  BY <1>3, WechselErhaelt DEF TModus, AusModi
<1> QED BY <1>1, <1>2, <1>3, <1>4, <1>5, ErhaeltTransitiv, NurStation

(***************************************************************************)
(* The interrupts.                                                         *)
(***************************************************************************)
LEMMA NetzBewahrt ==
    ASSUME IInv, Netz
    PROVE  Bewahrt
<1>1. itx' = itx /\ itx \in Station /\ tcp \in Tabelle BY DEF IInv, NetzOK, Netz
<1>2. PICK s \in Slots :
        \/ \E p \in Gegenstellen : Anruf(s, p)
        \/ \E art \in Telegramme : Daten(s, art)
        \/ FinEmpfangen(s) \/ Zeitueberschreitung(s) \/ SocketFrei(s)
  BY DEF Netz, NetzEreignis
<1>3. Erhaelt(itx', itx) BY <1>1, ErhaeltSelbst
<1>4. Abgeschaltet(itx) => Abgeschaltet(itx') BY <1>3 DEF Erhaelt
<1>5. Ordentlich(itx) => Ordentlich(itx') BY <1>3 DEF Erhaelt
<1>6. CASE \E p \in Gegenstellen : Anruf(s, p)
  <2>1. PICK p \in Gegenstellen : Anruf(s, p) BY <1>6
  <2>2. /\ tcp' = [tcp EXCEPT ![s] = NeuerSocket("Ready2Use", p)]
        /\ Neuvergabe \/ s # itx.handle
    BY <2>1 DEF Anruf, SynEmpfangen
  <2>3. tcp'[s].rx = << >> /\ \A k \in Slots \ {s} : tcp'[k] = tcp[k]
    BY <1>1, <2>2 DEF Tabelle, NeuerSocket
  <2>4. itx.handle \in Slots \cup {NO_SOCKET_USED} BY <1>1 DEF Station
  <2>5. ASSUME TabellePasst(itx, tcp) PROVE TabellePasst(itx, tcp')
    <3>1. \A k \in Slots : \A e \in Inhalt(tcp'[k].rx) : e.von = tcp'[k].peer
      BY <2>3, <2>5, InhaltLeer DEF TabellePasst
    <3>2. itx.modus = "GehendWaehlen" /\ itx.handle # NO_SOCKET_USED
            => OhneText(tcp'[itx.handle].rx)
      BY <2>3, <2>4, <2>5, InhaltLeer DEF TabellePasst, OhneText
    <3> QED BY <3>1, <3>2 DEF TabellePasst
  <2> QED BY <1>1, <1>4, <1>5, <2>5 DEF Bewahrt
<1>7. CASE \E art \in Telegramme : Daten(s, art)
  <2>1. PICK art \in Telegramme : Daten(s, art) BY <1>7
  <2> DEFINE i == [art |-> art, von |-> tcp[s].peer]
             rx == Append(tcp[s].rx, i)
  <2>2. /\ tcp' = [tcp EXCEPT ![s].rx = rx, ![s].offen = (art = "Kopf")]
        /\ tcp[s].st # "NotUse"
        /\ art = "Ascii" /\ s = itx.handle /\ itx.modus = "GehendWaehlen" => TextBeimWaehlen
    BY <2>1 DEF Daten, DatenEmpfangen
  <2>3. i \in Item /\ i.von = tcp[s].peer /\ i.art = art
    BY <1>1, <2>2, TcpAnnahme DEF Item, Tabelle
  <2>4. tcp[s].rx \in Seq(Item) BY <1>1 DEF Tabelle, Socket
  <2> HIDE DEF i
  <2>5. Inhalt(rx) = Inhalt(tcp[s].rx) \cup {i} BY <2>3, <2>4, InhaltAnhang
  <2> HIDE DEF rx
  <2>6. /\ tcp'[s].rx = rx /\ tcp'[s].peer = tcp[s].peer
        /\ \A k \in Slots \ {s} : tcp'[k] = tcp[k]
    BY <1>1, <2>2 DEF Tabelle, Socket
  <2>7. ASSUME ~TextBeimWaehlen, TabellePasst(itx, tcp)
        PROVE  TabellePasst(itx', tcp')
    <3>1. \A k \in Slots : \A e \in Inhalt(tcp'[k].rx) : e.von = tcp'[k].peer
      BY <2>3, <2>5, <2>6, <2>7 DEF TabellePasst
    <3>2. itx.modus = "GehendWaehlen" /\ itx.handle # NO_SOCKET_USED
            => OhneText(tcp'[itx.handle].rx)
      <4> SUFFICES ASSUME itx.modus = "GehendWaehlen", itx.handle # NO_SOCKET_USED
                   PROVE  OhneText(tcp'[itx.handle].rx)
        OBVIOUS
      <4>1. itx.handle \in Slots /\ OhneText(tcp[itx.handle].rx)
        BY <1>1, <2>7 DEF TabellePasst, Station
      <4>2. CASE itx.handle = s
        BY <2>2, <2>3, <2>5, <2>6, <2>7, <4>1, <4>2 DEF OhneText
      <4>3. CASE itx.handle # s BY <2>6, <4>1, <4>3
      <4> QED BY <4>2, <4>3
    <3> QED BY <1>1, <3>1, <3>2 DEF TabellePasst
  <2> QED BY <1>4, <1>5, <2>7 DEF Bewahrt
<1>8. CASE FinEmpfangen(s) \/ Zeitueberschreitung(s) \/ SocketFrei(s)
  <2>1. PICK z \in SocketStates : tcp' = [tcp EXCEPT ![s].st = z]
    BY <1>8 DEF FinEmpfangen, Zeitueberschreitung, SocketFrei, SocketStates
  <2>2. \A k \in Slots : tcp'[k].peer = tcp[k].peer /\ tcp'[k].rx = tcp[k].rx
    BY <1>1, <2>1 DEF Tabelle, Socket
  <2>3. RxBleibt(tcp', tcp) BY <2>2 DEF RxBleibt
  <2> QED BY <1>3, <2>3, BewahrtRegel
<1> QED BY <1>2, <1>6, <1>7, <1>8

LEMMA UhrBewahrt ==
    ASSUME IInv, Drucken \/ Tippen \/ AbbruchZeit
    PROVE  Bewahrt
<1>1. itx \in Station /\ tcp' = tcp BY DEF IInv, Drucken, Tippen, AbbruchZeit, netz
<1>2. itx' \in Station
  <2>1. [Next]_vars BY DEF Next
  <2> QED BY <2>1, JederSchritt DEF Schritt, IInv
<1>3. CASE Drucken
  <2> DEFINE d == Tail(itx.druck)
  <2>1. itx' = [itx EXCEPT !.druck = d] /\ itx.druck # << >> BY <1>3 DEF Drucken
  <2>2. itx.druck \in Seq(Herkunft) BY <1>1, PufferTyp
  <2>3. Inhalt(d) \subseteq Inhalt(itx.druck) BY <2>1, <2>2, InhaltRest
  <2> HIDE DEF d
  <2>4. /\ itx'.modus = itx.modus /\ itx'.mode = itx.mode /\ itx'.ip = itx.ip
        /\ itx'.handle = itx.handle /\ itx'.in = itx.in /\ itx'.out = itx.out
        /\ itx'.druck = d /\ itx'.ascii = itx.ascii /\ itx'.tipp = itx.tipp
        /\ itx'.geraet = itx.geraet
    BY <1>1, <2>1 DEF Station
  <2>5. Passende(itx) => Passende(itx') BY <2>3, <2>4 DEF Passende
  <2>6. Ordentlich(itx) /\ itx.modus \in Waehlend => itx'.ascii = << >> /\ itx'.tipp = << >>
    BY <2>4 DEF Ordentlich
  <2>7. Erhaelt(itx', itx) BY <1>1, <1>2, <2>4, <2>5, <2>6, PufferRegel
  <2> QED BY <1>1, <2>7, NurStation
<1>4. CASE Tippen
  <2> DEFINE t == Append(itx.tipp, itx.ip)
  <2>1. itx' = [itx EXCEPT !.tipp = t] /\ itx.modus \notin Waehlend
    BY <1>1, <1>4 DEF Tippen, Seriell, Fernschreibend, Waehlend, Station
  <2>2. itx.tipp \in Seq(Partner) /\ itx.ip \in Partner BY <1>1, PufferTyp DEF Station
  <2>3. Inhalt(t) = Inhalt(itx.tipp) \cup {itx.ip} BY <2>2, InhaltAnhang
  <2> HIDE DEF t
  <2>4. /\ itx'.modus = itx.modus /\ itx'.mode = itx.mode /\ itx'.ip = itx.ip
        /\ itx'.handle = itx.handle /\ itx'.in = itx.in /\ itx'.out = itx.out
        /\ itx'.druck = itx.druck /\ itx'.ascii = itx.ascii /\ itx'.tipp = t
        /\ itx'.geraet = itx.geraet
    BY <1>1, <2>1 DEF Station
  <2>5. Passende(itx) => Passende(itx') BY <2>3, <2>4 DEF Passende
  <2>6. Erhaelt(itx', itx) BY <1>1, <1>2, <2>1, <2>4, <2>5, PufferRegel
  <2> QED BY <1>1, <2>6, NurStation
<1>5. CASE AbbruchZeit
  <2>1. itx' = [itx EXCEPT !.abbruchUm = TRUE] BY <1>5 DEF AbbruchZeit
  <2>2. /\ itx'.modus = itx.modus /\ itx'.mode = itx.mode /\ itx'.ip = itx.ip
        /\ itx'.handle = itx.handle /\ itx'.in = itx.in /\ itx'.out = itx.out
        /\ itx'.druck = itx.druck /\ itx'.ascii = itx.ascii /\ itx'.tipp = itx.tipp
        /\ itx'.geraet = itx.geraet
    BY <1>1, <2>1 DEF Station
  <2>3. Erhaelt(itx', itx) BY <1>1, <1>2, <2>2, WenigerErhaelt
  <2> QED BY <1>1, <2>3, NurStation
<1> QED BY <1>3, <1>4, <1>5

(***************************************************************************)
(* The theorems.                                                           *)
(***************************************************************************)
LEMMA JederSchrittBewahrt == IInv /\ [Next]_vars => Bewahrt
<1> SUFFICES ASSUME IInv, [Next]_vars PROVE Bewahrt
  OBVIOUS
<1>1. CASE UNCHANGED vars BY <1>1, NichtsBewahrt DEF vars
<1>2. CASE Thread
  <2>1. CASE KeineTrennung BY <2>1, NichtsBewahrt DEF KeineTrennung, netz
  <2> QED
    BY <1>2, <2>1, TwiBewahrt, WaechterBewahrt, PortBewahrt, TrennungBewahrt,
       EmpfangBewahrt, SendenBewahrt, AbbruchBewahrt, AuswertenBewahrt, DekodierenBewahrt,
       DekodierenEndeBewahrt, WeiterleitenBewahrt, TerminalStartenBewahrt, WahlBewahrt,
       FristenBewahrt, TasteBewahrt, SchlussBewahrt
    DEF Thread
<1>3. CASE Netz BY <1>3, NetzBewahrt
<1>4. CASE Drucken \/ Tippen \/ AbbruchZeit BY <1>4, UhrBewahrt
<1> QED BY <1>1, <1>2, <1>3, <1>4 DEF Next

LEMMA AnfangOrdentlich == Init => Abgeschaltet(itx) /\ Ordentlich(itx) /\ TabellePasst(itx, tcp)
<1> SUFFICES ASSUME Init
             PROVE  Abgeschaltet(itx) /\ Ordentlich(itx) /\ TabellePasst(itx, tcp)
  OBVIOUS
<1>1. Abgeschaltet(itx) /\ Ordentlich(itx)
  BY DEF Init, Abgeschaltet, Ordentlich, Waehlend
<1>2. \A s \in Slots : tcp[s].rx = << >> BY DEF Init, TcpInit, LeererSocket
<1>3. TabellePasst(itx, tcp) BY <1>2, InhaltLeer DEF TabellePasst, Init
<1> QED BY <1>1, <1>3

(* At rest, switched off or being switched off, the line has no terminal   *)
(* that runs: whoever ends the call or its start, the partner, the user,   *)
(* a timer or the watchdog, has told the terminal, or it was never         *)
(* started.  The path of the ten minute timer is the one exception.        *)
THEOREM GeraetAusGilt == ~Funkstille /\ Spec => []GeraetAus
<1>1. Abgeschaltet(itx) => GeraetAus BY DEF Abgeschaltet, AusModi, GeraetAus
<1>2. CASE Funkstille BY <1>2
<1>3. CASE ~Funkstille
  <2>1. IInv /\ Abgeschaltet(itx) /\ [Next]_vars => Abgeschaltet(itx)'
    BY <1>3, JederSchrittBewahrt DEF Bewahrt
  <2> QED BY <1>1, <2>1, AnfangOrdentlich, InvarianteGilt, PTL DEF Spec
<1> QED BY <1>2, <1>3

(* What waits to be evaluated, printed or sent during a call came from its *)
(* partner or the station, or is meant for it: however calls follow one    *)
(* another, none of the six buffers carries anything over.                 *)
THEOREM NurDieserAnrufGilt == ~Neuvergabe /\ ~TextBeimWaehlen /\ Spec => []NurDieserAnruf
<1> DEFINE J == Ordentlich(itx) /\ TabellePasst(itx, tcp)
<1>1. J => NurDieserAnruf BY DEF Ordentlich, Passende, NurDieserAnruf
<1>2. CASE Neuvergabe \/ TextBeimWaehlen BY <1>2
<1>3. CASE ~Neuvergabe /\ ~TextBeimWaehlen
  <2>1. IInv /\ J /\ [Next]_vars => J' BY <1>3, JederSchrittBewahrt DEF Bewahrt
  <2>2. Init => J BY AnfangOrdentlich
  <2> HIDE DEF J
  <2> QED BY <1>1, <2>1, <2>2, InvarianteGilt, PTL DEF Spec
<1> QED BY <1>2, <1>3
=============================================================================
