-------------------------- MODULE TlnServerProofs --------------------------
(***************************************************************************)
(* Theorems about TlnServer: the types; entries are replaced by newer ones *)
(* only; no change is forgotten.                                           *)
(*                                                                         *)
(* The invariant is stated of the values K (kanal), B (buch), Z            *)
(* (stichzeit), L (letzte), N (neustarts) and z (zeit), so that it can be  *)
(* followed through the parts of a step: an entry is stored, a channel     *)
(* reads its telegram, answers it or is closed.                            *)
(***************************************************************************)
EXTENDS TlnServer, WellFoundedInduction, NaturalsInduction, SequenceTheorems,
        TLAPS

(* The telegrams a channel has still to read. *)
Post(c) == {c.ein[i] : i \in 1 .. Len(c.ein)}

(***************************************************************************)
(* Entries and telegrams are true: whoever made an entry has it, or a      *)
(* newer one, and so has the server that sent it; unless it was restarted. *)
(***************************************************************************)
Echt(n, e, B, N) ==
    /\ e.von \in Server /\ e.datum > 0
    /\ B[e.von][n].datum >= e.datum \/ N[e.von] > 0

BuchGut(B, N, z) ==
    \A s \in Server, n \in Nummer :
        B[s][n].datum > 0 => B[s][n].datum <= z /\ Echt(n, B[s][n], B, N)

Belegtes(t, p, B, N, z) ==
    t.art = "Auskunft" =>
        /\ t.eintrag.datum <= z /\ Echt(t.nr, t.eintrag, B, N)
        /\ B[p][t.nr].datum >= t.eintrag.datum \/ N[p] > 0

(***************************************************************************)
(* One channel: who may send what.  A channel with stichdatum > 0 reports  *)
(* changes.                                                                *)
(***************************************************************************)
Geheimnis(t) == t.art \in {"Anmeldung", "Vollabfrage"} /\ t.geheim = "richtig"

FremdGut(c) == c.partner = Keiner => c.ende \in {"Fremd", "zu"} /\ ~c.freigabe /\ \A t \in Post(c) : ~Geheimnis(t)

ServerGut(s, c, B, N, z) ==
    c.partner # Keiner => /\ c.partner # s /\ c.ende # "Fremd"
                          /\ \A t \in Post(c) : Belegtes(t, c.partner, B, N, z)

WartetGut(k, c) ==
    c.ende = "wartend" => /\ k = 0 /\ c.partner # Keiner /\ c.ein = << >> /\ Len(c.aus) <= 1
                          /\ \A i \in 1 .. Len(c.aus) : Geheimnis(c.aus[i])

MelderGut(k, c) ==
    c.stichdatum > 0 => /\ k = 0 /\ c.partner # Keiner /\ c.gestartet /\ ~c.vollabfrage
                        /\ \A t \in Post(c) : t.art \in {"Quittung", "Fehler"}
                        /\ c.ende = "wartend" => \A i \in 1 .. Len(c.aus) : c.aus[i].art = "Anmeldung"

KanalGut(s, k, c, B, N, z) ==
    /\ Len(c.ein) <= 1
    /\ IF c.offen THEN FremdGut(c) ELSE c.ende = "zu" /\ c.stichdatum = 0 /\ c.partner = Keiner
    /\ ServerGut(s, c, B, N, z) /\ WartetGut(k, c) /\ MelderGut(k, c)

(* The two ends of a connection: at most one telegram is on the way.  The  *)
(* end that is told of changes only confirms.                              *)
PaarGut(s, k, c, g) ==
    /\ g.ende = "Kanal" /\ g.partner = s /\ g.gegen = k
    /\ Len(c.ein) + Len(g.ein) <= 1
    /\ c.stichdatum > 0 => /\ ~g.gestartet /\ ~g.vollabfrage /\ g.stichdatum = 0
                           /\ \A t \in Post(g) : t.art \in {"Anmeldung", "Auskunft", "Ende"}

NetzGut(K, B, N, z) ==
    /\ BuchGut(B, N, z)
    /\ \A s \in Server, k \in Kanaele :
          /\ KanalGut(s, k, K[s][k], B, N, z)
          /\ K[s][k].ende = "Kanal" =>
                /\ K[s][k].partner # Keiner
                /\ PaarGut(s, k, K[s][k], K[K[s][k].partner][K[s][k].gegen])

(***************************************************************************)
(* Reports.                                                                *)
(***************************************************************************)
(* t has what s has for n, or it will be told (again).                     *)
Gemeldet(s, t, n, B, Z) == B[t][n].datum >= B[s][n].datum \/ Z[s][t] <= B[s][n].datum

ZeitGut(B, L, N) ==
    \A s \in Server, n \in Nummer : N[s] = 0 /\ <<s, n>> \notin Lokale => L[s] >= B[s][n].datum

(* What channel c of s has not delivered is still in its listing, or in    *)
(* the telegram q on its way; there is something to say of this only while *)
(* the dialogue goes on.                                                   *)
Uebrig(s, c, n, B, Z) == n \in c.rest \/ Gemeldet(s, c.partner, n, B, Z)

DialogGut(s, c, g, n, B, Z) ==
    /\ c.fertig => Gemeldet(s, c.partner, n, B, Z)
    /\ c.ende = "wartend" \/ (\E t \in Post(c) : t.art = "Quittung") => Uebrig(s, c, n, B, Z)
    /\ c.ende = "Kanal" => \A q \in Post(g) :
          /\ q.art = "Anmeldung" => Uebrig(s, c, n, B, Z)
          /\ q.art = "Auskunft" => \/ Uebrig(s, c, n, B, Z)
                                   \/ q.nr = n /\ q.eintrag.datum >= B[s][n].datum

Zustaendig(s, c, n, B, N) ==
    /\ c.offen /\ c.stichdatum > 0 /\ N[s] = 0 /\ N[c.partner] = 0
    /\ Gemeinsam(s, c.partner, n) /\ B[s][n].datum >= c.stichdatum

SyncGut(s, K, B, Z, N) ==
    \A n \in Nummer : Zustaendig(s, K[s][0], n, B, N) =>
        DialogGut(s, K[s][0], K[K[s][0].partner][K[s][0].gegen], n, B, Z)

Laeuft(s, t, n, K, B) ==
    /\ K[s][0].offen /\ K[s][0].partner = t /\ ~K[s][0].fertig
    /\ K[s][0].stichdatum > 0 /\ K[s][0].stichdatum <= B[s][n].datum

MeldungGut(K, B, Z, L, N) ==
    /\ ZeitGut(B, L, N)
    /\ \A s \in Server : SyncGut(s, K, B, Z, N)
    /\ \A s, t \in Server, n \in Nummer :
          Gemeinsam(s, t, n) /\ N[s] = 0 /\ N[t] = 0 => Gemeldet(s, t, n, B, Z) \/ Laeuft(s, t, n, K, B)

(***************************************************************************)
(* The invariant.  Of the reports nothing is said where a listing may lose *)
(* its last entry.                                                         *)
(***************************************************************************)
Netze == [Server -> [Kanaele -> Kanal]]
Buecher == [Server -> [Nummer -> Eintrag]]
Zeilen == [Server -> 1 .. MaxZeit + 1]
Werte(K, B, Z, L, N, z) ==
    /\ K \in Netze /\ B \in Buecher /\ Z \in [Server -> Zeilen] /\ L \in [Server -> 0 .. MaxZeit]
    /\ N \in [Server -> 0 .. MaxNeustarts] /\ z \in 1 .. MaxZeit

(* What is listed is there. *)
RestGut(K, B) ==
    \A s \in Server, k \in Kanaele : \A n \in K[s][k].rest : B[s][n].datum > 0

Gut(K, B, Z, L, N, z) ==
    /\ Werte(K, B, Z, L, N, z) /\ NetzGut(K, B, N, z) /\ RestGut(K, B)
    /\ Verkuerzt \/ MeldungGut(K, B, Z, L, N)

UmgebungTyp ==
    /\ {vollErfolg, vollFaellig} \subseteq [Server -> BOOLEAN]
    /\ aenderungen \in 0 .. MaxAenderungen /\ stoerungen \in 0 .. MaxStoerungen
    /\ fremde \in 0 .. MaxFremd

TlnInv == Gut(kanal, buch, stichzeit, letzte, neustarts, zeit) /\ UmgebungTyp

LEMMA InvIstTyp == TlnInv => TlnTyp
BY DEF TlnInv, Gut, Werte, UmgebungTyp, TlnTyp, Netze, Buecher, Zeilen

(***************************************************************************)
(* Numbers, telegrams and channels.                                        *)
(***************************************************************************)
LEMMA Groessen ==
    /\ MaxZeit \in Nat /\ MaxNeustarts \in Nat /\ MaxStoerungen \in Nat /\ MaxAenderungen \in Nat
    /\ MaxFremd \in Nat /\ AnzTlnServKanaele \in Nat \ {0, 1} /\ Keiner \notin Server
    /\ 0 \in Kanaele /\ 1 \in Kanaele /\ Kanaele \subseteq Nat /\ Lokale \subseteq Server \X Nummer
BY TlnServerAnnahme DEF Kanaele

(* A set of numbers that is not empty has a least one. *)
LEMMA Kleinste ==
    ASSUME NEW T, T \subseteq Nat, T # {}
    PROVE  \E x \in T : \A y \in T : x <= y
<1> DEFINE R == {p \in Nat \X Nat : p[1] < p[2]}
<1>1. IsWellFoundedOn(R, Nat) BY NatLessThanWellFounded DEF OpToRel
<1>2. PICK x \in T : \A y \in T : ~(<<y, x>> \in R) BY <1>1, WFMin
<1>3. \A y \in T : ~(y < x) BY <1>2
<1> QED BY <1>3

(* One that is bounded has a greatest. *)
LEMMA Groesste ==
    ASSUME NEW m \in Nat, NEW T, T \subseteq 0 .. m, T # {}
    PROVE  \E x \in T : \A y \in T : y <= x
<1> DEFINE U == {m - x : x \in T}
<1>1. U \subseteq Nat OBVIOUS
<1>5. U # {} OBVIOUS
<1> HIDE DEF U
<1>2. PICK u \in U : \A v \in U : u <= v BY <1>1, <1>5, Kleinste
<1> USE DEF U
<1>3. PICK x \in T : u = m - x OBVIOUS
<1>4. ASSUME NEW y \in T PROVE y <= x
  <2>1. m - y \in U OBVIOUS
  <2> QED BY <1>2, <1>3, <2>1
<1> QED BY <1>4

(* A telegram is of one kind. *)
LEMMA TelegrammArt ==
    ASSUME NEW t \in Telegramm
    PROVE  /\ t.art = "Auskunft" => t \in Auskunft
           /\ t.art \in {"Anmeldung", "Vollabfrage"} => t \in Anmeldungen
           /\ t.art = "Selbstakt" => t \in Selbstakt
           /\ t.art = "Abfrage" => t \in Abfragen
BY DEF Telegramm, Auskunft, Anmeldungen, Selbstakt, Abfragen, Einfache

LEMMA EinfachTyp ==
    ASSUME NEW a \in {"Suche", "Quittung", "Ende", "Fehler", "Rueckmeldung", "NichtVergeben"}
    PROVE  Einfach(a) \in Telegramm /\ Einfach(a).art = a
BY DEF Einfach, Telegramm, Einfache

(* Nothing, or one telegram to read. *)
LEMMA PostLeer ==
    ASSUME NEW c, c.ein = << >>
    PROVE  Post(c) = {}
BY DEF Post

LEMMA PostEins ==
    ASSUME NEW c, NEW t, c.ein = << t >>
    PROVE  Post(c) = {t}
BY DEF Post

LEMMA EinsFolge ==
    ASSUME NEW S, NEW q \in Seq(S), q # << >>, Len(q) <= 1
    PROVE  Len(q) = 1 /\ Head(q) \in S /\ q = << Head(q) >> /\ Tail(q) = << >>
<1>1. Len(q) = 1
  <2>1. Len(q) \in Nat /\ DOMAIN q = 1 .. Len(q) OBVIOUS
  <2>2. CASE Len(q) = 0
    <3>1. q = << >> BY <2>2, EmptySeq
    <3> QED BY <3>1
  <2> QED BY <2>1, <2>2
<1>2. q[1] \in S /\ Head(q) = q[1] BY <1>1
<1>3. << Head(q) >> = q BY <1>1, <1>2
<1>4. Tail(q) = << >>
  <2>1. Tail(q) \in Seq(S) /\ Len(Tail(q)) = 0 BY <1>1
  <2> QED BY <2>1, EmptySeq
<1> QED BY <1>1, <1>2, <1>3, <1>4

LEMMA PostKopf ==
    ASSUME NEW c \in Kanal, c.ein # << >>, Len(c.ein) <= 1
    PROVE  /\ Head(c.ein) \in Telegramm /\ c.ein = << Head(c.ein) >> /\ Len(c.ein) = 1
           /\ Post(c) = {Head(c.ein)} /\ Tail(c.ein) = << >>
<1>1. c.ein \in Seq(Telegramm) BY DEF Kanal
<1>2. /\ Len(c.ein) = 1 /\ Head(c.ein) \in Telegramm /\ c.ein = << Head(c.ein) >>
      /\ Tail(c.ein) = << >>
  BY <1>1, EinsFolge
<1> QED BY <1>2, PostEins

LEMMA PostTyp ==
    ASSUME NEW c \in Kanal
    PROVE  Post(c) \subseteq Telegramm
<1>1. c.ein \in Seq(Telegramm) BY DEF Kanal
<1> QED BY <1>1 DEF Post

(***************************************************************************)
(* A change of one channel, or of two.                                     *)
(***************************************************************************)
Nur(K2, K, s, k) ==
    \A t \in Server, j \in Kanaele : t # s \/ j # k => K2[t][j] = K[t][j]
NurBeide(K2, K, s, k, p, q) ==
    \A t \in Server, j \in Kanaele :
        (t # s \/ j # k) /\ (t # p \/ j # q) => K2[t][j] = K[t][j]

Setzt(K2, K, s, k, d) == K2 = [K EXCEPT ![s][k] = d]

LEMMA Gesetzt ==
    ASSUME NEW K \in Netze, NEW s \in Server, NEW k \in Kanaele, NEW d \in Kanal,
           NEW K2, Setzt(K2, K, s, k, d)
    PROVE  K2 \in Netze /\ K2[s][k] = d /\ Nur(K2, K, s, k)
<1>1. K \in [Server -> [Kanaele -> Kanal]] BY DEF Netze
<1> HIDE DEF Kanal, Kanaele
<1> QED BY <1>1 DEF Setzt, Nur, Netze

(* The partner of a connected channel. *)
LEMMA Gegenueber ==
    ASSUME NEW K \in Netze, NEW B, NEW N, NEW z, NetzGut(K, B, N, z),
           NEW s \in Server, NEW k \in Kanaele, K[s][k].ende = "Kanal"
    PROVE  LET c == K[s][k]
               g == K[c.partner][c.gegen]
           IN  /\ c.partner \in Server /\ c.partner # s /\ c.gegen \in Kanaele
               /\ c \in Kanal /\ g \in Kanal /\ c.offen /\ g.offen
               /\ PaarGut(s, k, c, g) /\ PaarGut(c.partner, c.gegen, g, c)
<1> DEFINE c == K[s][k]
           p == c.partner
           q == c.gegen
           g == K[p][q]
<1>1. /\ KanalGut(s, k, c, B, N, z) /\ p # Keiner /\ PaarGut(s, k, c, g) BY DEF NetzGut
<1>2. c \in Kanal BY DEF Netze
<1>3. p \in Server /\ q \in Kanaele BY <1>1, <1>2 DEF Kanal
<1>4. g \in Kanal BY <1>3 DEF Netze
<1>5. p # s BY <1>1 DEF KanalGut, ServerGut
<1>6. g.ende = "Kanal" /\ g.partner = s /\ g.gegen = k BY <1>1 DEF PaarGut
<1>7. KanalGut(p, q, g, B, N, z) /\ PaarGut(p, q, g, c) BY <1>3, <1>6 DEF NetzGut
<1>8. c.offen /\ g.offen BY <1>1, <1>6, <1>7 DEF KanalGut
<1> QED BY <1>1, <1>2, <1>3, <1>4, <1>5, <1>7, <1>8

(* Nobody else has the two ends of a connection as partners. *)
LEMMA KeinDritter ==
    ASSUME NEW K \in Netze, NEW B, NEW N, NEW z, NetzGut(K, B, N, z),
           NEW s \in Server, NEW k \in Kanaele, NEW u \in Server, NEW j \in Kanaele,
           K[u][j].ende = "Kanal", K[u][j].partner = s, K[u][j].gegen = k
    PROVE  /\ K[s][k].ende = "Kanal" /\ K[s][k].partner = u /\ K[s][k].gegen = j
<1>1. PaarGut(u, j, K[u][j], K[s][k]) BY DEF NetzGut
<1> QED BY <1>1 DEF PaarGut

(* What is changed is in order, and so is what it is connected to. *)
LEMMA NetzAus ==
    ASSUME NEW K \in Netze, NEW K2 \in Netze, NEW B, NEW N, NEW z, NetzGut(K, B, N, z),
           \A u \in Server, j \in Kanaele :
               K2[u][j] # K[u][j] =>
                  /\ KanalGut(u, j, K2[u][j], B, N, z)
                  /\ K2[u][j].ende = "Kanal" =>
                        /\ K2[u][j].partner # Keiner
                        /\ PaarGut(u, j, K2[u][j], K2[K2[u][j].partner][K2[u][j].gegen]),
           \A u \in Server, j \in Kanaele :
               K2[u][j] = K[u][j] /\ K[u][j].ende = "Kanal" =>
                  \/ K2[K[u][j].partner][K[u][j].gegen] = K[K[u][j].partner][K[u][j].gegen]
                  \/ PaarGut(u, j, K[u][j], K2[K[u][j].partner][K[u][j].gegen])
    PROVE  NetzGut(K2, B, N, z)
<1>1. ASSUME NEW u \in Server, NEW j \in Kanaele
      PROVE  /\ KanalGut(u, j, K2[u][j], B, N, z)
             /\ K2[u][j].ende = "Kanal" =>
                   /\ K2[u][j].partner # Keiner
                   /\ PaarGut(u, j, K2[u][j], K2[K2[u][j].partner][K2[u][j].gegen])
  <2>1. CASE K2[u][j] # K[u][j] BY <2>1
  <2>2. CASE K2[u][j] = K[u][j]
    <3>1. /\ KanalGut(u, j, K[u][j], B, N, z)
          /\ K[u][j].ende = "Kanal" =>
                /\ K[u][j].partner # Keiner
                /\ PaarGut(u, j, K[u][j], K[K[u][j].partner][K[u][j].gegen])
      BY DEF NetzGut
    <3> QED BY <2>2, <3>1
  <2> QED BY <2>1, <2>2
<1>2. BuchGut(B, N, z) BY DEF NetzGut
<1> QED BY <1>1, <1>2 DEF NetzGut

(* Two channels that are not the two ends of one connection. *)
LEMMA Unbeteiligt ==
    ASSUME NEW K \in Netze, NEW B, NEW N, NEW z, NetzGut(K, B, N, z),
           NEW s \in Server, NEW k \in Kanaele, NEW u \in Server, NEW j \in Kanaele,
           K[u][j].ende = "Kanal",
           K[s][k].ende # "Kanal" \/ K[s][k].partner # u \/ K[s][k].gegen # j
    PROVE  K[u][j].partner # s \/ K[u][j].gegen # k
BY KeinDritter

(* A channel goes on: it has read its telegram or is cut to what follows. *)
Gleich(c, d) ==
    d.stichdatum = c.stichdatum /\ d.gestartet = c.gestartet /\ d.vollabfrage = c.vollabfrage

Fortgesetzt(c, d) ==
    /\ d.offen = c.offen /\ d.partner = c.partner /\ d.ende = c.ende /\ d.gegen = c.gegen
    /\ d.aus = c.aus /\ d.ein \in {c.ein, << >>}
    /\ d.freigabe => c.freigabe \/ c.partner # Keiner
    /\ d.stichdatum > 0 => Gleich(c, d)

LEMMA KanalFort ==
    ASSUME NEW c \in Kanal, NEW d \in Kanal, Fortgesetzt(c, d),
           NEW s, NEW k, NEW B, NEW N, NEW z, KanalGut(s, k, c, B, N, z), c.offen
    PROVE  KanalGut(s, k, d, B, N, z) /\ Post(d) \subseteq Post(c) /\ Len(d.ein) <= Len(c.ein)
<1>1. Len(c.ein) \in Nat /\ Len(d.ein) \in Nat BY DEF Kanal
<1>2. Post(d) \subseteq Post(c) /\ Len(d.ein) <= Len(c.ein) BY <1>1 DEF Fortgesetzt, Post
<1>3. FremdGut(c) => FremdGut(d) BY <1>2 DEF Fortgesetzt, FremdGut
<1>4. ServerGut(s, d, B, N, z) BY <1>2 DEF Fortgesetzt, KanalGut, ServerGut
<1>5. WartetGut(k, d) BY DEF Fortgesetzt, KanalGut, WartetGut
<1>6. MelderGut(k, d) BY <1>2 DEF Fortgesetzt, Gleich, KanalGut, MelderGut
<1>7. d.offen = c.offen /\ Len(d.ein) <= 1 BY <1>1, <1>2 DEF Fortgesetzt, KanalGut
<1> QED BY <1>2, <1>3, <1>4, <1>5, <1>6, <1>7 DEF KanalGut

LEMMA SummeKleiner ==
    ASSUME NEW x \in Nat, NEW y \in Nat, NEW w \in Nat, x + y <= 1, w <= x
    PROVE  w + y <= 1 /\ y + w <= 1
OBVIOUS

LEMMA PaarFort ==
    ASSUME NEW c \in Kanal, NEW d \in Kanal, NEW g \in Kanal,
           NEW s, NEW k, NEW p, NEW q, Fortgesetzt(c, d), g.stichdatum > 0 => Gleich(c, d),
           PaarGut(s, k, c, g), PaarGut(p, q, g, c),
           Post(d) \subseteq Post(c), Len(d.ein) <= Len(c.ein)
    PROVE  PaarGut(s, k, d, g) /\ PaarGut(p, q, g, d)
<1>1. Len(c.ein) \in Nat /\ Len(d.ein) \in Nat /\ Len(g.ein) \in Nat BY DEF Kanal
<1>2. Len(d.ein) + Len(g.ein) <= 1 /\ Len(g.ein) + Len(d.ein) <= 1
  <2>1. Len(c.ein) + Len(g.ein) <= 1 BY DEF PaarGut
  <2> QED BY <1>1, <2>1, SummeKleiner
<1>3. PaarGut(s, k, d, g)
  <2>1. d.stichdatum > 0 => c.stichdatum > 0 BY DEF Fortgesetzt, Gleich
  <2> QED BY <1>2, <2>1 DEF PaarGut
<1>4. PaarGut(p, q, g, d) BY <1>2 DEF PaarGut, Fortgesetzt, Gleich
<1> QED BY <1>3, <1>4

LEMMA NetzFort ==
    ASSUME NEW K \in Netze, NEW K2 \in Netze, NEW B, NEW N, NEW z, NetzGut(K, B, N, z),
           NEW s \in Server, NEW k \in Kanaele, Nur(K2, K, s, k), K[s][k].offen,
           Fortgesetzt(K[s][k], K2[s][k]),
           K[s][k].ende = "Kanal" /\ K[K[s][k].partner][K[s][k].gegen].stichdatum > 0
              => Gleich(K[s][k], K2[s][k])
    PROVE  NetzGut(K2, B, N, z)
<1> DEFINE c == K[s][k]
           d == K2[s][k]
           p == c.partner
           q == c.gegen
           g == K[p][q]
<1>1. KanalGut(s, k, c, B, N, z) BY DEF NetzGut
<1>2. c \in Kanal /\ d \in Kanal BY DEF Netze
<1>3. Fortgesetzt(c, d) /\ (c.ende = "Kanal" /\ g.stichdatum > 0 => Gleich(c, d)) OBVIOUS
<1>4. KanalGut(s, k, d, B, N, z) /\ Post(d) \subseteq Post(c) /\ Len(d.ein) <= Len(c.ein)
  <2> HIDE DEF c, d
  <2> QED BY <1>1, <1>2, <1>3, KanalFort DEF c
<1>5. ASSUME c.ende = "Kanal"
      PROVE  /\ p \in Server /\ p # Keiner /\ q \in Kanaele /\ K2[p][q] = g
             /\ PaarGut(s, k, d, g) /\ PaarGut(p, q, g, d)
  <2>1. /\ p \in Server /\ p # s /\ q \in Kanaele /\ g \in Kanal
        /\ PaarGut(s, k, c, g) /\ PaarGut(p, q, g, c)
    BY <1>5, Gegenueber
  <2>2. Fortgesetzt(c, d) /\ (g.stichdatum > 0 => Gleich(c, d)) BY <1>3, <1>5
  <2>3. K2[p][q] = g BY <2>1 DEF Nur
  <2>4. PaarGut(s, k, d, g) /\ PaarGut(p, q, g, d)
    <3> HIDE DEF c, d, g, p, q
    <3> QED BY <1>2, <1>4, <2>1, <2>2, PaarFort
  <2> QED BY <2>1, <2>3, <2>4, Groessen
<1>6. d.ende = c.ende /\ d.partner = p /\ d.gegen = q BY <1>3 DEF Fortgesetzt
<1>7. ASSUME NEW u \in Server, NEW j \in Kanaele, K2[u][j] # K[u][j]
      PROVE  /\ KanalGut(u, j, K2[u][j], B, N, z)
             /\ K2[u][j].ende = "Kanal" =>
                   /\ K2[u][j].partner # Keiner
                   /\ PaarGut(u, j, K2[u][j], K2[K2[u][j].partner][K2[u][j].gegen])
  <2>1. u = s /\ j = k BY <1>7 DEF Nur
  <2> QED BY <1>4, <1>5, <1>6, <2>1
<1>8. ASSUME NEW u \in Server, NEW j \in Kanaele, K2[u][j] = K[u][j], K[u][j].ende = "Kanal"
      PROVE  \/ K2[K[u][j].partner][K[u][j].gegen] = K[K[u][j].partner][K[u][j].gegen]
             \/ PaarGut(u, j, K[u][j], K2[K[u][j].partner][K[u][j].gegen])
  <2>1. K[u][j].partner \in Server /\ K[u][j].gegen \in Kanaele BY <1>8, Gegenueber
  <2>2. CASE K[u][j].partner = s /\ K[u][j].gegen = k
    <3>1. c.ende = "Kanal" /\ p = u /\ q = j BY <1>8, <2>2, KeinDritter
    <3>2. g = K[u][j] BY <3>1
    <3> QED BY <1>5, <2>2, <3>1, <3>2
  <2>3. CASE K[u][j].partner # s \/ K[u][j].gegen # k
    <3>1. K2[K[u][j].partner][K[u][j].gegen] = K[K[u][j].partner][K[u][j].gegen]
      BY <2>1, <2>3 DEF Nur
    <3> QED BY <3>1
  <2> QED BY <2>2, <2>3
<1> QED BY <1>7, <1>8, NetzAus

(* Two channels, the ends of one connection or of none. *)
LEMMA NetzBeide ==
    ASSUME NEW K \in Netze, NEW K2 \in Netze, NEW B, NEW N, NEW z, NetzGut(K, B, N, z),
           NEW s \in Server, NEW k \in Kanaele, NEW p \in Server, NEW q \in Kanaele,
           NurBeide(K2, K, s, k, p, q),
           K[s][k].ende = "Kanal" => K[s][k].partner = p /\ K[s][k].gegen = q,
           K[p][q].ende = "Kanal" => K[p][q].partner = s /\ K[p][q].gegen = k,
           KanalGut(s, k, K2[s][k], B, N, z), KanalGut(p, q, K2[p][q], B, N, z),
           K2[s][k].ende = "Kanal" => /\ K2[s][k].partner = p /\ K2[s][k].gegen = q
                                      /\ PaarGut(s, k, K2[s][k], K2[p][q]),
           K2[p][q].ende = "Kanal" => /\ K2[p][q].partner = s /\ K2[p][q].gegen = k
                                      /\ PaarGut(p, q, K2[p][q], K2[s][k])
    PROVE  NetzGut(K2, B, N, z)
<1>1. ASSUME NEW u \in Server, NEW j \in Kanaele, K2[u][j] # K[u][j]
      PROVE  /\ KanalGut(u, j, K2[u][j], B, N, z)
             /\ K2[u][j].ende = "Kanal" =>
                   /\ K2[u][j].partner # Keiner
                   /\ PaarGut(u, j, K2[u][j], K2[K2[u][j].partner][K2[u][j].gegen])
  <2>1. (u = s /\ j = k) \/ (u = p /\ j = q) BY <1>1 DEF NurBeide
  <2>2. CASE u = s /\ j = k BY <2>2, Groessen
  <2>3. CASE u = p /\ j = q BY <2>3, Groessen
  <2> QED BY <2>1, <2>2, <2>3
<1>2. ASSUME NEW u \in Server, NEW j \in Kanaele, K2[u][j] = K[u][j], K[u][j].ende = "Kanal"
      PROVE  \/ K2[K[u][j].partner][K[u][j].gegen] = K[K[u][j].partner][K[u][j].gegen]
             \/ PaarGut(u, j, K[u][j], K2[K[u][j].partner][K[u][j].gegen])
  <2>1. K[u][j].partner \in Server /\ K[u][j].gegen \in Kanaele BY <1>2, Gegenueber
  <2>2. CASE K[u][j].partner = s /\ K[u][j].gegen = k
    <3>1. u = p /\ j = q BY <1>2, <2>2, KeinDritter
    <3> QED BY <1>2, <2>2, <3>1
  <2>3. CASE K[u][j].partner = p /\ K[u][j].gegen = q
    <3>1. u = s /\ j = k BY <1>2, <2>3, KeinDritter
    <3> QED BY <1>2, <2>3, <3>1
  <2>4. CASE /\ K[u][j].partner # s \/ K[u][j].gegen # k
             /\ K[u][j].partner # p \/ K[u][j].gegen # q
    <3>1. K2[K[u][j].partner][K[u][j].gegen] = K[K[u][j].partner][K[u][j].gegen]
      BY <2>1, <2>4 DEF NurBeide
    <3> QED BY <3>1
  <2> QED BY <2>2, <2>3, <2>4
<1> QED BY <1>1, <1>2, NetzAus

(* A channel that is connected to no other. *)
LEMMA NetzErsetzt ==
    ASSUME NEW K \in Netze, NEW K2 \in Netze, NEW B, NEW N, NEW z, NetzGut(K, B, N, z),
           NEW s \in Server, NEW k \in Kanaele, Nur(K2, K, s, k),
           K[s][k].ende # "Kanal", K2[s][k].ende # "Kanal", KanalGut(s, k, K2[s][k], B, N, z)
    PROVE  NetzGut(K2, B, N, z)
<1>1. NurBeide(K2, K, s, k, s, k) BY DEF Nur, NurBeide
<1> QED BY <1>1, NetzBeide

LEMMA FreierTyp == FreierKanal \in Kanal
<1>1. << >> \in Seq(Telegramm) BY EmptySeq
<1>2. 0 \in 0 .. MaxZeit + 1 /\ 0 \in Kanaele BY Groessen
<1> QED BY <1>1, <1>2 DEF FreierKanal, Kanal

Verlassen(d, c) == d = [c EXCEPT !.ende = "zu"]
Frei(d, c) == d = [FreierKanal EXCEPT !.freigabe = c.freigabe]

(* A free channel is in order, and so is an end that the other has left. *)
LEMMA FreiFelder ==
    ASSUME NEW c \in Kanal, NEW d, Frei(d, c), NEW s, NEW k, NEW B, NEW N, NEW z
    PROVE  d \in Kanal /\ KanalGut(s, k, d, B, N, z) /\ d.ende = "zu" /\ d.offen = FALSE
<1>1. /\ d.ende = "zu" /\ d.offen = FALSE /\ d.stichdatum = 0 /\ d.ein = << >> /\ d.partner = Keiner
  BY DEF Frei, FreierKanal
<1>2. d \in Kanal
  <2>1. c.freigabe \in BOOLEAN BY DEF Kanal
  <2> QED BY <2>1, FreierTyp DEF Frei, Kanal
<1>3. Post(d) = {} /\ Len(d.ein) = 0 BY <1>1, PostLeer, EmptySeq
<1>4. KanalGut(s, k, d, B, N, z)
  BY <1>1, <1>3 DEF KanalGut, ServerGut, WartetGut, MelderGut
<1> QED BY <1>1, <1>2, <1>4

LEMMA VerlassenGut ==
    ASSUME NEW s, NEW k, NEW B, NEW N, NEW z, NEW c \in Kanal, KanalGut(s, k, c, B, N, z)
    PROVE  LET d == [c EXCEPT !.ende = "zu"]
           IN  /\ d \in Kanal /\ KanalGut(s, k, d, B, N, z) /\ d.ende = "zu" /\ Post(d) = Post(c)
               /\ d.offen = c.offen /\ d.partner = c.partner /\ d.stichdatum = c.stichdatum
               /\ d.fertig = c.fertig /\ d.rest = c.rest /\ d.ein = c.ein /\ d.gestartet = c.gestartet
<1> DEFINE d == [c EXCEPT !.ende = "zu"]
<1>1. /\ d \in Kanal /\ d.ende = "zu" /\ d.ein = c.ein
      /\ d.offen = c.offen /\ d.partner = c.partner /\ d.stichdatum = c.stichdatum
      /\ d.fertig = c.fertig /\ d.rest = c.rest /\ d.freigabe = c.freigabe
      /\ d.gestartet = c.gestartet /\ d.vollabfrage = c.vollabfrage
  BY DEF Kanal
<1> HIDE DEF d
<1>2. Post(d) = Post(c) BY <1>1 DEF Post
<1>3. FremdGut(c) => FremdGut(d) BY <1>1, <1>2 DEF FremdGut
<1>4. ServerGut(s, d, B, N, z) BY <1>1, <1>2 DEF KanalGut, ServerGut
<1>5. WartetGut(k, d) BY <1>1 DEF WartetGut
<1>6. MelderGut(k, d) BY <1>1, <1>2 DEF KanalGut, MelderGut
<1>7. KanalGut(s, k, d, B, N, z) BY <1>1, <1>3, <1>4, <1>5, <1>6 DEF KanalGut
<1> QED BY <1>1, <1>2, <1>7 DEF d

(***************************************************************************)
(* The reports, when channels change: one, or two that are connected to no *)
(* third.                                                                  *)
(***************************************************************************)
NurPaar(K2, K, s, k, p, q) ==
    /\ NurBeide(K2, K, s, k, p, q)
    /\ K[s][k].ende = "Kanal" => K[s][k].partner = p /\ K[s][k].gegen = q
    /\ K[p][q].ende = "Kanal" => K[p][q].partner = s /\ K[p][q].gegen = k

(* Reported times that went back. *)
Zurueck(Z2, Z) == \A u, t \in Server : Z2[u][t] <= Z[u][t]

LEMMA GemeldetZurueck ==
    ASSUME NEW Z \in [Server -> Zeilen], NEW Z2 \in [Server -> Zeilen], Zurueck(Z2, Z),
           NEW B \in Buecher, NEW s \in Server, NEW t \in Server, NEW n \in Nummer,
           Gemeldet(s, t, n, B, Z)
    PROVE  Gemeldet(s, t, n, B, Z2)
<1>1. Z[s][t] \in Int /\ Z2[s][t] \in Int /\ Z2[s][t] <= Z[s][t] BY DEF Zeilen, Zurueck
<1>2. B[s][n].datum \in Int BY DEF Buecher, Eintrag
<1> QED BY <1>1, <1>2 DEF Gemeldet

LEMMA DialogZurueck ==
    ASSUME NEW Z \in [Server -> Zeilen], NEW Z2 \in [Server -> Zeilen], Zurueck(Z2, Z),
           NEW B \in Buecher, NEW s \in Server, NEW n \in Nummer, NEW c, NEW g, c.partner \in Server,
           DialogGut(s, c, g, n, B, Z)
    PROVE  DialogGut(s, c, g, n, B, Z2)
<1>1. Gemeldet(s, c.partner, n, B, Z) => Gemeldet(s, c.partner, n, B, Z2) BY GemeldetZurueck
<1>2. Uebrig(s, c, n, B, Z) => Uebrig(s, c, n, B, Z2) BY <1>1 DEF Uebrig
<1> QED BY <1>1, <1>2 DEF DialogGut

(* Who is to be told of changes is another server. *)
LEMMA MeldetServer ==
    ASSUME NEW K \in Netze, NEW B, NEW N, NEW z, NetzGut(K, B, N, z),
           NEW s \in Server, K[s][0].offen, K[s][0].stichdatum > 0
    PROVE  /\ K[s][0] \in Kanal /\ K[s][0].partner \in Server /\ K[s][0].partner # s
           /\ K[s][0].gestartet /\ ~K[s][0].vollabfrage
           /\ \A t \in Post(K[s][0]) : t.art \in {"Quittung", "Fehler"}
<1>1. 0 \in Kanaele BY Groessen
<1>2. KanalGut(s, 0, K[s][0], B, N, z) /\ K[s][0] \in Kanal BY <1>1 DEF NetzGut, Netze
<1>3. K[s][0].partner # Keiner /\ K[s][0].partner \in Server \cup {Keiner}
  BY <1>2 DEF KanalGut, MelderGut, Kanal
<1> QED BY <1>2, <1>3 DEF KanalGut, MelderGut, ServerGut

LEMMA SyncFern ==
    ASSUME NEW K \in Netze, NEW K2 \in Netze, NEW B \in Buecher, NEW N, NEW z, NetzGut(K, B, N, z),
           NEW Z \in [Server -> Zeilen], NEW Z2 \in [Server -> Zeilen], Zurueck(Z2, Z),
           NEW s \in Server, NEW k \in Kanaele, NEW p \in Server, NEW q \in Kanaele,
           NurPaar(K2, K, s, k, p, q),
           NEW u \in Server, u # s \/ k # 0, u # p \/ q # 0, SyncGut(u, K, B, Z, N)
    PROVE  K2[u][0] = K[u][0] /\ SyncGut(u, K2, B, Z2, N)
<1> DEFINE c == K[u][0]
           g == K[c.partner][c.gegen]
           h == K2[c.partner][c.gegen]
<1>1. 0 \in Kanaele BY Groessen
<1>2. K2[u][0] = c BY <1>1 DEF NurPaar, NurBeide
<1>3. ASSUME NEW n \in Nummer, Zustaendig(u, c, n, B, N)
      PROVE  DialogGut(u, c, h, n, B, Z2)
  <2>1. c.partner \in Server BY <1>3, MeldetServer DEF Zustaendig
  <2>2. DialogGut(u, c, g, n, B, Z) BY <1>3 DEF SyncGut
  <2>3. DialogGut(u, c, g, n, B, Z2) BY <2>1, <2>2, DialogZurueck
  <2>4. CASE c.ende # "Kanal" BY <2>3, <2>4 DEF DialogGut
  <2>5. CASE c.ende = "Kanal"
    <3>1. c.gegen \in Kanaele BY <1>1, <2>5, Gegenueber
    <3>2. c.partner # s \/ c.gegen # k
      <4>1. K[s][k].ende # "Kanal" \/ K[s][k].partner # u \/ K[s][k].gegen # 0 BY DEF NurPaar
      <4> QED BY <1>1, <2>5, <4>1, Unbeteiligt
    <3>3. c.partner # p \/ c.gegen # q
      <4>1. K[p][q].ende # "Kanal" \/ K[p][q].partner # u \/ K[p][q].gegen # 0 BY DEF NurPaar
      <4> QED BY <1>1, <2>5, <4>1, Unbeteiligt
    <3>4. h = g BY <2>1, <3>1, <3>2, <3>3 DEF NurPaar, NurBeide
    <3> QED BY <2>3, <3>4
  <2> QED BY <2>4, <2>5
<1> QED BY <1>2, <1>3 DEF SyncGut

(* Channel 0 of u, changed: what it was to report has been reported, or it *)
(* goes on.                                                                *)
MeldetWeiter(u, K, K2, B, Z2, N) ==
    /\ SyncGut(u, K2, B, Z2, N)
    /\ \A t \in Server, n \in Nummer :
          Gemeinsam(u, t, n) /\ N[u] = 0 /\ N[t] = 0 /\ Laeuft(u, t, n, K, B)
             => Gemeldet(u, t, n, B, Z2) \/ Laeuft(u, t, n, K2, B)

LEMMA MeldBeide ==
    ASSUME NEW K \in Netze, NEW K2 \in Netze, NEW B \in Buecher, NEW N, NEW z, NetzGut(K, B, N, z),
           NEW Z \in [Server -> Zeilen], NEW Z2 \in [Server -> Zeilen], NEW L,
           Zurueck(Z2, Z), MeldungGut(K, B, Z, L, N),
           NEW s \in Server, NEW k \in Kanaele, NEW p \in Server, NEW q \in Kanaele,
           NurPaar(K2, K, s, k, p, q),
           k = 0 => MeldetWeiter(s, K, K2, B, Z2, N), q = 0 => MeldetWeiter(p, K, K2, B, Z2, N)
    PROVE  MeldungGut(K2, B, Z2, L, N)
<1>1. ZeitGut(B, L, N) /\ Zurueck(Z2, Z) BY DEF MeldungGut
<1>2. ASSUME NEW u \in Server
      PROVE  /\ SyncGut(u, K2, B, Z2, N)
             /\ \/ (u = s /\ k = 0) \/ (u = p /\ q = 0)
                \/ K2[u][0] = K[u][0]
  <2>1. SyncGut(u, K, B, Z, N) BY DEF MeldungGut
  <2>2. CASE ~(u = s /\ k = 0) /\ ~(u = p /\ q = 0) BY <1>1, <2>1, <2>2, SyncFern
  <2>3. CASE (u = s /\ k = 0) \/ (u = p /\ q = 0) BY <2>3 DEF MeldetWeiter
  <2> HIDE DEF SyncGut
  <2> QED BY <2>2, <2>3
<1>3. ASSUME NEW u \in Server, NEW t \in Server, NEW n \in Nummer,
             Gemeinsam(u, t, n), N[u] = 0, N[t] = 0
      PROVE  Gemeldet(u, t, n, B, Z2) \/ Laeuft(u, t, n, K2, B)
  <2>1. Gemeldet(u, t, n, B, Z) \/ Laeuft(u, t, n, K, B) BY <1>3 DEF MeldungGut
  <2>2. CASE Gemeldet(u, t, n, B, Z) BY <1>1, <2>2, GemeldetZurueck
  <2>3. CASE Laeuft(u, t, n, K, B)
    <3>1. CASE (u = s /\ k = 0) \/ (u = p /\ q = 0) BY <1>3, <2>3, <3>1 DEF MeldetWeiter
    <3>2. CASE K2[u][0] = K[u][0] BY <2>3, <3>2 DEF Laeuft
    <3> QED BY <1>2, <3>1, <3>2
  <2> QED BY <2>1, <2>2, <2>3
<1> QED BY <1>1, <1>2, <1>3 DEF MeldungGut

LEMMA ZurueckSelbst ==
    ASSUME NEW Z \in [Server -> Zeilen]
    PROVE  Zurueck(Z, Z)
<1>1. \A u, t \in Server : Z[u][t] \in Int BY DEF Zeilen
<1> QED BY <1>1 DEF Zurueck

LEMMA SummeEins ==
    ASSUME NEW x \in Nat \ {0}, NEW y \in Nat, x + y <= 1
    PROVE  y = 0
OBVIOUS

(* Only the one who sends has something to read: a channel that has a      *)
(* telegram is accepted, and its partner has none.                         *)
LEMMA LeserAllein ==
    ASSUME NEW K \in Netze, NEW B, NEW N, NEW z, NetzGut(K, B, N, z),
           NEW s \in Server, NEW k \in Kanaele, K[s][k].ein # << >>
    PROVE  /\ K[s][k] \in Kanal /\ K[s][k].ende # "wartend" /\ Len(K[s][k].ein) <= 1
           /\ K[s][k].ende = "Kanal" => /\ K[K[s][k].partner][K[s][k].gegen].ein = << >>
                                        /\ Post(K[K[s][k].partner][K[s][k].gegen]) = {}
<1> DEFINE c == K[s][k]
           g == K[c.partner][c.gegen]
<1>1. KanalGut(s, k, c, B, N, z) /\ c \in Kanal BY DEF NetzGut, Netze
<1>2. c.ende # "wartend" /\ Len(c.ein) <= 1 BY <1>1 DEF KanalGut, WartetGut
<1>3. ASSUME c.ende = "Kanal" PROVE g.ein = << >>
  <2>1. PaarGut(s, k, c, g) /\ g \in Kanal BY <1>3, Gegenueber
  <2> HIDE DEF c, g
  <2>2. Len(c.ein) + Len(g.ein) <= 1 BY <2>1 DEF PaarGut
  <2>3. c.ein \in Seq(Telegramm) /\ g.ein \in Seq(Telegramm) BY <1>1, <2>1 DEF Kanal
  <2>4. Len(c.ein) \in Nat /\ Len(g.ein) \in Nat BY <2>3
  <2>5. c.ein # << >> BY DEF c
  <2>6. Len(c.ein) \in Nat \ {0} BY <2>3, <2>5, EmptySeq
  <2>7. Len(g.ein) = 0 BY <2>2, <2>4, <2>6, SummeEins
  <2> QED BY <2>3, <2>7, EmptySeq
<1> QED BY <1>1, <1>2, <1>3, PostLeer

LEMMA MeldFort ==
    ASSUME NEW K \in Netze, NEW K2 \in Netze, NEW B \in Buecher, NEW N, NEW z, NetzGut(K, B, N, z),
           NEW Z \in [Server -> Zeilen], NEW L, MeldungGut(K, B, Z, L, N),
           NEW s \in Server, NEW k \in Kanaele, Nur(K2, K, s, k), K[s][k].offen,
           Fortgesetzt(K[s][k], K2[s][k]), K[s][k].ein # << >>, K2[s][k].ein = << >>,
           K[s][k].stichdatum > 0 => Gleich(K[s][k], K2[s][k]),
           k = 0 /\ K[s][0].stichdatum > 0 /\ K2[s][0].fertig =>
              \A n \in Nummer : Zustaendig(s, K[s][0], n, B, N) => Gemeldet(s, K[s][0].partner, n, B, Z)
    PROVE  MeldungGut(K2, B, Z, L, N)
<1> DEFINE c == K[s][k]
           d == K2[s][k]
           p == IF c.ende = "Kanal" THEN c.partner ELSE s
           q == IF c.ende = "Kanal" THEN c.gegen ELSE k
<1>1. c \in Kanal /\ d \in Kanal /\ 0 \in Kanaele BY Groessen DEF Netze
<1>2. p \in Server /\ q \in Kanaele BY Gegenueber
<1>3. ASSUME c.ende = "Kanal"
      PROVE  p # s /\ K[p][q].partner = s /\ K[p][q].gegen = k
  <2>1. p = c.partner /\ q = c.gegen BY <1>3
  <2>2. p # s /\ PaarGut(s, k, c, K[p][q]) BY <1>3, <2>1, Gegenueber
  <2> QED BY <2>2 DEF PaarGut
<1>4. NurPaar(K2, K, s, k, p, q)
  <2>1. NurBeide(K2, K, s, k, p, q) BY DEF Nur, NurBeide
  <2> QED BY <1>3, <2>1 DEF NurPaar
<1>5. Zurueck(Z, Z) BY ZurueckSelbst
<1>6. Post(d) = {} BY PostLeer
<1>7. /\ d.ende = c.ende /\ d.partner = c.partner /\ d.gegen = c.gegen /\ d.offen = c.offen
      /\ d.stichdatum > 0 => Gleich(c, d)
  BY DEF Fortgesetzt
<1>8. c.ende # "wartend" /\ (c.ende = "Kanal" => Post(K[p][q]) = {}) BY LeserAllein
<1>9. c.ende = "Kanal" => K2[p][q] = K[p][q] BY <1>2, <1>3 DEF Nur
<1>10. ASSUME k = 0, NEW n \in Nummer, Zustaendig(s, d, n, B, N)
       PROVE  DialogGut(s, d, K2[d.partner][d.gegen], n, B, Z)
  <2>1. Zustaendig(s, c, n, B, N) BY <1>7, <1>10 DEF Zustaendig, Gleich
  <2>2. d.fertig => Gemeldet(s, c.partner, n, B, Z) BY <1>10, <2>1 DEF Zustaendig
  <2>3. d.ende = "Kanal" => Post(K2[d.partner][d.gegen]) = {} BY <1>7, <1>8, <1>9
  <2> QED BY <1>6, <1>7, <1>8, <2>2, <2>3 DEF DialogGut
<1>11. k = 0 => SyncGut(s, K2, B, Z, N) BY <1>10 DEF SyncGut
<1>12. ASSUME q = 0, c.ende = "Kanal", NEW n \in Nummer, Zustaendig(p, K2[p][0], n, B, N)
       PROVE  DialogGut(p, K2[p][0], K2[K2[p][0].partner][K2[p][0].gegen], n, B, Z)
  <2>1. K2[p][0] = K[p][0] /\ K[p][0].partner = s /\ K[p][0].gegen = k BY <1>3, <1>9, <1>12
  <2>2. DialogGut(p, K[p][0], c, n, B, Z)
    BY <1>2, <1>12, <2>1 DEF MeldungGut, SyncGut
  <2>3. DialogGut(p, K[p][0], d, n, B, Z)
    <3> HIDE DEF c, d, p, q
    <3> QED BY <1>6, <2>2 DEF DialogGut
  <2> QED BY <2>1, <2>3
<1>13. q = 0 => SyncGut(p, K2, B, Z, N)
  <2>1. CASE c.ende = "Kanal" BY <1>12, <2>1 DEF SyncGut
  <2>2. CASE c.ende # "Kanal" BY <1>11, <2>2
  <2> QED BY <2>1, <2>2
<1>14. ASSUME NEW u \in Server, (u = s /\ k = 0) \/ (u = p /\ q = 0), NEW t \in Server, NEW n \in Nummer,
              Gemeinsam(u, t, n), N[u] = 0, N[t] = 0, Laeuft(u, t, n, K, B)
       PROVE  Gemeldet(u, t, n, B, Z) \/ Laeuft(u, t, n, K2, B)
  <2>1. CASE u = s /\ k = 0
    <3>1. /\ c.offen /\ c.partner = t /\ ~c.fertig /\ c.stichdatum > 0
          /\ c.stichdatum <= B[s][n].datum
      BY <1>14, <2>1 DEF Laeuft
    <3>2. Zustaendig(s, c, n, B, N)
      <4>1. c.stichdatum \in Int BY <1>1 DEF Kanal
      <4>2. B[s][n].datum \in Int BY DEF Buecher, Eintrag
      <4> QED BY <1>14, <2>1, <3>1, <4>1, <4>2 DEF Zustaendig
    <3>3. CASE d.fertig BY <2>1, <3>1, <3>2, <3>3
    <3>4. CASE ~d.fertig BY <1>7, <2>1, <3>1, <3>4 DEF Laeuft, Gleich
    <3> QED BY <3>3, <3>4
  <2>2. CASE u = p /\ q = 0 /\ c.ende = "Kanal" BY <1>9, <1>14, <2>2 DEF Laeuft
  <2>3. CASE u = p /\ q = 0 /\ c.ende # "Kanal" BY <2>1, <2>3
  <2> QED BY <1>14, <2>1, <2>2, <2>3
<1> HIDE DEF c, d, p, q
<1>15. k = 0 => MeldetWeiter(s, K, K2, B, Z, N) BY <1>11, <1>14 DEF MeldetWeiter
<1>16. q = 0 => MeldetWeiter(p, K, K2, B, Z, N) BY <1>2, <1>13, <1>14 DEF MeldetWeiter
<1> QED BY <1>2, <1>4, <1>5, <1>15, <1>16, MeldBeide

(***************************************************************************)
(* Sending: channel c of s to its other end, channel g.                    *)
(***************************************************************************)
DarfBekommen(g, tel) == g.stichdatum > 0 => tel.art \in {"Quittung", "Fehler"}

DarfSenden(s, c, g, tel, B, N, z) ==
    /\ Belegtes(tel, s, B, N, z) /\ DarfBekommen(g, tel)
    /\ c.stichdatum > 0 => tel.art \in {"Auskunft", "Ende"}

(* What is said of the entries by a telegram from c to g. *)
MeldetRichtig(s, c, g, tel, B, Z, N) ==
    \A n \in Nummer :
        /\ Zustaendig(c.partner, g, n, B, N) /\ tel.art = "Quittung" => Uebrig(c.partner, g, n, B, Z)
        /\ Zustaendig(s, c, n, B, N) /\ tel.art = "Auskunft" =>
              \/ Uebrig(s, c, n, B, Z)
              \/ tel.nr = n /\ tel.eintrag.datum >= B[s][n].datum

LEMMA EinsLang ==
    ASSUME NEW q, NEW t, q = << t >>
    PROVE  Len(q) = 1 /\ Len(q) <= 1
OBVIOUS

(* A channel as before, with a telegram to read. *)
MitPost(h, g, tel) == h = [g EXCEPT !.ein = << tel >>]

LEMMA EinGesetzt ==
    ASSUME NEW g \in Kanal, NEW tel, NEW h, MitPost(h, g, tel)
    PROVE  /\ h.ein = << tel >> /\ h.ende = g.ende /\ h.partner = g.partner /\ h.gegen = g.gegen
           /\ h.offen = g.offen /\ h.stichdatum = g.stichdatum /\ h.gestartet = g.gestartet
           /\ h.vollabfrage = g.vollabfrage /\ h.rest = g.rest /\ h.fertig = g.fertig
BY DEF Kanal, MitPost

(* Both ends. *)
Verbunden(K, s, k, p, q) ==
    K[s][k].ende = "Kanal" /\ p = K[s][k].partner /\ q = K[s][k].gegen

LEMMA Enden ==
    ASSUME NEW K \in Netze, NEW B, NEW N, NEW z, NetzGut(K, B, N, z),
           NEW s \in Server, NEW k \in Kanaele, NEW p, NEW q, Verbunden(K, s, k, p, q)
    PROVE  /\ p \in Server /\ p # s /\ q \in Kanaele
           /\ K[s][k] \in Kanal /\ K[p][q] \in Kanal /\ K[s][k].offen /\ K[p][q].offen
           /\ K[p][q].ende = "Kanal" /\ K[p][q].partner = s /\ K[p][q].gegen = k
           /\ PaarGut(s, k, K[s][k], K[p][q]) /\ PaarGut(p, q, K[p][q], K[s][k])
           /\ KanalGut(s, k, K[s][k], B, N, z) /\ KanalGut(p, q, K[p][q], B, N, z)
           /\ Verbunden(K, p, q, s, k)
<1>1. /\ p \in Server /\ p # s /\ q \in Kanaele
      /\ K[s][k] \in Kanal /\ K[p][q] \in Kanal /\ K[s][k].offen /\ K[p][q].offen
      /\ PaarGut(s, k, K[s][k], K[p][q]) /\ PaarGut(p, q, K[p][q], K[s][k])
  BY Gegenueber DEF Verbunden
<1>2. K[p][q].ende = "Kanal" /\ K[p][q].partner = s /\ K[p][q].gegen = k BY <1>1 DEF PaarGut
<1>3. KanalGut(s, k, K[s][k], B, N, z) /\ KanalGut(p, q, K[p][q], B, N, z) BY <1>1 DEF NetzGut
<1>4. Verbunden(K, p, q, s, k) BY <1>2 DEF Verbunden
<1> QED BY <1>1, <1>2, <1>3, <1>4

(* Channel q of p gets a telegram. *)
Bekommt(K2, K, p, q, tel) ==
    Nur(K2, K, p, q) /\ MitPost(K2[p][q], K[p][q], tel)

LEMMA KanalBekommt ==
    ASSUME NEW p, NEW q, NEW s, NEW B, NEW N, NEW z, NEW g \in Kanal, NEW tel \in Telegramm,
           KanalGut(p, q, g, B, N, z), g.ende = "Kanal", g.partner = s, s # Keiner,
           Belegtes(tel, s, B, N, z), DarfBekommen(g, tel),
           NEW h, MitPost(h, g, tel)
    PROVE  h \in Kanal /\ Post(h) = {tel} /\ KanalGut(p, q, h, B, N, z)
<1> DEFINE e == << tel >>
<1>1. e \in Seq(Telegramm) /\ Len(e) = 1 OBVIOUS
<1>2. h.ein = e BY EinGesetzt
<1>3. Post(h) = {tel} BY <1>2, PostEins
<1>4. h \in Kanal
  <2>1. h = [g EXCEPT !.ein = e] BY DEF MitPost
  <2> HIDE DEF e
  <2> QED BY <1>1, <2>1 DEF Kanal
<1>5. /\ h.ende = "Kanal" /\ h.partner = s /\ h.offen = g.offen /\ h.stichdatum = g.stichdatum
      /\ h.gestartet = g.gestartet /\ h.vollabfrage = g.vollabfrage
  BY EinGesetzt
<1>6. FremdGut(h) BY <1>5 DEF FremdGut
<1>7. ServerGut(p, h, B, N, z) BY <1>3, <1>5 DEF KanalGut, ServerGut
<1>8. WartetGut(q, h) BY <1>5 DEF WartetGut
<1>9. MelderGut(q, h) BY <1>3, <1>5 DEF KanalGut, MelderGut, DarfBekommen
<1>10. Len(h.ein) <= 1 BY <1>2, EinsLang
<1>11. h.offen BY <1>5 DEF KanalGut
<1>12. KanalGut(p, q, h, B, N, z) BY <1>6, <1>7, <1>8, <1>9, <1>10, <1>11 DEF KanalGut
<1> QED BY <1>3, <1>4, <1>12

LEMMA NetzGesendet ==
    ASSUME NEW K \in Netze, NEW K2 \in Netze, NEW B, NEW N, NEW z, NetzGut(K, B, N, z),
           NEW s \in Server, NEW k \in Kanaele, NEW p, NEW q, NEW tel \in Telegramm,
           Verbunden(K, s, k, p, q),
           K[s][k].ein = << >>, K[p][q].ein = << >>, DarfSenden(s, K[s][k], K[p][q], tel, B, N, z),
           Bekommt(K2, K, p, q, tel)
    PROVE  NetzGut(K2, B, N, z)
<1> DEFINE c == K[s][k]
           g == K[p][q]
           h == K2[p][q]
<1>1. /\ p \in Server /\ p # s /\ q \in Kanaele /\ c \in Kanal /\ g \in Kanal /\ g.offen
      /\ PaarGut(s, k, c, g) /\ PaarGut(p, q, g, c)
  BY Enden
<1>2. g.ende = "Kanal" /\ g.partner = s /\ g.gegen = k BY Enden
<1>3. /\ KanalGut(s, k, c, B, N, z) /\ KanalGut(p, q, g, B, N, z) BY Enden
<1>4. s # Keiner BY Groessen
<1>5. Post(h) = {tel} /\ KanalGut(p, q, h, B, N, z)
  <2>1. Belegtes(tel, s, B, N, z) /\ DarfBekommen(g, tel) BY DEF DarfSenden
  <2>2. MitPost(h, g, tel) BY DEF Bekommt
  <2>3. g \in Kanal /\ g.ende = "Kanal" /\ g.partner = s /\ g.offen BY <1>1, <1>2
  <2> HIDE DEF g, h
  <2>4. KanalGut(p, q, g, B, N, z) BY <1>3 DEF g
  <2>5. Post(h) = {tel} BY <2>2, <2>3, EinGesetzt, PostEins
  <2>6. KanalGut(p, q, h, B, N, z) BY <1>4, <2>1, <2>2, <2>3, <2>4, KanalBekommt
  <2> QED BY <2>5, <2>6
<1>6. /\ h.ende = "Kanal" /\ h.partner = s /\ h.gegen = k /\ h.stichdatum = g.stichdatum
      /\ h.gestartet = g.gestartet /\ h.vollabfrage = g.vollabfrage /\ Len(h.ein) = 1
  <2>1. MitPost(h, g, tel) /\ g \in Kanal BY <1>1 DEF Bekommt
  <2> HIDE DEF g, h
  <2>2. h.ein = << tel >> BY <2>1, EinGesetzt
  <2>3. Len(h.ein) = 1 BY <2>2, EinsLang
  <2> QED BY <1>2, <2>1, <2>3, EinGesetzt
<1>7. Len(c.ein) = 0 /\ Post(c) = {} BY PostLeer, EmptySeq
<1>8. K2[s][k] = c BY <1>1 DEF Bekommt, Nur
<1>9. c.stichdatum > 0 => tel.art \in {"Anmeldung", "Auskunft", "Ende"} BY DEF DarfSenden
<1>10. NurBeide(K2, K, s, k, p, q) BY DEF Bekommt, Nur, NurBeide
<1> HIDE DEF c, g, h
<1>11. Len(c.ein) + Len(h.ein) <= 1 /\ Len(h.ein) + Len(c.ein) <= 1 BY <1>6, <1>7
<1>12. PaarGut(s, k, c, h) BY <1>1, <1>5, <1>6, <1>9, <1>11 DEF PaarGut
<1>13. PaarGut(p, q, h, c) BY <1>1, <1>6, <1>7, <1>11 DEF PaarGut
<1>14. c.ende = "Kanal" /\ c.partner = p /\ c.gegen = q BY DEF Verbunden, c
<1> QED
  BY <1>1, <1>2, <1>3, <1>5, <1>6, <1>8, <1>10, <1>12, <1>13, <1>14, NetzBeide DEF c, g, h

LEMMA SyncPaar ==
    ASSUME NEW s \in Server, NEW K, NEW B, NEW Z, NEW N, SyncGut(s, K, B, Z, N),
           NEW p, NEW q, Verbunden(K, s, 0, p, q), NEW n \in Nummer, Zustaendig(s, K[s][0], n, B, N)
    PROVE  DialogGut(s, K[s][0], K[p][q], n, B, Z)
BY DEF SyncGut, Verbunden

LEMMA SyncPaarGilt ==
    ASSUME NEW s \in Server, NEW K, NEW B, NEW Z, NEW N, NEW p, NEW q, Verbunden(K, s, 0, p, q),
           \A n \in Nummer : Zustaendig(s, K[s][0], n, B, N) => DialogGut(s, K[s][0], K[p][q], n, B, Z)
    PROVE  SyncGut(s, K, B, Z, N)
BY DEF SyncGut, Verbunden

LEMMA MeldGesendet ==
    ASSUME NEW K \in Netze, NEW K2 \in Netze, NEW B \in Buecher, NEW N, NEW z, NetzGut(K, B, N, z),
           NEW Z \in [Server -> Zeilen], NEW L, MeldungGut(K, B, Z, L, N),
           NEW s \in Server, NEW k \in Kanaele, NEW p, NEW q, NEW tel \in Telegramm,
           Verbunden(K, s, k, p, q),
           K[s][k].ein = << >>, K[p][q].ein = << >>, DarfSenden(s, K[s][k], K[p][q], tel, B, N, z),
           MeldetRichtig(s, K[s][k], K[p][q], tel, B, Z, N),
           Bekommt(K2, K, p, q, tel)
    PROVE  MeldungGut(K2, B, Z, L, N)
<1> DEFINE c == K[s][k]
           g == K[p][q]
           h == K2[p][q]
<1>1. /\ p \in Server /\ p # s /\ q \in Kanaele /\ c \in Kanal /\ g \in Kanal /\ g.offen
      /\ PaarGut(s, k, c, g) /\ PaarGut(p, q, g, c)
  BY Enden
<1>2. g.ende = "Kanal" /\ g.partner = s /\ g.gegen = k BY Enden
<1>3. /\ h.ende = "Kanal" /\ h.partner = s /\ h.gegen = k /\ h.stichdatum = g.stichdatum
      /\ h.rest = g.rest /\ h.fertig = g.fertig /\ h.offen = g.offen /\ h.ein = << tel >>
  <2>1. MitPost(h, g, tel) /\ g \in Kanal BY <1>1 DEF Bekommt
  <2> HIDE DEF g, h
  <2> QED BY <1>2, <2>1, EinGesetzt
<1>4. Post(h) = {tel} /\ Post(c) = {} /\ Post(g) = {} BY <1>3, PostEins, PostLeer
<1>5. K2[s][k] = c BY <1>1 DEF Bekommt, Nur
<1>6. NurPaar(K2, K, s, k, p, q)
  <2>1. NurBeide(K2, K, s, k, p, q) BY DEF Bekommt, Nur, NurBeide
  <2> QED BY <1>2, <2>1 DEF NurPaar, Verbunden
<1>7. Zurueck(Z, Z) BY ZurueckSelbst
<1>8. ASSUME k = 0, NEW n \in Nummer, Zustaendig(s, c, n, B, N)
      PROVE  DialogGut(s, c, h, n, B, Z)
  <2>1. DialogGut(s, c, g, n, B, Z) BY <1>8, SyncPaar DEF MeldungGut
  <2>2. tel.art \in {"Auskunft", "Ende"} BY <1>8 DEF DarfSenden, Zustaendig
  <2>3. tel.art = "Auskunft" => \/ Uebrig(s, c, n, B, Z)
                                \/ tel.nr = n /\ tel.eintrag.datum >= B[s][n].datum
    BY <1>8 DEF MeldetRichtig
  <2> HIDE DEF c, g, h
  <2> QED BY <1>4, <2>1, <2>2, <2>3 DEF DialogGut
<1>9. ASSUME q = 0, NEW n \in Nummer, Zustaendig(p, h, n, B, N)
      PROVE  DialogGut(p, h, c, n, B, Z)
  <2>1. Zustaendig(p, g, n, B, N)
    <3> HIDE DEF g, h
    <3> QED BY <1>2, <1>3, <1>9 DEF Zustaendig
  <2>2. DialogGut(p, g, c, n, B, Z)
    <3>1. Verbunden(K, p, 0, s, k) BY <1>9, Enden
    <3>2. SyncGut(p, K, B, Z, N) BY <1>1 DEF MeldungGut
    <3>3. Zustaendig(p, K[p][0], n, B, N) BY <1>9, <2>1
    <3>4. DialogGut(p, K[p][0], K[s][k], n, B, Z) BY <1>1, <3>1, <3>2, <3>3, SyncPaar
    <3>5. g = K[p][0] /\ c = K[s][k] BY <1>9
    <3> QED BY <3>4, <3>5
  <2>3. tel.art = "Quittung" => Uebrig(p, g, n, B, Z) BY <2>1 DEF MeldetRichtig, Verbunden
  <2>4. Uebrig(p, g, n, B, Z) => Uebrig(p, h, n, B, Z) BY <1>2, <1>3 DEF Uebrig
  <2> HIDE DEF c, g, h
  <2> QED BY <1>2, <1>3, <1>4, <2>2, <2>3, <2>4 DEF DialogGut
<1>10. k = 0 => MeldetWeiter(s, K, K2, B, Z, N)
  <2>1. k = 0 => SyncGut(s, K2, B, Z, N)
    <3>1. Verbunden(K2, s, k, p, q) BY <1>5 DEF Verbunden
    <3> QED BY <1>5, <1>8, <3>1, SyncPaarGilt
  <2>2. k = 0 => \A t \in Server, n \in Nummer : Laeuft(s, t, n, K, B) => Laeuft(s, t, n, K2, B)
    BY <1>5 DEF Laeuft
  <2> QED BY <2>1, <2>2 DEF MeldetWeiter
<1>11. q = 0 => MeldetWeiter(p, K, K2, B, Z, N)
  <2>1. q = 0 => SyncGut(p, K2, B, Z, N)
    <3>1. Verbunden(K2, p, q, s, k) BY <1>3 DEF Verbunden
    <3> QED BY <1>1, <1>5, <1>9, <3>1, SyncPaarGilt
  <2>2. ASSUME q = 0, NEW t \in Server, NEW n \in Nummer, Laeuft(p, t, n, K, B)
        PROVE  Laeuft(p, t, n, K2, B)
    <3>1. /\ g.offen /\ g.partner = t /\ ~g.fertig /\ g.stichdatum > 0
          /\ g.stichdatum <= B[p][n].datum
      BY <2>2 DEF Laeuft
    <3>2. /\ h.offen /\ h.partner = t /\ ~h.fertig /\ h.stichdatum > 0
          /\ h.stichdatum <= B[p][n].datum
      <4> HIDE DEF g, h
      <4> QED BY <1>2, <1>3, <3>1
    <3> QED BY <2>2, <3>2 DEF Laeuft
  <2> QED BY <2>1, <2>2 DEF MeldetWeiter
<1> HIDE DEF c, g, h
<1> QED BY <1>1, <1>6, <1>7, <1>10, <1>11, MeldBeide

(***************************************************************************)
(* Closing: the channel is free, or left by its other end.                 *)
(***************************************************************************)
LEMMA ZuGesetzt ==
    ASSUME NEW K \in Netze, NEW p \in Server, NEW q \in Kanaele
    PROVE  LET K2 == [K EXCEPT ![p][q].ende = "zu"]
           IN  K2 \in Netze /\ Verlassen(K2[p][q], K[p][q]) /\ Nur(K2, K, p, q)
<1> DEFINE d == [K[p][q] EXCEPT !.ende = "zu"]
           K2 == [K EXCEPT ![p][q].ende = "zu"]
<1>1. K[p][q] \in Kanal BY DEF Netze
<1>2. d \in Kanal BY <1>1 DEF Kanal
<1>3. Setzt(K2, K, p, q, d) BY DEF Netze, Setzt
<1> HIDE DEF K2, d
<1>4. K2 \in Netze /\ K2[p][q] = d /\ Nur(K2, K, p, q) BY <1>2, <1>3, Gesetzt
<1> QED BY <1>4 DEF K2, d, Verlassen

LEMMA VerlassenFelder ==
    ASSUME NEW c \in Kanal, NEW d, Verlassen(d, c), NEW s, NEW k, NEW B, NEW N, NEW z,
           KanalGut(s, k, c, B, N, z)
    PROVE  /\ d \in Kanal /\ KanalGut(s, k, d, B, N, z) /\ d.ende = "zu" /\ d.ein = c.ein
           /\ d.offen = c.offen /\ d.partner = c.partner /\ d.stichdatum = c.stichdatum
           /\ d.fertig = c.fertig /\ d.rest = c.rest
BY VerlassenGut DEF Verlassen

LEMMA WeiterVerlassen ==
    ASSUME NEW K \in Netze, NEW K2 \in Netze, NEW B \in Buecher, NEW N, NEW z, NetzGut(K, B, N, z),
           NEW Z \in [Server -> Zeilen], NEW Z2 \in [Server -> Zeilen], Zurueck(Z2, Z),
           NEW u \in Server, Verlassen(K2[u][0], K[u][0]), SyncGut(u, K, B, Z, N)
    PROVE  MeldetWeiter(u, K, K2, B, Z2, N)
<1> DEFINE c == K[u][0]
           d == K2[u][0]
<1>1. 0 \in Kanaele BY Groessen
<1>2. c \in Kanal /\ KanalGut(u, 0, c, B, N, z) BY <1>1 DEF Netze, NetzGut
<1>3. /\ d.ende = "zu" /\ d.ein = c.ein
      /\ d.offen = c.offen /\ d.partner = c.partner /\ d.stichdatum = c.stichdatum
      /\ d.fertig = c.fertig /\ d.rest = c.rest
  <2> HIDE DEF c, d
  <2>1. Verlassen(d, c) BY DEF c, d
  <2> QED BY <1>2, <2>1, VerlassenFelder
<1>4. Post(d) = Post(c) BY <1>3 DEF Post
<1>5. ASSUME NEW n \in Nummer, NEW h, Zustaendig(u, d, n, B, N)
      PROVE  DialogGut(u, d, h, n, B, Z2)
  <2>1. Zustaendig(u, c, n, B, N) BY <1>3, <1>5 DEF Zustaendig
  <2>2. PICK g : DialogGut(u, c, g, n, B, Z) BY <2>1 DEF SyncGut
  <2>3. c.partner \in Server BY <2>1, MeldetServer DEF Zustaendig
  <2>4. DialogGut(u, c, g, n, B, Z2) BY <2>2, <2>3, DialogZurueck
  <2> HIDE DEF c, d
  <2>5. Uebrig(u, c, n, B, Z2) => Uebrig(u, d, n, B, Z2) BY <1>3 DEF Uebrig
  <2> QED BY <1>3, <1>4, <2>4, <2>5 DEF DialogGut
<1>6. ASSUME NEW t \in Server, NEW n \in Nummer, Laeuft(u, t, n, K, B)
      PROVE  Laeuft(u, t, n, K2, B)
  BY <1>3, <1>6 DEF Laeuft
<1>7. SyncGut(u, K2, B, Z2, N) BY <1>5 DEF SyncGut
<1> QED BY <1>6, <1>7 DEF MeldetWeiter

(* What a channel that is given up has not reported. *)
Abgemeldet(u, c, B, Z, N) ==
    \A n \in Nummer : Zustaendig(u, c, n, B, N) /\ ~c.fertig => Gemeldet(u, c.partner, n, B, Z)

LEMMA WeiterFrei ==
    ASSUME NEW K \in Netze, NEW K2, NEW B \in Buecher, NEW N, NEW Z2,
           NEW u \in Server, K2[u][0].offen = FALSE, Abgemeldet(u, K[u][0], B, Z2, N)
    PROVE  MeldetWeiter(u, K, K2, B, Z2, N)
<1>1. SyncGut(u, K2, B, Z2, N) BY DEF SyncGut, Zustaendig
<1>2. ASSUME NEW t \in Server, NEW n \in Nummer,
             Gemeinsam(u, t, n), N[u] = 0, N[t] = 0, Laeuft(u, t, n, K, B)
      PROVE  Gemeldet(u, t, n, B, Z2)
  <2>1. K[u][0] \in Kanal BY Groessen DEF Netze
  <2>2. K[u][0].stichdatum \in Int BY <2>1 DEF Kanal
  <2>3. B[u][n].datum \in Int BY DEF Buecher, Eintrag
  <2>4. K[u][0].partner = t /\ ~K[u][0].fertig BY <1>2 DEF Laeuft
  <2>5. Zustaendig(u, K[u][0], n, B, N) BY <1>2, <2>2, <2>3 DEF Zustaendig, Laeuft
  <2> QED BY <2>4, <2>5 DEF Abgemeldet
<1> QED BY <1>1, <1>2 DEF MeldetWeiter

(* The other end of a closed channel. *)
LEMMA SchliessenWirkung ==
    ASSUME NEW K \in Netze, NEW B, NEW N, NEW z, NetzGut(K, B, N, z),
           NEW s \in Server, NEW k \in Kanaele
    PROVE  LET K2 == Schliessen(K, s, k)
           IN  /\ K2 \in Netze /\ Frei(K2[s][k], K[s][k])
               /\ K[s][k].ende # "Kanal" => Nur(K2, K, s, k)
               /\ \A p \in Server, q \in Kanaele : Verbunden(K, s, k, p, q) =>
                     Verlassen(K2[p][q], K[p][q]) /\ NurBeide(K2, K, s, k, p, q)
<1> DEFINE c == K[s][k]
           d == [FreierKanal EXCEPT !.freigabe = c.freigabe]
           K1 == [K EXCEPT ![s][k] = d]
           K2 == Schliessen(K, s, k)
<1>1. c \in Kanal BY DEF Netze
<1>2. d \in Kanal /\ Frei(d, c)
  <2>1. Frei(d, c) BY DEF Frei
  <2> HIDE DEF c, d
  <2> QED BY <1>1, <2>1, FreiFelder
<1> HIDE DEF d
<1>3. K1 \in Netze /\ K1[s][k] = d /\ Nur(K1, K, s, k)
  <2>1. Setzt(K1, K, s, k, d) BY DEF Setzt
  <2> HIDE DEF K1
  <2> QED BY <1>2, <2>1, Gesetzt
<1>4. CASE c.ende # "Kanal"
  <2>1. K2 = K1 BY <1>4 DEF Schliessen, HatGegenueber, d
  <2> HIDE DEF K1, K2
  <2>2. \A p, q : ~Verbunden(K, s, k, p, q) BY <1>4 DEF Verbunden
  <2> QED BY <1>2, <1>3, <2>1, <2>2 DEF K2
<1>5. CASE c.ende = "Kanal"
  <2> DEFINE p == c.partner
             q == c.gegen
  <2>1. p \in Server /\ p # s /\ q \in Kanaele BY <1>5, Gegenueber
  <2>2. K2 = [K1 EXCEPT ![p][q].ende = "zu"] BY <1>5 DEF Schliessen, HatGegenueber, d
  <2> HIDE DEF K1, K2, p, q, c
  <2>3. K2 \in Netze /\ Verlassen(K2[p][q], K1[p][q]) /\ Nur(K2, K1, p, q)
    BY <1>3, <2>1, <2>2, ZuGesetzt
  <2>4. K1[p][q] = K[p][q] /\ K2[s][k] = d BY <1>3, <2>1, <2>3 DEF Nur
  <2>5. NurBeide(K2, K, s, k, p, q) BY <1>3, <2>3 DEF Nur, NurBeide
  <2>6. \A p2, q2 : Verbunden(K, s, k, p2, q2) => p2 = p /\ q2 = q BY DEF Verbunden, c, p, q
  <2> QED BY <1>2, <1>5, <2>3, <2>4, <2>5, <2>6 DEF K2, c
<1> QED BY <1>4, <1>5

(***************************************************************************)
(* The invariant, when a channel is closed or left.                        *)
(***************************************************************************)
LEMMA NetzGetrennt ==
    ASSUME NEW K \in Netze, NEW K2 \in Netze, NEW B, NEW N, NEW z, NetzGut(K, B, N, z),
           NEW s \in Server, NEW k \in Kanaele, NEW p, NEW q, Verbunden(K, s, k, p, q),
           NurBeide(K2, K, s, k, p, q), Verlassen(K2[p][q], K[p][q]),
           Verlassen(K2[s][k], K[s][k]) \/ Frei(K2[s][k], K[s][k])
    PROVE  NetzGut(K2, B, N, z)
<1>1. /\ p \in Server /\ q \in Kanaele
      /\ K[s][k] \in Kanal /\ K[p][q] \in Kanal
      /\ KanalGut(s, k, K[s][k], B, N, z) /\ KanalGut(p, q, K[p][q], B, N, z)
      /\ Verbunden(K, p, q, s, k)
  BY Enden
<1>2. KanalGut(p, q, K2[p][q], B, N, z) /\ K2[p][q].ende = "zu" BY <1>1, VerlassenFelder
<1>3. KanalGut(s, k, K2[s][k], B, N, z) /\ K2[s][k].ende = "zu"
  <2>1. CASE Verlassen(K2[s][k], K[s][k]) BY <1>1, <2>1, VerlassenFelder
  <2>2. CASE Frei(K2[s][k], K[s][k]) BY <1>1, <2>2, FreiFelder
  <2> QED BY <2>1, <2>2
<1>4. /\ K[s][k].ende = "Kanal" => K[s][k].partner = p /\ K[s][k].gegen = q
      /\ K[p][q].ende = "Kanal" => K[p][q].partner = s /\ K[p][q].gegen = k
  BY <1>1 DEF Verbunden
<1>5. K2[s][k].ende # "Kanal" /\ K2[p][q].ende # "Kanal" BY <1>2, <1>3
<1> QED BY <1>1, <1>2, <1>3, <1>4, <1>5, NetzBeide

LEMMA NetzVerlassen ==
    ASSUME NEW K \in Netze, NEW K2 \in Netze, NEW B, NEW N, NEW z, NetzGut(K, B, N, z),
           NEW s \in Server, NEW k \in Kanaele, K[s][k].ende # "Kanal", Nur(K2, K, s, k),
           Verlassen(K2[s][k], K[s][k]) \/ Frei(K2[s][k], K[s][k])
    PROVE  NetzGut(K2, B, N, z)
<1>1. K[s][k] \in Kanal /\ KanalGut(s, k, K[s][k], B, N, z) BY DEF Netze, NetzGut
<1>2. KanalGut(s, k, K2[s][k], B, N, z) /\ K2[s][k].ende = "zu"
  BY <1>1, VerlassenFelder, FreiFelder
<1> QED BY <1>2, NetzErsetzt

LEMMA MeldVerlassen ==
    ASSUME NEW K \in Netze, NEW K2 \in Netze, NEW B \in Buecher, NEW N, NEW z, NetzGut(K, B, N, z),
           NEW Z \in [Server -> Zeilen], NEW Z2 \in [Server -> Zeilen], Zurueck(Z2, Z),
           NEW L, MeldungGut(K, B, Z, L, N), NEW s \in Server, NEW k \in Kanaele,
           \/ Verlassen(K2[s][k], K[s][k])
           \/ Frei(K2[s][k], K[s][k]) /\ (k = 0 => Abgemeldet(s, K[s][0], B, Z2, N))
    PROVE  k = 0 => MeldetWeiter(s, K, K2, B, Z2, N)
<1> SUFFICES ASSUME k = 0 PROVE MeldetWeiter(s, K, K2, B, Z2, N) OBVIOUS
<1>1. CASE Verlassen(K2[s][0], K[s][0])
  <2>1. SyncGut(s, K, B, Z, N) BY DEF MeldungGut
  <2> QED BY <1>1, <2>1, WeiterVerlassen
<1>2. CASE Frei(K2[s][0], K[s][0]) /\ Abgemeldet(s, K[s][0], B, Z2, N)
  <2>1. K[s][0] \in Kanal BY Groessen DEF Netze
  <2>2. K2[s][0].offen = FALSE BY <1>2, <2>1, FreiFelder
  <2> QED BY <1>2, <2>2, WeiterFrei
<1> QED BY <1>1, <1>2

LEMMA MeldGetrennt ==
    ASSUME NEW K \in Netze, NEW K2 \in Netze, NEW B \in Buecher, NEW N, NEW z, NetzGut(K, B, N, z),
           NEW Z \in [Server -> Zeilen], NEW Z2 \in [Server -> Zeilen], Zurueck(Z2, Z),
           NEW L, MeldungGut(K, B, Z, L, N),
           NEW s \in Server, NEW k \in Kanaele, NEW p, NEW q, Verbunden(K, s, k, p, q),
           NurBeide(K2, K, s, k, p, q), Verlassen(K2[p][q], K[p][q]),
           \/ Verlassen(K2[s][k], K[s][k])
           \/ Frei(K2[s][k], K[s][k]) /\ (k = 0 => Abgemeldet(s, K[s][0], B, Z2, N))
    PROVE  MeldungGut(K2, B, Z2, L, N)
<1>1. p \in Server /\ q \in Kanaele /\ Verbunden(K, p, q, s, k) BY Enden
<1>2. NurPaar(K2, K, s, k, p, q) BY <1>1 DEF NurPaar, Verbunden
<1>3. k = 0 => MeldetWeiter(s, K, K2, B, Z2, N) BY MeldVerlassen
<1>4. q = 0 => MeldetWeiter(p, K, K2, B, Z2, N) BY <1>1, MeldVerlassen
<1> QED BY <1>1, <1>2, <1>3, <1>4, MeldBeide

LEMMA MeldAllein ==
    ASSUME NEW K \in Netze, NEW K2 \in Netze, NEW B \in Buecher, NEW N, NEW z, NetzGut(K, B, N, z),
           NEW Z \in [Server -> Zeilen], NEW Z2 \in [Server -> Zeilen], Zurueck(Z2, Z),
           NEW L, MeldungGut(K, B, Z, L, N), NEW s \in Server, NEW k \in Kanaele,
           K[s][k].ende # "Kanal", Nur(K2, K, s, k), k = 0 => MeldetWeiter(s, K, K2, B, Z2, N)
    PROVE  MeldungGut(K2, B, Z2, L, N)
<1>1. NurPaar(K2, K, s, k, s, k) BY DEF Nur, NurBeide, NurPaar
<1> QED BY <1>1, MeldBeide

LEMMA RestVerlassen ==
    ASSUME NEW K \in Netze, NEW K2 \in Netze, NEW B, NEW N, NEW z, NetzGut(K, B, N, z), RestGut(K, B),
           NEW s \in Server, NEW k \in Kanaele,
           Verlassen(K2[s][k], K[s][k]) \/ Frei(K2[s][k], K[s][k]),
           K[s][k].ende # "Kanal" => Nur(K2, K, s, k),
           \A p \in Server, q \in Kanaele : Verbunden(K, s, k, p, q) =>
               Verlassen(K2[p][q], K[p][q]) /\ NurBeide(K2, K, s, k, p, q)
    PROVE  RestGut(K2, B)
<1>1. \A u \in Server, j \in Kanaele : K[u][j] \in Kanal BY DEF Netze
<1>2. \A c \in Kanal : \A d : Verlassen(d, c) => d.rest = c.rest BY DEF Verlassen, Kanal
<1>3. \A c \in Kanal : \A d : Frei(d, c) => d.rest = {} BY DEF Frei, FreierKanal
<1>4. K2[s][k].rest \subseteq K[s][k].rest BY <1>1, <1>2, <1>3
<1>5. CASE K[s][k].ende # "Kanal" BY <1>4, <1>5 DEF RestGut, Nur
<1>6. CASE K[s][k].ende = "Kanal"
  <2> DEFINE p == K[s][k].partner
             q == K[s][k].gegen
  <2>1. Verbunden(K, s, k, p, q) BY <1>6 DEF Verbunden
  <2>2. p \in Server /\ q \in Kanaele BY <2>1, Enden
  <2> HIDE DEF p, q
  <2>3. K2[p][q].rest = K[p][q].rest BY <1>1, <1>2, <2>1, <2>2
  <2>4. NurBeide(K2, K, s, k, p, q) BY <2>1, <2>2
  <2> QED BY <1>4, <2>3, <2>4 DEF RestGut, NurBeide
<1> QED BY <1>5, <1>6

LEMMA GutSchliessen ==
    ASSUME NEW K, NEW B, NEW Z, NEW L, NEW N, NEW z, Gut(K, B, Z, L, N, z),
           NEW s \in Server, NEW k \in Kanaele, NEW Z2 \in [Server -> Zeilen], Zurueck(Z2, Z),
           ~Verkuerzt => (k = 0 => Abgemeldet(s, K[s][0], B, Z2, N)),
           NEW K2, K2 = Schliessen(K, s, k)
    PROVE  Gut(K2, B, Z2, L, N, z)
<1>1. /\ Werte(K, B, Z, L, N, z) /\ NetzGut(K, B, N, z) /\ RestGut(K, B) /\ K \in Netze /\ B \in Buecher
      /\ Z \in [Server -> Zeilen]
  BY DEF Gut, Werte
<1>2. /\ K2 \in Netze /\ Frei(K2[s][k], K[s][k])
      /\ K[s][k].ende # "Kanal" => Nur(K2, K, s, k)
      /\ \A p \in Server, q \in Kanaele : Verbunden(K, s, k, p, q) =>
            Verlassen(K2[p][q], K[p][q]) /\ NurBeide(K2, K, s, k, p, q)
  BY <1>1, SchliessenWirkung
<1>5. RestGut(K2, B) BY <1>1, <1>2, RestVerlassen
<1>3. CASE K[s][k].ende = "Kanal"
  <2> DEFINE p == K[s][k].partner
             q == K[s][k].gegen
  <2>1. Verbunden(K, s, k, p, q) BY <1>3 DEF Verbunden
  <2>2. p \in Server /\ q \in Kanaele BY <1>1, <2>1, Enden
  <2> HIDE DEF p, q
  <2>3. Verlassen(K2[p][q], K[p][q]) /\ NurBeide(K2, K, s, k, p, q) BY <1>2, <2>1, <2>2
  <2>4. NetzGut(K2, B, N, z) BY <1>1, <1>2, <2>1, <2>3, NetzGetrennt
  <2>5. ~Verkuerzt => MeldungGut(K2, B, Z2, L, N)
    <3> SUFFICES ASSUME ~Verkuerzt PROVE MeldungGut(K2, B, Z2, L, N) OBVIOUS
    <3>1. MeldungGut(K, B, Z, L, N) BY DEF Gut
    <3> QED BY <1>1, <1>2, <2>1, <2>3, <3>1, MeldGetrennt
  <2> QED BY <1>1, <1>2, <1>5, <2>4, <2>5 DEF Gut, Werte
<1>4. CASE K[s][k].ende # "Kanal"
  <2>1. NetzGut(K2, B, N, z) BY <1>1, <1>2, <1>4, NetzVerlassen
  <2>2. ~Verkuerzt => MeldungGut(K2, B, Z2, L, N)
    <3> SUFFICES ASSUME ~Verkuerzt PROVE MeldungGut(K2, B, Z2, L, N) OBVIOUS
    <3>1. MeldungGut(K, B, Z, L, N) BY DEF Gut
    <3>2. k = 0 => MeldetWeiter(s, K, K2, B, Z2, N) BY <1>1, <1>2, <3>1, MeldVerlassen
    <3> QED BY <1>1, <1>2, <1>4, <3>1, <3>2, MeldAllein
  <2> QED BY <1>1, <1>2, <1>5, <2>1, <2>2 DEF Gut, Werte
<1> QED BY <1>3, <1>4

(* A connection ends, with or without an other end. *)
LEMMA GutVerlassen ==
    ASSUME NEW K, NEW B, NEW Z, NEW L, NEW N, NEW z, Gut(K, B, Z, L, N, z),
           NEW s \in Server, NEW k \in Kanaele, NEW K2 \in Netze, Verlassen(K2[s][k], K[s][k]),
           K[s][k].ende # "Kanal" => Nur(K2, K, s, k),
           \A p \in Server, q \in Kanaele : Verbunden(K, s, k, p, q) =>
               Verlassen(K2[p][q], K[p][q]) /\ NurBeide(K2, K, s, k, p, q)
    PROVE  Gut(K2, B, Z, L, N, z)
<1>1. /\ Werte(K, B, Z, L, N, z) /\ NetzGut(K, B, N, z) /\ RestGut(K, B) /\ K \in Netze /\ B \in Buecher
      /\ Z \in [Server -> Zeilen] /\ Zurueck(Z, Z)
  BY ZurueckSelbst DEF Gut, Werte
<1>2. Werte(K2, B, Z, L, N, z) BY <1>1 DEF Werte
<1>5. RestGut(K2, B) BY <1>1, RestVerlassen
<1>3. CASE K[s][k].ende = "Kanal"
  <2> DEFINE p == K[s][k].partner
             q == K[s][k].gegen
  <2>1. Verbunden(K, s, k, p, q) BY <1>3 DEF Verbunden
  <2>2. p \in Server /\ q \in Kanaele BY <1>1, <2>1, Enden
  <2> HIDE DEF p, q
  <2>3. Verlassen(K2[p][q], K[p][q]) /\ NurBeide(K2, K, s, k, p, q) BY <2>1, <2>2
  <2>4. NetzGut(K2, B, N, z) BY <1>1, <2>1, <2>3, NetzGetrennt
  <2>5. MeldungGut(K, B, Z, L, N) => MeldungGut(K2, B, Z, L, N)
    BY <1>1, <2>1, <2>3, MeldGetrennt
  <2> QED BY <1>2, <1>5, <2>4, <2>5 DEF Gut
<1>4. CASE K[s][k].ende # "Kanal"
  <2>1. NetzGut(K2, B, N, z) BY <1>1, <1>4, NetzVerlassen
  <2>2. ASSUME MeldungGut(K, B, Z, L, N) PROVE MeldungGut(K2, B, Z, L, N)
    <3>1. k = 0 => MeldetWeiter(s, K, K2, B, Z, N) BY <1>1, <2>2, MeldVerlassen
    <3> QED BY <1>1, <1>4, <2>2, <3>1, MeldAllein
  <2> QED BY <1>2, <1>5, <2>1, <2>2 DEF Gut
<1> QED BY <1>3, <1>4

(***************************************************************************)
(* The invariant, when a channel has read.                                 *)
(***************************************************************************)
LEMMA GutFort ==
    ASSUME NEW K, NEW B, NEW Z, NEW L, NEW N, NEW z, Gut(K, B, Z, L, N, z),
           NEW s \in Server, NEW k \in Kanaele, NEW d \in Kanal, NEW K2, Setzt(K2, K, s, k, d),
           K[s][k].offen = TRUE, Fortgesetzt(K[s][k], d), K[s][k].ein # << >>, d.ein = << >>,
           \A n \in d.rest : B[s][n].datum > 0,
           K[s][k].stichdatum > 0 => Gleich(K[s][k], d),
           K[s][k].ende = "Kanal" /\ K[K[s][k].partner][K[s][k].gegen].stichdatum > 0
              => Gleich(K[s][k], d),
           ~Verkuerzt /\ k = 0 /\ K[s][0].stichdatum > 0 /\ d.fertig = TRUE =>
              \A n \in Nummer : Zustaendig(s, K[s][0], n, B, N) => Gemeldet(s, K[s][0].partner, n, B, Z)
    PROVE  Gut(K2, B, Z, L, N, z)
<1>1. /\ Werte(K, B, Z, L, N, z) /\ NetzGut(K, B, N, z) /\ RestGut(K, B) /\ K \in Netze /\ B \in Buecher
      /\ Z \in [Server -> Zeilen]
  BY DEF Gut, Werte
<1>2. K2 \in Netze /\ K2[s][k] = d /\ Nur(K2, K, s, k) BY <1>1, Gesetzt
<1>3. Werte(K2, B, Z, L, N, z) BY <1>1, <1>2 DEF Werte
<1>4. NetzGut(K2, B, N, z) BY <1>1, <1>2, NetzFort
<1>5. ASSUME ~Verkuerzt PROVE MeldungGut(K2, B, Z, L, N)
  <2>1. MeldungGut(K, B, Z, L, N) BY <1>5 DEF Gut
  <2>2. k = 0 /\ K[s][0].stichdatum > 0 /\ K2[s][0].fertig =>
           \A n \in Nummer : Zustaendig(s, K[s][0], n, B, N) => Gemeldet(s, K[s][0].partner, n, B, Z)
    <3>1. d.fertig \in BOOLEAN BY DEF Kanal
    <3> QED BY <1>2, <1>5, <3>1
  <2>3. Fortgesetzt(K[s][k], K2[s][k]) /\ K2[s][k].ein = << >> BY <1>2
  <2>4. K[s][k].stichdatum > 0 => Gleich(K[s][k], K2[s][k]) BY <1>2
  <2> QED BY <1>1, <1>2, <2>1, <2>2, <2>3, <2>4, MeldFort
<1>6. RestGut(K2, B) BY <1>1, <1>2 DEF RestGut, Nur
<1> QED BY <1>3, <1>4, <1>5, <1>6 DEF Gut

(***************************************************************************)
(* The invariant, when a channel answers.                                  *)
(***************************************************************************)
Darf(K, s, k, tel, B, Z, N, z) ==
    \A p \in Server, q \in Kanaele : Verbunden(K, s, k, p, q) =>
        /\ K[p][q].ein = << >> /\ DarfSenden(s, K[s][k], K[p][q], tel, B, N, z)
        /\ ~Verkuerzt => MeldetRichtig(s, K[s][k], K[p][q], tel, B, Z, N)

(* A client is told; what the channel reports has nothing to do with it.   *)
LEMMA GutFremd ==
    ASSUME NEW K, NEW B, NEW Z, NEW L, NEW N, NEW z, Gut(K, B, Z, L, N, z),
           NEW s \in Server, NEW k \in Kanaele, K[s][k].ende = "Fremd", NEW e \in Seq(Telegramm)
    PROVE  Gut([K EXCEPT ![s][k].aus = e], B, Z, L, N, z)
<1> DEFINE c == K[s][k]
           d == [c EXCEPT !.aus = e]
           K2 == [K EXCEPT ![s][k].aus = e]
<1>1. /\ Werte(K, B, Z, L, N, z) /\ NetzGut(K, B, N, z) /\ RestGut(K, B) /\ K \in Netze /\ B \in Buecher
      /\ Z \in [Server -> Zeilen] /\ Zurueck(Z, Z)
  BY ZurueckSelbst DEF Gut, Werte
<1>2. c \in Kanal /\ KanalGut(s, k, c, B, N, z) BY <1>1 DEF Netze, NetzGut
<1>3. d \in Kanal BY <1>2 DEF Kanal
<1>4. Setzt(K2, K, s, k, d) BY <1>1 DEF Setzt, Netze
<1>5. /\ d.ein = c.ein /\ d.ende = c.ende /\ d.partner = c.partner /\ d.gegen = c.gegen
      /\ d.offen = c.offen /\ d.stichdatum = c.stichdatum /\ d.gestartet = c.gestartet
      /\ d.vollabfrage = c.vollabfrage /\ d.freigabe = c.freigabe /\ d.rest = c.rest
  BY <1>2 DEF Kanal
<1>6. c.ende = "Fremd" OBVIOUS
<1> HIDE DEF K2, d, c
<1>7. K2 \in Netze /\ K2[s][k] = d /\ Nur(K2, K, s, k) BY <1>1, <1>3, <1>4, Gesetzt
<1>8. Post(d) = Post(c) BY <1>5 DEF Post
<1>9. KanalGut(s, k, d, B, N, z)
  <2>1. FremdGut(c) => FremdGut(d) BY <1>5, <1>8 DEF FremdGut
  <2>2. ServerGut(s, d, B, N, z) BY <1>2, <1>5, <1>8 DEF KanalGut, ServerGut
  <2>3. WartetGut(k, d) BY <1>5, <1>6 DEF WartetGut
  <2>4. MelderGut(k, d) BY <1>2, <1>5, <1>6, <1>8 DEF KanalGut, MelderGut
  <2> QED BY <1>2, <1>5, <2>1, <2>2, <2>3, <2>4 DEF KanalGut
<1>10. NetzGut(K2, B, N, z) BY <1>1, <1>5, <1>6, <1>7, <1>9, NetzErsetzt DEF c
<1>11. ASSUME MeldungGut(K, B, Z, L, N) PROVE MeldungGut(K2, B, Z, L, N)
  <2>1. c.stichdatum \in Nat BY <1>2 DEF Kanal
  <2>2. ~(c.stichdatum > 0) BY <1>2, <1>6 DEF KanalGut, ServerGut, MelderGut
  <2>3. k = 0 => MeldetWeiter(s, K, K2, B, Z, N)
    BY <1>5, <1>7, <2>2 DEF MeldetWeiter, SyncGut, Zustaendig, Laeuft, c
  <2>4. K[s][k].ende # "Kanal" BY <1>6 DEF c
  <2> QED BY <1>1, <1>7, <1>11, <2>3, <2>4, MeldAllein
<1>12. Werte(K2, B, Z, L, N, z) BY <1>1, <1>7 DEF Werte
<1>13. RestGut(K2, B) BY <1>1, <1>5, <1>7 DEF RestGut, Nur, c
<1> QED BY <1>10, <1>11, <1>12, <1>13 DEF Gut, K2

LEMMA GutGesendet ==
    ASSUME NEW K, NEW B, NEW Z, NEW L, NEW N, NEW z, Gut(K, B, Z, L, N, z),
           NEW s \in Server, NEW k \in Kanaele, NEW p, NEW q, Verbunden(K, s, k, p, q),
           K[s][k].ein = << >>, NEW tel \in Telegramm, Darf(K, s, k, tel, B, Z, N, z)
    PROVE  Gut([K EXCEPT ![p][q].ein = Append(@, tel)], B, Z, L, N, z)
<1> DEFINE g == K[p][q]
           e == << tel >>
           h == [g EXCEPT !.ein = e]
           K2 == [K EXCEPT ![p][q].ein = Append(@, tel)]
<1>1. /\ Werte(K, B, Z, L, N, z) /\ NetzGut(K, B, N, z) /\ RestGut(K, B) /\ K \in Netze /\ B \in Buecher
      /\ Z \in [Server -> Zeilen]
  BY DEF Gut, Werte
<1>2. p \in Server /\ q \in Kanaele /\ g \in Kanal BY <1>1, Enden
<1>3. /\ g.ein = << >> /\ DarfSenden(s, K[s][k], g, tel, B, N, z)
      /\ ~Verkuerzt => MeldetRichtig(s, K[s][k], g, tel, B, Z, N)
  BY <1>2 DEF Darf
<1>4. e \in Seq(Telegramm) /\ Append(g.ein, tel) = e BY <1>3
<1>5. Setzt(K2, K, p, q, h)
  <2> HIDE DEF e
  <2> QED BY <1>1, <1>2, <1>4 DEF Setzt, Netze
<1>6. h \in Kanal
  <2> HIDE DEF e, g
  <2> QED BY <1>2, <1>4 DEF Kanal
<1>7. MitPost(h, g, tel) BY DEF MitPost
<1> HIDE DEF K2, h, g
<1>8. K2 \in Netze /\ K2[p][q] = h /\ Nur(K2, K, p, q) BY <1>1, <1>2, <1>5, <1>6, Gesetzt
<1>9. Bekommt(K2, K, p, q, tel) BY <1>7, <1>8 DEF Bekommt, g
<1>10. NetzGut(K2, B, N, z) BY <1>1, <1>3, <1>8, <1>9, NetzGesendet DEF g
<1>11. ASSUME ~Verkuerzt PROVE MeldungGut(K2, B, Z, L, N)
  <2>1. MeldungGut(K, B, Z, L, N) BY <1>11 DEF Gut
  <2>2. MeldetRichtig(s, K[s][k], g, tel, B, Z, N) BY <1>3, <1>11
  <2> QED BY <1>1, <1>3, <1>8, <1>9, <2>1, <2>2, MeldGesendet DEF g
<1>12. Werte(K2, B, Z, L, N, z) BY <1>1, <1>8 DEF Werte
<1>13. RestGut(K2, B)
  <2>1. h.rest = g.rest BY <1>2, <1>7, EinGesetzt
  <2> QED BY <1>1, <1>2, <1>8, <2>1 DEF RestGut, Nur, g
<1> QED BY <1>10, <1>11, <1>12, <1>13 DEF Gut, K2

LEMMA SendenErhaelt ==
    ASSUME NEW K, NEW B, NEW Z, NEW L, NEW N, NEW z, Gut(K, B, Z, L, N, z),
           NEW s \in Server, NEW k \in Kanaele, NEW tel \in Telegramm,
           K[s][k].ende \in {"Kanal", "Fremd"}, K[s][k].ein = << >>, Darf(K, s, k, tel, B, Z, N, z),
           Senden(K, s, k, tel), stoerungen \in 0 .. MaxStoerungen
    PROVE  Gut(kanal', B, Z, L, N, z) /\ stoerungen' \in 0 .. MaxStoerungen
<1>1. stoerungen' \in 0 .. MaxStoerungen
  <2>1. stoerungen' = stoerungen \/ (stoerungen > 0 /\ stoerungen' = stoerungen - 1) BY DEF Senden
  <2> QED BY <2>1, Groessen
<1>2. \/ kanal' = K
      \/ kanal' = IF HatGegenueber(K[s][k])
                  THEN [K EXCEPT ![K[s][k].partner][K[s][k].gegen].ein = Append(@, tel)]
                  ELSE [K EXCEPT ![s][k].aus = << tel >>]
  BY DEF Senden
<1>3. CASE kanal' = K BY <1>1, <1>3
<1>4. CASE K[s][k].ende = "Kanal" /\ kanal' # K
  <2> DEFINE p == K[s][k].partner
             q == K[s][k].gegen
  <2>1. Verbunden(K, s, k, p, q) BY <1>4 DEF Verbunden
  <2>2. kanal' = [K EXCEPT ![p][q].ein = Append(@, tel)] BY <1>2, <1>4 DEF HatGegenueber
  <2> HIDE DEF p, q
  <2>3. Gut([K EXCEPT ![p][q].ein = Append(@, tel)], B, Z, L, N, z) BY <2>1, GutGesendet
  <2> QED BY <1>1, <2>2, <2>3
<1>5. CASE K[s][k].ende = "Fremd" /\ kanal' # K
  <2> DEFINE e == << tel >>
  <2>1. e \in Seq(Telegramm) OBVIOUS
  <2>2. kanal' = [K EXCEPT ![s][k].aus = e] BY <1>2, <1>5 DEF HatGegenueber
  <2> HIDE DEF e
  <2>3. Gut([K EXCEPT ![s][k].aus = e], B, Z, L, N, z) BY <1>5, <2>1, GutFremd
  <2> QED BY <1>1, <2>2, <2>3
<1> QED BY <1>3, <1>4, <1>5

(***************************************************************************)
(* The end of SocketBearbeiten.                                            *)
(***************************************************************************)
LEMMA Zurueckstellen ==
    ASSUME NEW y \in Zeilen, NEW c \in Kanal, NEW y2, y2 = Zurueckgesetzt(y, c)
    PROVE  /\ y2 \in Zeilen /\ \A t \in Server : y2[t] <= y[t]
           /\ c.partner \in Server /\ c.stichdatum > 0 => y2[c.partner] <= c.stichdatum
<1>1. MaxZeit \in Nat /\ Keiner \notin Server BY Groessen
<1>2. c.stichdatum \in 0 .. MaxZeit + 1 /\ c.partner \in Server \cup {Keiner} BY DEF Kanal
<1>3. y \in [Server -> 1 .. MaxZeit + 1] /\ \A t \in Server : y[t] \in Int BY <1>1 DEF Zeilen
<1>4. CASE c.partner # Keiner /\ c.stichdatum > 0 /\ y[c.partner] > c.stichdatum
  <2>1. y2 = [y EXCEPT ![c.partner] = c.stichdatum] BY <1>4 DEF Zurueckgesetzt
  <2>2. c.stichdatum \in 1 .. MaxZeit + 1 /\ c.partner \in Server BY <1>1, <1>2, <1>4
  <2>3. y2 \in Zeilen BY <1>3, <2>1, <2>2 DEF Zeilen
  <2>4. y2[c.partner] = c.stichdatum BY <1>3, <2>1, <2>2
  <2>5. \A t \in Server : t # c.partner => y2[t] = y[t] BY <1>3, <2>1
  <2>6. \A t \in Server : y2[t] <= y[t] BY <1>2, <1>3, <1>4, <2>2, <2>4, <2>5
  <2> QED BY <1>1, <1>2, <2>3, <2>4, <2>6
<1>5. CASE ~(c.partner # Keiner /\ c.stichdatum > 0 /\ y[c.partner] > c.stichdatum)
  <2>1. y2 = y BY <1>5 DEF Zurueckgesetzt
  <2> QED BY <1>1, <1>2, <1>3, <1>5, <2>1
<1> QED BY <1>4, <1>5

(* A channel that is given up with its reported time put back. *)
LEMMA MitZurueck ==
    ASSUME NEW K \in Netze, NEW B \in Buecher, NEW N, NEW z, NetzGut(K, B, N, z),
           NEW Z2 \in [Server -> Zeilen], NEW s \in Server,
           K[s][0].partner \in Server /\ K[s][0].stichdatum > 0 /\ K[s][0].gestartet = TRUE
              /\ K[s][0].fertig = FALSE => Z2[s][K[s][0].partner] <= K[s][0].stichdatum
    PROVE  Abgemeldet(s, K[s][0], B, Z2, N)
<1> DEFINE c == K[s][0]
<1>1. SUFFICES ASSUME NEW n \in Nummer, Zustaendig(s, c, n, B, N), c.fertig = FALSE
               PROVE  Gemeldet(s, c.partner, n, B, Z2)
  <2>1. c \in Kanal BY Groessen DEF Netze
  <2>2. c.fertig \in BOOLEAN BY <2>1 DEF Kanal
  <2> QED BY <2>2 DEF Abgemeldet
<1>2. c \in Kanal /\ c.partner \in Server /\ c.gestartet /\ c.stichdatum > 0
  BY <1>1, MeldetServer DEF Zustaendig
<1>3. c.gestartet = TRUE BY <1>2 DEF Kanal
<1>4. Z2[s][c.partner] <= c.stichdatum BY <1>1, <1>2, <1>3
<1>5. Z2[s][c.partner] \in Int BY <1>2, Groessen DEF Zeilen
<1>6. c.stichdatum \in Int /\ B[s][n].datum \in Int BY <1>2, Groessen DEF Kanal, Buecher, Eintrag
<1>7. B[s][n].datum >= c.stichdatum BY <1>1 DEF Zustaendig
<1> HIDE DEF c
<1>8. Z2[s][c.partner] <= B[s][n].datum BY <1>4, <1>5, <1>6, <1>7
<1> QED BY <1>8 DEF Gemeldet

(* The row of s. *)
Zeile(Z2, Z, s, y) == Z2 = [Z EXCEPT ![s] = y]

LEMMA ZeileGesetzt ==
    ASSUME NEW Z \in [Server -> Zeilen], NEW s \in Server, NEW y \in Zeilen, NEW y2 \in Zeilen,
           NEW Z1, NEW Z2, Zeile(Z1, Z, s, y), Zeile(Z2, Z, s, y2),
           \A t \in Server : y2[t] <= y[t]
    PROVE  Z2 \in [Server -> Zeilen] /\ Z2[s] = y2 /\ Zurueck(Z2, Z1)
<1>1. Z2 \in [Server -> Zeilen] /\ Z2[s] = y2 /\ Z1[s] = y BY DEF Zeile
<1>2. \A u \in Server : u # s => Z2[u] = Z[u] /\ Z1[u] = Z[u] BY DEF Zeile
<1>3. \A u, t \in Server : Z[u][t] \in Int BY Groessen DEF Zeilen
<1>4. \A u, t \in Server : Z2[u][t] <= Z1[u][t] BY <1>1, <1>2, <1>3
<1> QED BY <1>1, <1>4 DEF Zurueck

LEMMA AbschlussErhaelt ==
    ASSUME stichzeit \in [Server -> Zeilen], stoerungen \in 0 .. MaxStoerungen,
           NEW K, NEW B, NEW L, NEW N, NEW z, NEW s \in Server, NEW k \in Kanaele,
           NEW y \in Zeilen, NEW Z, Zeile(Z, stichzeit, s, y), Gut(K, B, Z, L, N, z),
           NEW tel \in Telegramm, K[s][k].ende # "wartend", K[s][k].ein = << >>,
           Darf(K, s, k, tel, B, Z, N, z), Abschluss(K, s, k, tel, y)
    PROVE  Gut(kanal', B, stichzeit', L, N, z) /\ stoerungen' \in 0 .. MaxStoerungen
<1> DEFINE c == K[s][k]
<1>1. c \in Kanal BY DEF Gut, Werte, Netze
<1>2. CASE c.ende = "zu"
  <2> DEFINE y2 == IF c.fertig \/ ~c.gestartet THEN y ELSE Zurueckgesetzt(y, c)
  <2>1. /\ kanal' = Schliessen(K, s, k) /\ stoerungen' = stoerungen
        /\ Zeile(stichzeit', stichzeit, s, y2)
    BY <1>2 DEF Abschluss, Zeile
  <2>2. \A t \in Server : y[t] <= y[t] BY Groessen DEF Zeilen
  <2>3. /\ y2 \in Zeilen /\ \A t \in Server : y2[t] <= y[t]
        /\ c.partner \in Server /\ c.stichdatum > 0 /\ c.gestartet = TRUE /\ c.fertig = FALSE
              => y2[c.partner] <= c.stichdatum
    <3>1. CASE c.fertig \/ ~c.gestartet BY <2>2, <3>1
    <3>2. CASE ~(c.fertig \/ ~c.gestartet)
      <4>1. y2 = Zurueckgesetzt(y, c) BY <3>2
      <4> HIDE DEF y2, c
      <4> QED BY <1>1, <4>1, Zurueckstellen
    <3> QED BY <3>1, <3>2
  <2> HIDE DEF y2
  <2>4. stichzeit' \in [Server -> Zeilen] /\ stichzeit'[s] = y2 /\ Zurueck(stichzeit', Z)
    BY <2>1, <2>3, ZeileGesetzt
  <2>5. k = 0 => Abgemeldet(s, K[s][0], B, stichzeit', N)
    <3>1. K \in Netze /\ B \in Buecher /\ NetzGut(K, B, N, z) BY DEF Gut, Werte
    <3> QED BY <2>3, <2>4, <3>1, MitZurueck
  <2>6. Gut(kanal', B, stichzeit', L, N, z) BY <2>1, <2>4, <2>5, GutSchliessen
  <2> QED BY <2>1, <2>6
<1>3. CASE c.ende # "zu"
  <2>1. stichzeit' = Z /\ Senden(K, s, k, tel) BY <1>3 DEF Abschluss, Zeile
  <2>2. c.ende \in {"Kanal", "Fremd"} BY <1>1, <1>3 DEF Kanal
  <2> QED BY <2>1, <2>2, SendenErhaelt
<1> QED BY <1>2, <1>3

(***************************************************************************)
(* A telegram is read: channel k of s becomes d, which is then answered.   *)
(***************************************************************************)
Abgelesen(K, s, k, d) ==
    /\ K[s][k].offen /\ K[s][k].ein # << >> /\ d.ein = << >> /\ Fortgesetzt(K[s][k], d)
    /\ K[s][k].stichdatum > 0 => Gleich(K[s][k], d)
    /\ K[s][k].ende = "Kanal" /\ K[K[s][k].partner][K[s][k].gegen].stichdatum > 0
          => Gleich(K[s][k], d)

Listbar(B, s, d) == \A n \in d.rest : B[s][n].datum > 0

Geliefert(K, s, k, d, B, Z, N) ==
    k = 0 /\ K[s][0].stichdatum > 0 /\ d.fertig =>
        \A n \in Nummer : Zustaendig(s, K[s][0], n, B, N) => Gemeldet(s, K[s][0].partner, n, B, Z)

Antwort(K, s, k, d, tel, B, Z, N, z) ==
    \A p \in Server, q \in Kanaele : Verbunden(K, s, k, p, q) =>
        /\ DarfSenden(s, d, K[p][q], tel, B, N, z)
        /\ ~Verkuerzt => MeldetRichtig(s, d, K[p][q], tel, B, Z, N)

LEMMA GutGelesen ==
    ASSUME NEW K, NEW B, NEW Z, NEW L, NEW N, NEW z, Gut(K, B, Z, L, N, z),
           NEW s \in Server, NEW k \in Kanaele, NEW d \in Kanal, NEW K2, Setzt(K2, K, s, k, d),
           Abgelesen(K, s, k, d), Listbar(B, s, d),
           ~Verkuerzt => Geliefert(K, s, k, d, B, Z, N)
    PROVE  Gut(K2, B, Z, L, N, z)
<1>1. K[s][k] \in Kanal BY DEF Gut, Werte, Netze
<1>2. K[s][k].offen = TRUE BY <1>1 DEF Abgelesen, Kanal
<1>3. /\ Fortgesetzt(K[s][k], d) /\ K[s][k].ein # << >> /\ d.ein = << >>
      /\ K[s][k].stichdatum > 0 => Gleich(K[s][k], d)
      /\ K[s][k].ende = "Kanal" /\ K[K[s][k].partner][K[s][k].gegen].stichdatum > 0
            => Gleich(K[s][k], d)
  BY DEF Abgelesen
<1>4. \A n \in d.rest : B[s][n].datum > 0 BY DEF Listbar
<1>5. ~Verkuerzt /\ k = 0 /\ K[s][0].stichdatum > 0 /\ d.fertig = TRUE =>
         \A n \in Nummer : Zustaendig(s, K[s][0], n, B, N) => Gemeldet(s, K[s][0].partner, n, B, Z)
  BY DEF Geliefert
<1> QED BY <1>2, <1>3, <1>4, <1>5, GutFort

LEMMA DarfNachher ==
    ASSUME NEW K, NEW B, NEW Z, NEW L, NEW N, NEW z, Gut(K, B, Z, L, N, z),
           NEW s \in Server, NEW k \in Kanaele, NEW d \in Kanal, NEW K2, Setzt(K2, K, s, k, d),
           Abgelesen(K, s, k, d), NEW tel, Antwort(K, s, k, d, tel, B, Z, N, z)
    PROVE  /\ Darf(K2, s, k, tel, B, Z, N, z)
           /\ K2[s][k].ein = << >> /\ K2[s][k].ende # "wartend"
<1>1. K \in Netze /\ NetzGut(K, B, N, z) BY DEF Gut, Werte
<1>2. K2[s][k] = d /\ Nur(K2, K, s, k) BY <1>1, Gesetzt
<1>3. /\ K[s][k].ein # << >> /\ d.ein = << >> /\ d.ende = K[s][k].ende
      /\ d.partner = K[s][k].partner /\ d.gegen = K[s][k].gegen
  BY DEF Abgelesen, Fortgesetzt
<1>4. /\ K[s][k].ende # "wartend"
      /\ K[s][k].ende = "Kanal" => K[K[s][k].partner][K[s][k].gegen].ein = << >>
  BY <1>1, <1>3, LeserAllein
<1>5. ASSUME NEW p \in Server, NEW q \in Kanaele, Verbunden(K2, s, k, p, q)
      PROVE  /\ K2[p][q].ein = << >> /\ DarfSenden(s, K2[s][k], K2[p][q], tel, B, N, z)
             /\ ~Verkuerzt => MeldetRichtig(s, K2[s][k], K2[p][q], tel, B, Z, N)
  <2>1. Verbunden(K, s, k, p, q) BY <1>2, <1>3, <1>5 DEF Verbunden
  <2>2. p # s BY <1>1, <2>1, Enden
  <2>3. K2[p][q] = K[p][q] BY <1>2, <2>2 DEF Nur
  <2>4. K[p][q].ein = << >> BY <1>4, <2>1 DEF Verbunden
  <2> QED BY <1>2, <2>1, <2>3, <2>4 DEF Antwort
<1> QED BY <1>2, <1>3, <1>4, <1>5 DEF Darf

LEMMA GelesenErhaelt ==
    ASSUME stichzeit \in [Server -> Zeilen], stoerungen \in 0 .. MaxStoerungen,
           NEW K, NEW B, NEW L, NEW N, NEW z, NEW s \in Server, NEW k \in Kanaele,
           NEW y \in Zeilen, NEW Z, Zeile(Z, stichzeit, s, y), Gut(K, B, Z, L, N, z),
           NEW d \in Kanal, NEW K2, Setzt(K2, K, s, k, d), Abgelesen(K, s, k, d), Listbar(B, s, d),
           ~Verkuerzt => Geliefert(K, s, k, d, B, Z, N),
           NEW tel \in Telegramm, Antwort(K, s, k, d, tel, B, Z, N, z), Abschluss(K2, s, k, tel, y)
    PROVE  Gut(kanal', B, stichzeit', L, N, z) /\ stoerungen' \in 0 .. MaxStoerungen
<1>1. Gut(K2, B, Z, L, N, z) BY GutGelesen
<1>2. Darf(K2, s, k, tel, B, Z, N, z) /\ K2[s][k].ein = << >> /\ K2[s][k].ende # "wartend"
  BY DarfNachher
<1> QED BY <1>1, <1>2, AbschlussErhaelt

LEMMA BeantwortenErhaelt ==
    ASSUME TlnInv, NEW s \in Server, NEW k \in Kanaele, NEW d \in Kanal,
           Abgelesen(kanal, s, k, d), Listbar(buch, s, d),
           ~Verkuerzt => Geliefert(kanal, s, k, d, buch, stichzeit, neustarts),
           NEW tel \in Telegramm, Antwort(kanal, s, k, d, tel, buch, stichzeit, neustarts, zeit),
           Beantworten(s, k, d, tel)
    PROVE  TlnInv'
<1> DEFINE K2 == [kanal EXCEPT ![s][k] = d]
           y == stichzeit[s]
<1>1. /\ Gut(kanal, buch, stichzeit, letzte, neustarts, zeit) /\ UmgebungTyp
      /\ stichzeit \in [Server -> Zeilen] /\ stoerungen \in 0 .. MaxStoerungen
  BY DEF TlnInv, Gut, Werte, UmgebungTyp
<1>2. y \in Zeilen /\ Zeile(stichzeit, stichzeit, s, y) BY <1>1 DEF Zeile
<1>3. Setzt(K2, kanal, s, k, d) BY DEF Setzt
<1>4. Abschluss(K2, s, k, tel, y) /\ UNCHANGED <<buch, letzte, vollErfolg, umgebung>>
  BY DEF Beantworten
<1> HIDE DEF K2, y
<1>5. Gut(kanal', buch, stichzeit', letzte, neustarts, zeit) /\ stoerungen' \in 0 .. MaxStoerungen
  BY <1>1, <1>2, <1>3, <1>4, GelesenErhaelt
<1> QED BY <1>1, <1>4, <1>5 DEF TlnInv, UmgebungTyp, umgebung

(* The channel after the telegram has been read, with what a handler may   *)
(* set in it.                                                              *)
Nachher(c, d) ==
    /\ d \in Kanal /\ d.ein = << >> /\ d.offen = c.offen /\ d.partner = c.partner
    /\ d.ende = c.ende /\ d.gegen = c.gegen /\ d.aus = c.aus /\ Gleich(c, d)
    /\ d.freigabe => c.freigabe \/ c.partner # Keiner
    /\ d.rest \subseteq c.rest

LEMMA NachherAbgelesen ==
    ASSUME NEW K, NEW B, NEW Z, NEW L, NEW N, NEW z, Gut(K, B, Z, L, N, z),
           NEW s \in Server, NEW k \in Kanaele, K[s][k].offen = TRUE, K[s][k].ein # << >>,
           NEW d, Nachher(K[s][k], d)
    PROVE  Abgelesen(K, s, k, d) /\ Listbar(B, s, d) /\ d \in Kanal
<1>1. Fortgesetzt(K[s][k], d) /\ Gleich(K[s][k], d) /\ d.ein = << >> /\ d \in Kanal
  BY DEF Nachher, Fortgesetzt
<1>2. Listbar(B, s, d) BY DEF Gut, RestGut, Nachher, Listbar
<1> QED BY <1>1, <1>2 DEF Abgelesen

LEMMA NachLesenFelder ==
    ASSUME NEW s \in Server, NEW k \in Kanaele, kanal[s][k] \in Kanal,
           kanal[s][k].ein # << >>, Len(kanal[s][k].ein) <= 1, NEW c, c = NachLesen(s, k)
    PROVE  /\ Nachher(kanal[s][k], c) /\ c.fertig = FALSE /\ c.rest = kanal[s][k].rest
           /\ c.freigabe = kanal[s][k].freigabe
           /\ Gelesen(s, k) \in Telegramm /\ Post(kanal[s][k]) = {Gelesen(s, k)}
<1> DEFINE a == kanal[s][k]
           e == Tail(a.ein)
<1>1. /\ Head(a.ein) \in Telegramm /\ Post(a) = {Head(a.ein)} /\ e = << >> BY PostKopf
<1>2. c = [a EXCEPT !.ein = e, !.fertig = FALSE] BY DEF NachLesen
<1>3. e \in Seq(Telegramm) BY <1>1, EmptySeq
<1>4. a \in Kanal OBVIOUS
<1> HIDE DEF e, a
<1>5. c \in Kanal BY <1>2, <1>3, <1>4 DEF Kanal
<1>6. /\ c.ein = e /\ c.fertig = FALSE /\ c.offen = a.offen /\ c.partner = a.partner
      /\ c.ende = a.ende /\ c.gegen = a.gegen /\ c.aus = a.aus /\ c.freigabe = a.freigabe
      /\ c.vollabfrage = a.vollabfrage /\ c.gestartet = a.gestartet
      /\ c.stichdatum = a.stichdatum /\ c.rest = a.rest
  BY <1>2, <1>4 DEF Kanal
<1>7. Nachher(a, c) BY <1>1, <1>5, <1>6 DEF Nachher, Gleich
<1> QED BY <1>1, <1>6, <1>7 DEF a, Gelesen

(* What a channel that reads is and has. *)
LEMMA Leser ==
    ASSUME TlnInv, NEW s \in Server, NEW k \in Kanaele, NEW A, Liest(s, k, A), NEW c, c = NachLesen(s, k)
    PROVE  /\ Gut(kanal, buch, stichzeit, letzte, neustarts, zeit)
           /\ kanal[s][k] \in Kanal /\ KanalGut(s, k, kanal[s][k], buch, neustarts, zeit)
           /\ kanal[s][k].offen = TRUE /\ kanal[s][k].ein # << >>
           /\ Nachher(kanal[s][k], c) /\ c.fertig = FALSE /\ c.rest = kanal[s][k].rest
           /\ c.freigabe = kanal[s][k].freigabe
           /\ Gelesen(s, k) \in Telegramm /\ Post(kanal[s][k]) = {Gelesen(s, k)}
           /\ Gelesen(s, k).art \in A
<1>1. /\ Gut(kanal, buch, stichzeit, letzte, neustarts, zeit) /\ kanal \in Netze
      /\ NetzGut(kanal, buch, neustarts, zeit)
  BY DEF TlnInv, Gut, Werte
<1>2. kanal[s][k].offen /\ kanal[s][k].ein # << >> /\ Gelesen(s, k).art \in A BY DEF Liest
<1>3. kanal[s][k] \in Kanal /\ Len(kanal[s][k].ein) <= 1 BY <1>1, <1>2, LeserAllein
<1>4. kanal[s][k].offen = TRUE BY <1>2, <1>3 DEF Kanal
<1>5. KanalGut(s, k, kanal[s][k], buch, neustarts, zeit) BY <1>1 DEF NetzGut
<1>6. /\ Nachher(kanal[s][k], c) /\ c.fertig = FALSE /\ c.rest = kanal[s][k].rest
      /\ c.freigabe = kanal[s][k].freigabe
      /\ Gelesen(s, k) \in Telegramm /\ Post(kanal[s][k]) = {Gelesen(s, k)}
  BY <1>2, <1>3, NachLesenFelder, ZenonT(40)
<1> QED BY <1>1, <1>2, <1>3, <1>4, <1>5, <1>6

(* Whoever reads something else than a confirmation or an error reports no *)
(* changes.                                                                *)
LEMMA KeinMelder ==
    ASSUME NEW c \in Kanal, NEW s, NEW k, NEW B, NEW N, NEW z, KanalGut(s, k, c, B, N, z),
           NEW t, Post(c) = {t}, t.art \notin {"Quittung", "Fehler"} \/ c.gestartet = FALSE
    PROVE  c.stichdatum = 0
<1>1. c.stichdatum \in Nat BY Groessen DEF Kanal
<1>2. ~(c.stichdatum > 0) BY DEF KanalGut, MelderGut
<1> QED BY <1>1, <1>2

(* An answer that is no confirmation, to one that reports no changes or is *)
(* refused.                                                                *)
LEMMA AntwortSonst ==
    ASSUME NEW K, NEW B, NEW Z, NEW L, NEW N, NEW z, Gut(K, B, Z, L, N, z),
           NEW s \in Server, NEW k \in Kanaele, NEW t, Post(K[s][k]) = {t},
           NEW d, d.stichdatum = 0, NEW tel, Belegtes(tel, s, B, N, z), tel.art # "Quittung",
           tel.art = "Fehler" \/ t.art \notin {"Anmeldung", "Auskunft", "Ende"}
    PROVE  Antwort(K, s, k, d, tel, B, Z, N, z)
<1>1. K \in Netze /\ NetzGut(K, B, N, z) BY DEF Gut, Werte
<1>2. ASSUME NEW p \in Server, NEW q \in Kanaele, Verbunden(K, s, k, p, q)
      PROVE  DarfSenden(s, d, K[p][q], tel, B, N, z) /\ MeldetRichtig(s, d, K[p][q], tel, B, Z, N)
  <2>1. PaarGut(p, q, K[p][q], K[s][k]) BY <1>1, <1>2, Enden
  <2>2. DarfBekommen(K[p][q], tel) BY <2>1 DEF PaarGut, DarfBekommen
  <2>3. ~(d.stichdatum > 0) OBVIOUS
  <2>4. DarfSenden(s, d, K[p][q], tel, B, N, z) BY <2>2, <2>3 DEF DarfSenden
  <2>5. MeldetRichtig(s, d, K[p][q], tel, B, Z, N) BY <2>3 DEF MeldetRichtig, Zustaendig
  <2> QED BY <2>4, <2>5
<1> QED BY <1>2 DEF Antwort

LEMMA SonstErhaelt ==
    ASSUME TlnInv, NEW s \in Server, NEW k \in Kanaele, NEW A, Liest(s, k, A),
           NEW d, Nachher(kanal[s][k], d), kanal[s][k].stichdatum = 0,
           NEW tel \in Telegramm, Belegtes(tel, s, buch, neustarts, zeit), tel.art # "Quittung",
           tel.art = "Fehler" \/ A \cap {"Anmeldung", "Auskunft", "Ende"} = {},
           Beantworten(s, k, d, tel)
    PROVE  TlnInv'
<1>1. /\ Gut(kanal, buch, stichzeit, letzte, neustarts, zeit)
      /\ kanal[s][k].offen = TRUE /\ kanal[s][k].ein # << >>
      /\ Post(kanal[s][k]) = {Gelesen(s, k)} /\ Gelesen(s, k).art \in A
  BY Leser
<1>2. Abgelesen(kanal, s, k, d) /\ Listbar(buch, s, d) /\ d \in Kanal BY <1>1, NachherAbgelesen
<1>3. d.stichdatum = 0 BY DEF Nachher, Gleich
<1>4. Geliefert(kanal, s, k, d, buch, stichzeit, neustarts) BY DEF Geliefert
<1>5. tel.art = "Fehler" \/ Gelesen(s, k).art \notin {"Anmeldung", "Auskunft", "Ende"} BY <1>1
<1>6. Antwort(kanal, s, k, d, tel, buch, stichzeit, neustarts, zeit)
  BY <1>1, <1>3, <1>5, AntwortSonst
<1> QED BY <1>2, <1>4, <1>6, BeantwortenErhaelt

LEMMA FehlerErhaelt ==
    ASSUME TlnInv, NEW s \in Server, NEW k \in Kanaele, NEW A, Liest(s, k, A),
           NEW d, Nachher(kanal[s][k], d), kanal[s][k].stichdatum = 0,
           Beantworten(s, k, d, Einfach("Fehler"))
    PROVE  TlnInv'
<1> DEFINE tel == Einfach("Fehler")
<1>1. tel \in Telegramm /\ tel.art = "Fehler" BY EinfachTyp
<1>2. Beantworten(s, k, d, tel) OBVIOUS
<1> HIDE DEF tel
<1>3. Belegtes(tel, s, buch, neustarts, zeit) BY <1>1 DEF Belegtes
<1> QED BY <1>1, <1>2, <1>3, SonstErhaelt

(* An entry that the server has, as a telegram. *)
Vermeldet(tel, n, e, p) == tel = [art |-> "Auskunft", nr |-> n, eintrag |-> e, pin |-> p]

LEMMA AuskunftWahr ==
    ASSUME NEW K, NEW B, NEW Z, NEW L, NEW N, NEW z, Gut(K, B, Z, L, N, z),
           NEW s \in Server, NEW n \in Nummer, B[s][n].datum > 0, NEW p \in BOOLEAN,
           NEW tel, Vermeldet(tel, n, B[s][n], p)
    PROVE  /\ tel \in Telegramm /\ tel.art = "Auskunft" /\ tel.nr = n /\ tel.eintrag = B[s][n]
           /\ Belegtes(tel, s, B, N, z)
<1>1. B[s][n] \in Eintrag BY DEF Gut, Werte, Buecher
<1>2. tel.art = "Auskunft" /\ tel.nr = n /\ tel.eintrag = B[s][n] BY DEF Vermeldet
<1>3. tel \in Telegramm BY <1>1 DEF Vermeldet, Telegramm, Auskunft
<1>4. B[s][n].datum <= z /\ Echt(n, B[s][n], B, N) BY DEF Gut, NetzGut, BuchGut
<1>5. B[s][n].datum >= B[s][n].datum
  <2>1. B[s][n].datum \in Int BY <1>1 DEF Eintrag
  <2> QED BY <2>1
<1> QED BY <1>2, <1>3, <1>4, <1>5 DEF Belegtes

LEMMA UnerwartetErhaelt ==
    ASSUME TlnInv, NEW s \in Server, NEW k \in Kanaele, Unerwartet(s, k)
    PROVE  TlnInv'
<1> DEFINE A == {"Rueckmeldung", "NichtVergeben"}
           c == NachLesen(s, k)
<1>1. Liest(s, k, A) /\ Beantworten(s, k, c, Einfach("Fehler")) BY DEF Unerwartet
<1>2. Gelesen(s, k).art \notin {"Quittung", "Fehler"} BY DEF Unerwartet, Liest
<1> HIDE DEF A, c
<1>3. /\ kanal[s][k] \in Kanal /\ KanalGut(s, k, kanal[s][k], buch, neustarts, zeit)
      /\ Nachher(kanal[s][k], c) /\ Post(kanal[s][k]) = {Gelesen(s, k)}
  BY <1>1, Leser DEF c
<1>4. kanal[s][k].stichdatum = 0 BY <1>2, <1>3, KeinMelder
<1> QED BY <1>1, <1>3, <1>4, FehlerErhaelt

LEMMA NachherFertig ==
    ASSUME NEW a, NEW c, Nachher(a, c), NEW d, d = [c EXCEPT !.fertig = TRUE]
    PROVE  Nachher(a, d) /\ d.rest = c.rest /\ d.freigabe = c.freigabe
<1>1. c \in Kanal BY DEF Nachher
<1>2. /\ d \in Kanal /\ d.ein = c.ein /\ d.offen = c.offen /\ d.partner = c.partner
      /\ d.ende = c.ende /\ d.gegen = c.gegen /\ d.aus = c.aus /\ d.freigabe = c.freigabe
      /\ d.vollabfrage = c.vollabfrage /\ d.gestartet = c.gestartet
      /\ d.stichdatum = c.stichdatum /\ d.rest = c.rest
  BY <1>1 DEF Kanal
<1> QED BY <1>2 DEF Nachher, Gleich

LEMMA AbfrageEmpfangenErhaelt ==
    ASSUME TlnInv, NEW s \in Server, NEW k \in Kanaele, AbfrageEmpfangen(s, k)
    PROVE  TlnInv'
<1> DEFINE A == {"Abfrage"}
           c == NachLesen(s, k)
           d == [c EXCEPT !.fertig = TRUE]
           n == Gelesen(s, k).nr
           tel == [art |-> "Auskunft", nr |-> n, eintrag |-> buch[s][n], pin |-> FALSE]
<1>1. Liest(s, k, A) /\ Gelesen(s, k).art = "Abfrage" BY DEF AbfrageEmpfangen, Liest
<1>2. \/ Belegt(s, n) /\ Beantworten(s, k, d, tel)
      \/ Beantworten(s, k, d, Einfach("NichtVergeben"))
  BY DEF AbfrageEmpfangen
<1>3. /\ Gut(kanal, buch, stichzeit, letzte, neustarts, zeit)
      /\ kanal[s][k] \in Kanal /\ KanalGut(s, k, kanal[s][k], buch, neustarts, zeit)
      /\ Nachher(kanal[s][k], c) /\ Post(kanal[s][k]) = {Gelesen(s, k)}
      /\ Gelesen(s, k) \in Telegramm
  <2> HIDE DEF A, c
  <2> QED BY <1>1, Leser DEF c
<1>4. kanal[s][k].stichdatum = 0
  <2>1. Gelesen(s, k).art \notin {"Quittung", "Fehler"} BY <1>1
  <2> QED BY <1>3, <2>1, KeinMelder
<1>5. Nachher(kanal[s][k], d)
  <2> HIDE DEF c
  <2> QED BY <1>3, NachherFertig
<1>6. n \in Nummer BY <1>1, <1>3, TelegrammArt DEF Abfragen
<1>7. A \cap {"Anmeldung", "Auskunft", "Ende"} = {} OBVIOUS
<1> HIDE DEF A, c, d, n
<1>8. CASE Belegt(s, n) /\ Beantworten(s, k, d, tel)
  <2> DEFINE pin == FALSE
  <2>1. Vermeldet(tel, n, buch[s][n], pin) /\ pin \in BOOLEAN BY DEF Vermeldet
  <2>3. buch[s][n].datum > 0 BY <1>8 DEF Belegt
  <2> HIDE DEF tel, pin
  <2>2. /\ tel \in Telegramm /\ tel.art = "Auskunft" /\ Belegtes(tel, s, buch, neustarts, zeit)
    BY <1>3, <1>6, <2>1, <2>3, AuskunftWahr
  <2> QED BY <1>1, <1>4, <1>5, <1>7, <1>8, <2>2, SonstErhaelt
<1>9. CASE Beantworten(s, k, d, Einfach("NichtVergeben"))
  <2> DEFINE tl == Einfach("NichtVergeben")
  <2>1. tl \in Telegramm /\ tl.art = "NichtVergeben" BY EinfachTyp
  <2>2. Beantworten(s, k, d, tl) BY <1>9
  <2> HIDE DEF tl
  <2>3. Belegtes(tl, s, buch, neustarts, zeit) BY <2>1 DEF Belegtes
  <2> QED BY <1>1, <1>4, <1>5, <1>7, <2>1, <2>2, <2>3, SonstErhaelt
<1> QED BY <1>2, <1>8, <1>9

(***************************************************************************)
(* Listing: the next entry, or the end mark.                               *)
(***************************************************************************)
Weniger(d, c) ==
    /\ d \in Kanal /\ d.ein = c.ein /\ d.offen = c.offen /\ d.partner = c.partner
    /\ d.ende = c.ende /\ d.gegen = c.gegen /\ d.aus = c.aus /\ d.freigabe = c.freigabe
    /\ Gleich(c, d) /\ d.rest \subseteq c.rest

LEMMA WenigerAbgelesen ==
    ASSUME NEW K, NEW B, NEW s, NEW k, NEW c, Abgelesen(K, s, k, c), Listbar(B, s, c),
           NEW d, Weniger(d, c)
    PROVE  Abgelesen(K, s, k, d) /\ Listbar(B, s, d) /\ d \in Kanal
<1>1. Listbar(B, s, d) BY DEF Listbar, Weniger
<1>2. Fortgesetzt(K[s][k], d) BY DEF Abgelesen, Fortgesetzt, Weniger, Gleich
<1>3. Gleich(K[s][k], c) => Gleich(K[s][k], d) BY DEF Weniger, Gleich
<1> QED BY <1>1, <1>2, <1>3 DEF Abgelesen, Weniger

Gekuerzt(d, c, R) == d = [c EXCEPT !.rest = R]
Beendet(d, c) == d = [c EXCEPT !.rest = {}, !.fertig = TRUE]

LEMMA GekuerztWeniger ==
    ASSUME NEW c \in Kanal, NEW R, R \subseteq c.rest, NEW d, Gekuerzt(d, c, R) \/ Beendet(d, c)
    PROVE  /\ Weniger(d, c)
           /\ Gekuerzt(d, c, R) => d.rest = R /\ d.fertig = c.fertig
<1>1. /\ d \in Kanal /\ d.ein = c.ein /\ d.offen = c.offen /\ d.partner = c.partner
      /\ d.ende = c.ende /\ d.gegen = c.gegen /\ d.aus = c.aus /\ d.freigabe = c.freigabe
      /\ d.vollabfrage = c.vollabfrage /\ d.gestartet = c.gestartet
      /\ d.stichdatum = c.stichdatum /\ d.rest \subseteq c.rest
      /\ Gekuerzt(d, c, R) => d.rest = R /\ d.fertig = c.fertig
  <2>1. CASE Gekuerzt(d, c, R) BY <2>1 DEF Gekuerzt, Kanal
  <2>2. CASE Beendet(d, c) /\ ~Gekuerzt(d, c, R) BY <2>2 DEF Beendet, Kanal
  <2> QED BY <2>1, <2>2
<1> QED BY <1>1 DEF Weniger, Gleich

OhneMelder(K, s, k) ==
    \A p \in Server, q \in Kanaele : Verbunden(K, s, k, p, q) => ~(K[p][q].stichdatum > 0)

(* What c is to report is still in its listing. *)
NochDa(K, s, k, c, B, Z, N) ==
    \A n \in Nummer : Zustaendig(s, K[s][k], n, B, N) => Uebrig(s, c, n, B, Z)

LEMMA ZustaendigVorher ==
    ASSUME NEW K, NEW s, NEW k, NEW d, Abgelesen(K, s, k, d), NEW n, NEW B, NEW N, Zustaendig(s, d, n, B, N)
    PROVE  Zustaendig(s, K[s][k], n, B, N) /\ d.stichdatum = K[s][k].stichdatum
BY DEF Abgelesen, Fortgesetzt, Gleich, Zustaendig

LEMMA DatensatzErhaelt ==
    ASSUME TlnInv, NEW s \in Server, NEW k \in Kanaele, NEW c \in Kanal, c.fertig = FALSE,
           Abgelesen(kanal, s, k, c), Listbar(buch, s, c), OhneMelder(kanal, s, k),
           ~Verkuerzt => NochDa(kanal, s, k, c, buch, stichzeit, neustarts),
           DatensatzSenden(s, k, c)
    PROVE  TlnInv'
<1> DEFINE P == {n \in c.rest : <<s, n>> \notin Lokale /\ buch[s][n].datum >= c.stichdatum}
           Zu(n) == Zustaendig(s, kanal[s][k], n, buch, neustarts)
<1>1. \/ P = {} /\ Beantworten(s, k, [c EXCEPT !.rest = {}, !.fertig = TRUE], Einfach("Ende"))
      \/ \E n \in P, weg \in SUBSET (c.rest \ P) :
            Beantworten(s, k, [c EXCEPT !.rest = @ \ (weg \cup {n})],
                [art |-> "Auskunft", nr |-> n, eintrag |-> buch[s][n], pin |-> c.freigabe])
  BY DEF DatensatzSenden
<1>2. /\ Gut(kanal, buch, stichzeit, letzte, neustarts, zeit) /\ kanal \in Netze
      /\ NetzGut(kanal, buch, neustarts, zeit)
  BY DEF TlnInv, Gut, Werte
<1>3. c.rest \subseteq Nummer /\ c.freigabe \in BOOLEAN BY DEF Kanal
<1>4. ASSUME NEW n \in Nummer, Zu(n), n \in c.rest PROVE n \in P
  <2>1. c.stichdatum = kanal[s][k].stichdatum BY <1>4 DEF Abgelesen, Gleich, Zustaendig
  <2>2. <<s, n>> \notin Lokale /\ buch[s][n].datum >= kanal[s][k].stichdatum
    BY <1>4 DEF Zustaendig, Gemeinsam
  <2> QED BY <1>4, <2>1, <2>2
<1>5. ASSUME NEW tel, DarfSenden(s, c, [stichdatum |-> 0], tel, buch, neustarts, zeit),
             tel.art # "Quittung", NEW d, Weniger(d, c),
             ~Verkuerzt => \A n \in Nummer : Zustaendig(s, d, n, buch, neustarts) /\ tel.art = "Auskunft" =>
                 \/ Uebrig(s, d, n, buch, stichzeit)
                 \/ tel.nr = n /\ tel.eintrag.datum >= buch[s][n].datum
      PROVE  Antwort(kanal, s, k, d, tel, buch, stichzeit, neustarts, zeit)
  <2>1. d.stichdatum = c.stichdatum BY <1>5 DEF Weniger, Gleich
  <2>2. ASSUME NEW p \in Server, NEW q \in Kanaele, Verbunden(kanal, s, k, p, q)
        PROVE  /\ DarfSenden(s, d, kanal[p][q], tel, buch, neustarts, zeit)
               /\ ~Verkuerzt => MeldetRichtig(s, d, kanal[p][q], tel, buch, stichzeit, neustarts)
    <3>1. ~(kanal[p][q].stichdatum > 0) BY <2>2 DEF OhneMelder
    <3>2. DarfBekommen(kanal[p][q], tel) BY <3>1 DEF DarfBekommen
    <3>3. DarfSenden(s, d, kanal[p][q], tel, buch, neustarts, zeit)
      BY <1>5, <2>1, <3>2 DEF DarfSenden
    <3>4. ~Verkuerzt => MeldetRichtig(s, d, kanal[p][q], tel, buch, stichzeit, neustarts)
      BY <1>5 DEF MeldetRichtig
    <3> QED BY <3>3, <3>4
  <2> QED BY <2>2 DEF Antwort
<1>6. CASE P = {} /\ Beantworten(s, k, [c EXCEPT !.rest = {}, !.fertig = TRUE], Einfach("Ende"))
  <2> DEFINE d == [c EXCEPT !.rest = {}, !.fertig = TRUE]
             tel == Einfach("Ende")
  <2>1. Beendet(d, c) /\ Beantworten(s, k, d, tel) BY <1>6 DEF Beendet
  <2>2. tel \in Telegramm /\ tel.art = "Ende" BY EinfachTyp
  <2> HIDE DEF d, tel
  <2>3. Weniger(d, c)
    <3>1. {} \subseteq c.rest OBVIOUS
    <3> QED BY <2>1, <3>1, GekuerztWeniger
  <2>4. Abgelesen(kanal, s, k, d) /\ Listbar(buch, s, d) /\ d \in Kanal BY <2>3, WenigerAbgelesen
  <2>5. DarfSenden(s, c, [stichdatum |-> 0], tel, buch, neustarts, zeit)
    BY <2>2 DEF DarfSenden, DarfBekommen, Belegtes
  <2>6. Antwort(kanal, s, k, d, tel, buch, stichzeit, neustarts, zeit) BY <1>5, <2>2, <2>3, <2>5
  <2>7. ASSUME ~Verkuerzt, k = 0, NEW n \in Nummer, Zustaendig(s, kanal[s][0], n, buch, neustarts)
        PROVE  Gemeldet(s, kanal[s][0].partner, n, buch, stichzeit)
    <3>1. Uebrig(s, c, n, buch, stichzeit) BY <2>7 DEF NochDa
    <3>2. n \notin c.rest BY <1>4, <1>6, <2>7
    <3>3. c.partner = kanal[s][0].partner BY <2>7 DEF Abgelesen, Fortgesetzt
    <3> QED BY <3>1, <3>2, <3>3 DEF Uebrig
  <2>8. ~Verkuerzt => Geliefert(kanal, s, k, d, buch, stichzeit, neustarts) BY <2>7 DEF Geliefert
  <2> QED BY <2>1, <2>2, <2>4, <2>6, <2>8, BeantwortenErhaelt
<1>7. ASSUME NEW m \in P, NEW weg \in SUBSET (c.rest \ P),
             Beantworten(s, k, [c EXCEPT !.rest = @ \ (weg \cup {m})],
                [art |-> "Auskunft", nr |-> m, eintrag |-> buch[s][m], pin |-> c.freigabe])
      PROVE  TlnInv'
  <2> DEFINE R == c.rest \ (weg \cup {m})
             d == [c EXCEPT !.rest = R]
             tel == [art |-> "Auskunft", nr |-> m, eintrag |-> buch[s][m], pin |-> c.freigabe]
  <2>1. Gekuerzt(d, c, R) /\ Beantworten(s, k, d, tel) BY <1>7 DEF Gekuerzt
  <2>2. Vermeldet(tel, m, buch[s][m], c.freigabe) BY DEF Vermeldet
  <2>3. m \in Nummer /\ buch[s][m].datum > 0 BY <1>3 DEF Listbar
  <2> HIDE DEF d, tel
  <2>4. /\ tel \in Telegramm /\ tel.art = "Auskunft" /\ tel.nr = m /\ tel.eintrag = buch[s][m]
        /\ Belegtes(tel, s, buch, neustarts, zeit)
    <3> HIDE DEF P, R
    <3> QED BY <1>2, <1>3, <2>2, <2>3, AuskunftWahr
  <2>5. R \subseteq c.rest /\ \A n \in P : n # m => n \in R OBVIOUS
  <2> HIDE DEF R, P
  <2>6. Weniger(d, c) /\ d.rest = R /\ d.fertig = FALSE BY <2>1, <2>5, GekuerztWeniger
  <2>7. Abgelesen(kanal, s, k, d) /\ Listbar(buch, s, d) /\ d \in Kanal BY <2>6, WenigerAbgelesen
  <2>8. DarfSenden(s, c, [stichdatum |-> 0], tel, buch, neustarts, zeit)
    BY <2>4 DEF DarfSenden, DarfBekommen
  <2>9. ASSUME ~Verkuerzt, NEW n \in Nummer, Zustaendig(s, d, n, buch, neustarts)
        PROVE  \/ Uebrig(s, d, n, buch, stichzeit)
               \/ tel.nr = n /\ tel.eintrag.datum >= buch[s][n].datum
    <3>1. Zu(n) BY <2>7, <2>9, ZustaendigVorher
    <3>2. Uebrig(s, c, n, buch, stichzeit) BY <2>9, <3>1 DEF NochDa
    <3>3. c.partner = d.partner BY <2>6 DEF Weniger
    <3>4. CASE n \notin c.rest BY <3>2, <3>3, <3>4 DEF Uebrig
    <3>5. CASE n \in c.rest /\ n # m BY <1>4, <2>5, <2>6, <3>1, <3>5 DEF Uebrig
    <3>6. CASE n = m
      <4>1. buch[s][m].datum \in Int BY <1>2, <2>3 DEF Gut, Werte, Buecher, Eintrag
      <4> QED BY <2>4, <3>6, <4>1
    <3> QED BY <3>4, <3>5, <3>6
  <2>10. Antwort(kanal, s, k, d, tel, buch, stichzeit, neustarts, zeit)
    BY <1>5, <2>4, <2>6, <2>8, <2>9
  <2>11. Geliefert(kanal, s, k, d, buch, stichzeit, neustarts) BY <2>6 DEF Geliefert
  <2> QED BY <2>1, <2>4, <2>7, <2>10, <2>11, BeantwortenErhaelt
<1> QED BY <1>1, <1>6, <1>7

LEMMA OhneMelderVon ==
    ASSUME NEW K \in Netze, NEW B, NEW N, NEW z, NetzGut(K, B, N, z),
           NEW s \in Server, NEW k \in Kanaele, NEW t, Post(K[s][k]) = {t},
           t.art \notin {"Anmeldung", "Auskunft", "Ende"}
    PROVE  OhneMelder(K, s, k)
<1>1. ASSUME NEW p \in Server, NEW q \in Kanaele, Verbunden(K, s, k, p, q)
      PROVE  ~(K[p][q].stichdatum > 0)
  <2>1. PaarGut(p, q, K[p][q], K[s][k]) BY <1>1, Enden
  <2> QED BY <2>1 DEF PaarGut
<1> QED BY <1>1 DEF OhneMelder

(* Who is responsible reports with its channel 0. *)
LEMMA Dialog ==
    ASSUME NEW K, NEW B, NEW Z, NEW L, NEW N, NEW z, Gut(K, B, Z, L, N, z), ~Verkuerzt,
           NEW s \in Server, NEW k \in Kanaele, NEW n \in Nummer, Zustaendig(s, K[s][k], n, B, N)
    PROVE  /\ k = 0
           /\ DialogGut(s, K[s][k], K[K[s][k].partner][K[s][k].gegen], n, B, Z)
<1>1. NetzGut(K, B, N, z) /\ MeldungGut(K, B, Z, L, N) BY DEF Gut
<1>2. k = 0
  <2>1. KanalGut(s, k, K[s][k], B, N, z) BY <1>1 DEF NetzGut
  <2> QED BY <2>1 DEF KanalGut, MelderGut, Zustaendig
<1>3. SyncGut(s, K, B, Z, N) BY <1>1 DEF MeldungGut
<1> QED BY <1>2, <1>3 DEF SyncGut

LEMMA DialogVon ==
    ASSUME NEW K, NEW B, NEW Z, NEW L, NEW N, NEW z, Gut(K, B, Z, L, N, z), ~Verkuerzt,
           NEW s \in Server, NEW k \in Kanaele, NEW p \in Server, NEW q \in Kanaele, Verbunden(K, s, k, p, q),
           NEW n \in Nummer, Zustaendig(p, K[p][q], n, B, N)
    PROVE  q = 0 /\ DialogGut(p, K[p][q], K[s][k], n, B, Z) /\ K[p][q].ende = "Kanal" /\ K[p][q].partner = s
<1>1. K \in Netze /\ NetzGut(K, B, N, z) BY DEF Gut, Werte
<1>2. K[p][q].partner = s /\ K[p][q].gegen = k /\ K[p][q].ende = "Kanal" BY <1>1, Enden
<1>3. q = 0 /\ DialogGut(p, K[p][q], K[K[p][q].partner][K[p][q].gegen], n, B, Z) BY Dialog
<1> QED BY <1>2, <1>3

LEMMA QuittungEmpfangenErhaelt ==
    ASSUME TlnInv, NEW s \in Server, NEW k \in Kanaele, QuittungEmpfangen(s, k)
    PROVE  TlnInv'
<1> DEFINE A == {"Quittung"}
           c == NachLesen(s, k)
<1>1. Liest(s, k, A) /\ Gelesen(s, k).art = "Quittung" BY DEF QuittungEmpfangen, Liest
<1>2. \/ c.gestartet /\ DatensatzSenden(s, k, c)
      \/ ~c.gestartet /\ Beantworten(s, k, c, Einfach("Fehler"))
  BY DEF QuittungEmpfangen
<1> HIDE DEF A, c
<1>3. /\ Gut(kanal, buch, stichzeit, letzte, neustarts, zeit)
      /\ kanal[s][k] \in Kanal /\ KanalGut(s, k, kanal[s][k], buch, neustarts, zeit)
      /\ kanal[s][k].offen = TRUE /\ kanal[s][k].ein # << >>
      /\ Nachher(kanal[s][k], c) /\ Post(kanal[s][k]) = {Gelesen(s, k)}
      /\ c.fertig = FALSE /\ c.rest = kanal[s][k].rest
  BY <1>1, Leser DEF c
<1>4. kanal \in Netze /\ NetzGut(kanal, buch, neustarts, zeit) BY <1>3 DEF Gut, Werte
<1>5. CASE c.gestartet /\ DatensatzSenden(s, k, c)
  <2>1. Abgelesen(kanal, s, k, c) /\ Listbar(buch, s, c) /\ c \in Kanal BY <1>3, NachherAbgelesen
  <2>2. Gelesen(s, k).art \notin {"Anmeldung", "Auskunft", "Ende"} BY <1>1
  <2>3. OhneMelder(kanal, s, k) BY <1>3, <1>4, <2>2, OhneMelderVon
  <2>4. ASSUME ~Verkuerzt, NEW n \in Nummer, Zustaendig(s, kanal[s][k], n, buch, neustarts)
        PROVE  Uebrig(s, c, n, buch, stichzeit)
    <3>1. DialogGut(s, kanal[s][k], kanal[kanal[s][k].partner][kanal[s][k].gegen], n, buch, stichzeit)
      BY <1>3, <2>4, Dialog
    <3>2. \E t \in Post(kanal[s][k]) : t.art = "Quittung" BY <1>1, <1>3
    <3>3. Uebrig(s, kanal[s][k], n, buch, stichzeit) BY <3>1, <3>2 DEF DialogGut
    <3> QED BY <1>3, <3>3 DEF Uebrig, Nachher
  <2>5. ~Verkuerzt => NochDa(kanal, s, k, c, buch, stichzeit, neustarts) BY <2>4 DEF NochDa
  <2> QED BY <1>3, <1>5, <2>1, <2>3, <2>5, DatensatzErhaelt
<1>6. CASE ~c.gestartet /\ Beantworten(s, k, c, Einfach("Fehler"))
  <2>1. kanal[s][k].gestartet = FALSE
    <3>1. kanal[s][k].gestartet \in BOOLEAN BY <1>3 DEF Kanal
    <3> QED BY <1>3, <1>6, <3>1 DEF Nachher, Gleich
  <2>2. kanal[s][k].stichdatum = 0 BY <1>3, <2>1, KeinMelder
  <2> QED BY <1>1, <1>3, <1>6, <2>2, FehlerErhaelt
<1> QED BY <1>2, <1>5, <1>6

(* The whole directory is asked for. *)
Ganzes(d, c, frei, R) ==
    d = [c EXCEPT !.freigabe = frei, !.stichdatum = 0, !.gestartet = TRUE, !.rest = R]

LEMMA GanzesAbgelesen ==
    ASSUME NEW K, NEW B, NEW Z, NEW L, NEW N, NEW z, Gut(K, B, Z, L, N, z),
           NEW s \in Server, NEW k \in Kanaele, K[s][k].offen = TRUE, K[s][k].ein # << >>,
           NEW c, Nachher(K[s][k], c), K[s][k].stichdatum = 0, OhneMelder(K, s, k),
           NEW frei \in BOOLEAN, frei = TRUE => K[s][k].partner # Keiner,
           NEW R \in SUBSET Nummer, \A n \in R : B[s][n].datum > 0, NEW d, Ganzes(d, c, frei, R)
    PROVE  /\ d \in Kanal /\ Abgelesen(K, s, k, d) /\ Listbar(B, s, d) /\ d.fertig = c.fertig
           /\ NochDa(K, s, k, d, B, Z, N)
<1>1. c \in Kanal BY DEF Nachher
<1>2. /\ d \in Kanal /\ d.ein = c.ein /\ d.offen = c.offen /\ d.partner = c.partner
      /\ d.ende = c.ende /\ d.gegen = c.gegen /\ d.aus = c.aus /\ d.freigabe = frei
      /\ d.stichdatum = 0 /\ d.rest = R /\ d.fertig = c.fertig
  <2>1. 0 \in 0 .. MaxZeit + 1 BY Groessen
  <2> QED BY <1>1, <2>1 DEF Ganzes, Kanal
<1>3. Fortgesetzt(K[s][k], d) BY <1>2 DEF Nachher, Fortgesetzt
<1>4. ~(K[s][k].stichdatum > 0) OBVIOUS
<1>5. ~(K[s][k].ende = "Kanal" /\ K[K[s][k].partner][K[s][k].gegen].stichdatum > 0)
  <2>1. K \in Netze /\ NetzGut(K, B, N, z) BY DEF Gut, Werte
  <2>2. CASE K[s][k].ende = "Kanal"
    <3>1. Verbunden(K, s, k, K[s][k].partner, K[s][k].gegen) BY <2>2 DEF Verbunden
    <3>2. K[s][k].partner \in Server /\ K[s][k].gegen \in Kanaele BY <2>1, <3>1, Enden
    <3> QED BY <3>1, <3>2 DEF OhneMelder
  <2> QED BY <2>2
<1>6. d.ein = << >> BY <1>2 DEF Nachher
<1>7. Abgelesen(K, s, k, d) BY <1>3, <1>4, <1>5, <1>6 DEF Abgelesen
<1>8. Listbar(B, s, d) BY <1>2 DEF Listbar
<1>9. NochDa(K, s, k, d, B, Z, N) BY <1>4 DEF NochDa, Zustaendig
<1> QED BY <1>2, <1>7, <1>8, <1>9

(* Only servers know the secret. *)
LEMMA GeheimnisVonServer ==
    ASSUME NEW c \in Kanal, c.offen = TRUE, NEW s, NEW k, NEW B, NEW N, NEW z, KanalGut(s, k, c, B, N, z),
           NEW t, Post(c) = {t}, Geheimnis(t)
    PROVE  c.partner # Keiner
BY DEF KanalGut, FremdGut

LEMMA ListeVerlangtErhaelt ==
    ASSUME TlnInv, NEW s \in Server, NEW k \in Kanaele, ListeVerlangt(s, k)
    PROVE  TlnInv'
<1> DEFINE A == {"Vollabfrage", "Suche"}
           c == NachLesen(s, k)
           t == Gelesen(s, k)
           R == Bestand(buch[s])
           ganz(frei) == [c EXCEPT !.freigabe = frei, !.stichdatum = 0, !.gestartet = TRUE, !.rest = R]
<1>1. Liest(s, k, A) /\ t.art \in A BY DEF ListeVerlangt, Liest
<1>2. \/ t.art = "Vollabfrage" /\ t.geheim = "falsch" /\ Beantworten(s, k, c, Einfach("Fehler"))
      \/ /\ t.art = "Vollabfrage" /\ t.geheim # "falsch"
         /\ DatensatzSenden(s, k, ganz(t.geheim = "richtig"))
      \/ DatensatzSenden(s, k, ganz(FALSE))
  BY DEF ListeVerlangt, Liest
<1> HIDE DEF A, c, R
<1>3. /\ Gut(kanal, buch, stichzeit, letzte, neustarts, zeit)
      /\ kanal[s][k] \in Kanal /\ KanalGut(s, k, kanal[s][k], buch, neustarts, zeit)
      /\ kanal[s][k].offen = TRUE /\ kanal[s][k].ein # << >>
      /\ Nachher(kanal[s][k], c) /\ Post(kanal[s][k]) = {t} /\ c.fertig = FALSE
  BY <1>1, Leser DEF c
<1>4. kanal \in Netze /\ NetzGut(kanal, buch, neustarts, zeit) BY <1>3 DEF Gut, Werte
<1>5. t.art \in {"Vollabfrage", "Suche"} BY <1>1 DEF A
<1>6. kanal[s][k].stichdatum = 0
  <2>1. t.art \notin {"Quittung", "Fehler"} BY <1>5
  <2> HIDE DEF t
  <2> QED BY <1>3, <2>1, KeinMelder
<1>7. OhneMelder(kanal, s, k)
  <2>1. t.art \notin {"Anmeldung", "Auskunft", "Ende"} BY <1>5
  <2> HIDE DEF t
  <2> QED BY <1>3, <1>4, <2>1, OhneMelderVon
<1>8. R \in SUBSET Nummer /\ \A n \in R : buch[s][n].datum > 0 BY DEF R, Bestand
<1>9. ASSUME NEW frei \in BOOLEAN, frei = TRUE => kanal[s][k].partner # Keiner,
             NEW d, Ganzes(d, c, frei, R), DatensatzSenden(s, k, d)
      PROVE  TlnInv'
  <2>1. /\ d \in Kanal /\ Abgelesen(kanal, s, k, d) /\ Listbar(buch, s, d) /\ d.fertig = c.fertig
        /\ NochDa(kanal, s, k, d, buch, stichzeit, neustarts)
    <3> HIDE DEF t
    <3> QED BY <1>3, <1>6, <1>7, <1>8, <1>9, GanzesAbgelesen
  <2> QED BY <1>3, <1>7, <1>9, <2>1, DatensatzErhaelt
<1>10. CASE t.art = "Vollabfrage" /\ t.geheim = "falsch" /\ Beantworten(s, k, c, Einfach("Fehler"))
  BY <1>1, <1>3, <1>6, <1>10, FehlerErhaelt
<1>11. CASE DatensatzSenden(s, k, ganz(FALSE))
  <2> DEFINE d == ganz(FALSE)
             frei == FALSE
  <2>1. Ganzes(d, c, frei, R) /\ DatensatzSenden(s, k, d) BY <1>11 DEF Ganzes
  <2>2. frei \in BOOLEAN /\ (frei = TRUE => kanal[s][k].partner # Keiner) OBVIOUS
  <2> HIDE DEF d, frei, t
  <2> QED BY <1>9, <2>1, <2>2
<1>12. CASE t.art = "Vollabfrage" /\ DatensatzSenden(s, k, ganz(t.geheim = "richtig"))
  <2> DEFINE frei == t.geheim = "richtig"
             d == ganz(frei)
  <2>1. Ganzes(d, c, frei, R) /\ DatensatzSenden(s, k, d) BY <1>12 DEF Ganzes
  <2>2. frei \in BOOLEAN OBVIOUS
  <2>3. ASSUME frei = TRUE PROVE kanal[s][k].partner # Keiner
    <3>1. t.geheim = "richtig" BY <2>3
    <3>2. Geheimnis(t) BY <1>12, <3>1 DEF Geheimnis
    <3> HIDE DEF t
    <3> QED BY <1>3, <3>2, GeheimnisVonServer
  <2> HIDE DEF d, frei, t
  <2> QED BY <1>9, <2>1, <2>2, <2>3
<1> QED BY <1>2, <1>10, <1>11, <1>12

(* A confirmation of what a server reports. *)
LEMMA AntwortQuittung ==
    ASSUME NEW K, NEW B, NEW Z, NEW L, NEW N, NEW z, Gut(K, B, Z, L, N, z),
           NEW s \in Server, NEW k \in Kanaele, NEW d, Nachher(K[s][k], d), K[s][k].stichdatum = 0,
           ~Verkuerzt => \A p \in Server, q \in Kanaele, n \in Nummer :
               Verbunden(K, s, k, p, q) /\ Zustaendig(p, K[p][q], n, B, N) => Uebrig(p, K[p][q], n, B, Z),
           NEW tel, tel.art = "Quittung"
    PROVE  Antwort(K, s, k, d, tel, B, Z, N, z)
<1>1. ~(d.stichdatum > 0) /\ d.partner = K[s][k].partner BY DEF Nachher, Gleich
<1>2. ASSUME NEW p \in Server, NEW q \in Kanaele, Verbunden(K, s, k, p, q)
      PROVE  /\ DarfSenden(s, d, K[p][q], tel, B, N, z)
             /\ ~Verkuerzt => MeldetRichtig(s, d, K[p][q], tel, B, Z, N)
  <2>1. DarfSenden(s, d, K[p][q], tel, B, N, z) BY <1>1 DEF DarfSenden, DarfBekommen, Belegtes
  <2>2. d.partner = p BY <1>1, <1>2 DEF Verbunden
  <2>3. ~Verkuerzt => MeldetRichtig(s, d, K[p][q], tel, B, Z, N)
    BY <1>1, <1>2, <2>2 DEF MeldetRichtig, Zustaendig
  <2> QED BY <2>1, <2>3
<1> QED BY <1>2 DEF Antwort

Freigegeben(d, c) == d = [c EXCEPT !.freigabe = TRUE]

LEMMA NachherFreigegeben ==
    ASSUME NEW a, NEW c, Nachher(a, c), a.partner # Keiner, NEW d, Freigegeben(d, c)
    PROVE  Nachher(a, d) /\ d.fertig = c.fertig
<1>1. c \in Kanal BY DEF Nachher
<1>2. /\ d \in Kanal /\ d.ein = c.ein /\ d.offen = c.offen /\ d.partner = c.partner
      /\ d.ende = c.ende /\ d.gegen = c.gegen /\ d.aus = c.aus /\ d.fertig = c.fertig
      /\ d.vollabfrage = c.vollabfrage /\ d.gestartet = c.gestartet
      /\ d.stichdatum = c.stichdatum /\ d.rest = c.rest
  BY <1>1 DEF Freigegeben, Kanal
<1> QED BY <1>2 DEF Nachher, Gleich

LEMMA AnmeldungEmpfangenErhaelt ==
    ASSUME TlnInv, NEW s \in Server, NEW k \in Kanaele, AnmeldungEmpfangen(s, k)
    PROVE  TlnInv'
<1> DEFINE A == {"Anmeldung"}
           c == NachLesen(s, k)
           d == [c EXCEPT !.freigabe = TRUE]
           t == Gelesen(s, k)
<1>1. Liest(s, k, A) /\ t.art = "Anmeldung" BY DEF AnmeldungEmpfangen, Liest
<1>2. \/ t.geheim = "richtig" /\ Beantworten(s, k, d, Einfach("Quittung"))
      \/ Beantworten(s, k, c, Einfach("Fehler"))
  BY DEF AnmeldungEmpfangen
<1>3. Freigegeben(d, c) BY DEF Freigegeben
<1> HIDE DEF A, c, d, t
<1>4. /\ Gut(kanal, buch, stichzeit, letzte, neustarts, zeit)
      /\ kanal[s][k] \in Kanal /\ KanalGut(s, k, kanal[s][k], buch, neustarts, zeit)
      /\ kanal[s][k].offen = TRUE /\ kanal[s][k].ein # << >>
      /\ Nachher(kanal[s][k], c) /\ Post(kanal[s][k]) = {t} /\ c.fertig = FALSE
  BY <1>1, Leser DEF c, t
<1>5. kanal[s][k].stichdatum = 0 BY <1>1, <1>4, KeinMelder
<1>6. CASE t.geheim = "richtig" /\ Beantworten(s, k, d, Einfach("Quittung"))
  <2> DEFINE tel == Einfach("Quittung")
  <2>1. tel \in Telegramm /\ tel.art = "Quittung" BY EinfachTyp
  <2>2. Beantworten(s, k, d, tel) BY <1>6
  <2> HIDE DEF tel
  <2>3. Geheimnis(t) BY <1>1, <1>6 DEF Geheimnis
  <2>4. kanal[s][k].partner # Keiner BY <1>4, <2>3, GeheimnisVonServer
  <2>5. Nachher(kanal[s][k], d) /\ d.fertig = FALSE BY <1>3, <1>4, <2>4, NachherFreigegeben
  <2>6. Abgelesen(kanal, s, k, d) /\ Listbar(buch, s, d) /\ d \in Kanal
    BY <1>4, <2>5, NachherAbgelesen
  <2>7. ASSUME ~Verkuerzt, NEW p \in Server, NEW q \in Kanaele, NEW n \in Nummer,
               Verbunden(kanal, s, k, p, q), Zustaendig(p, kanal[p][q], n, buch, neustarts)
        PROVE  Uebrig(p, kanal[p][q], n, buch, stichzeit)
    <3>1. DialogGut(p, kanal[p][q], kanal[s][k], n, buch, stichzeit) /\ kanal[p][q].ende = "Kanal"
      BY <1>4, <2>7, DialogVon
    <3> QED BY <1>1, <1>4, <3>1 DEF DialogGut
  <2>8. Antwort(kanal, s, k, d, tel, buch, stichzeit, neustarts, zeit)
    BY <1>4, <1>5, <2>1, <2>5, <2>7, AntwortQuittung
  <2>9. Geliefert(kanal, s, k, d, buch, stichzeit, neustarts) BY <2>5 DEF Geliefert
  <2> QED BY <2>1, <2>2, <2>6, <2>8, <2>9, BeantwortenErhaelt
<1>7. CASE Beantworten(s, k, c, Einfach("Fehler")) BY <1>1, <1>4, <1>5, <1>7, FehlerErhaelt
<1> QED BY <1>2, <1>6, <1>7

(***************************************************************************)
(* A channel is closed.                                                    *)
(***************************************************************************)
LEMMA ZuErhaelt ==
    ASSUME TlnInv, NEW s \in Server, NEW k \in Kanaele, kanal' = Schliessen(kanal, s, k),
           NEW y \in Zeilen, Zeile(stichzeit', stichzeit, s, y), \A t \in Server : y[t] <= stichzeit[s][t],
           k = 0 /\ kanal[s][0].partner \in Server /\ kanal[s][0].stichdatum > 0
              /\ kanal[s][0].gestartet = TRUE /\ kanal[s][0].fertig = FALSE
              => y[kanal[s][0].partner] <= kanal[s][0].stichdatum
    PROVE  Gut(kanal', buch, stichzeit', letzte, neustarts, zeit)
<1>1. /\ Gut(kanal, buch, stichzeit, letzte, neustarts, zeit) /\ kanal \in Netze /\ buch \in Buecher
      /\ NetzGut(kanal, buch, neustarts, zeit) /\ stichzeit \in [Server -> Zeilen]
  BY DEF TlnInv, Gut, Werte
<1>2. Zeile(stichzeit, stichzeit, s, stichzeit[s]) BY <1>1 DEF Zeile
<1>3. stichzeit[s] \in Zeilen BY <1>1
<1>4. stichzeit' \in [Server -> Zeilen] /\ stichzeit'[s] = y /\ Zurueck(stichzeit', stichzeit)
  BY <1>1, <1>2, <1>3, ZeileGesetzt
<1>5. k = 0 => Abgemeldet(s, kanal[s][0], buch, stichzeit', neustarts) BY <1>1, <1>4, MitZurueck
<1> QED BY <1>1, <1>4, <1>5, GutSchliessen

LEMMA UngeaenderteZeile ==
    ASSUME TlnInv, NEW s \in Server
    PROVE  /\ stichzeit[s] \in Zeilen /\ Zeile(stichzeit, stichzeit, s, stichzeit[s])
           /\ \A t \in Server : stichzeit[s][t] <= stichzeit[s][t]
<1>1. stichzeit \in [Server -> Zeilen] BY DEF TlnInv, Gut, Werte
<1>2. stichzeit[s] \in Zeilen /\ Zeile(stichzeit, stichzeit, s, stichzeit[s]) BY <1>1 DEF Zeile
<1>3. \A t \in Server : stichzeit[s][t] \in Int BY <1>2 DEF Zeilen
<1> QED BY <1>2, <1>3

LEMMA EndeEmpfangenErhaelt ==
    ASSUME TlnInv, NEW s \in Server, NEW k \in Kanaele, EndeEmpfangen(s, k)
    PROVE  TlnInv'
<1> DEFINE A == {"Ende"}
           c == NachLesen(s, k)
<1>1. /\ Liest(s, k, A) /\ kanal' = Schliessen(kanal, s, k)
      /\ vollErfolg' = [vollErfolg EXCEPT ![s] = @ \/ kanal[s][k].vollabfrage]
      /\ stichzeit' = stichzeit
      /\ UNCHANGED <<buch, letzte, stoerungen, umgebung>>
  BY DEF EndeEmpfangen
<1>2. Gelesen(s, k).art = "Ende" BY DEF EndeEmpfangen, Liest
<1> HIDE DEF A, c
<1>3. /\ kanal[s][k] \in Kanal /\ KanalGut(s, k, kanal[s][k], buch, neustarts, zeit)
      /\ Post(kanal[s][k]) = {Gelesen(s, k)}
  BY <1>1, Leser DEF c
<1>4. kanal[s][k].stichdatum = 0
  <2>1. Gelesen(s, k).art \notin {"Quittung", "Fehler"} BY <1>2
  <2> QED BY <1>3, <2>1, KeinMelder
<1>5. Gut(kanal', buch, stichzeit', letzte, neustarts, zeit)
  <2> DEFINE y == stichzeit[s]
  <2>1. /\ y \in Zeilen /\ Zeile(stichzeit', stichzeit, s, y)
        /\ \A t \in Server : y[t] <= stichzeit[s][t]
    BY <1>1, UngeaenderteZeile
  <2>2. k = 0 => ~(kanal[s][0].stichdatum > 0) BY <1>4
  <2> HIDE DEF y
  <2> QED BY <1>1, <2>1, <2>2, ZuErhaelt
<1>6. vollErfolg' \in [Server -> BOOLEAN]
  <2>1. vollErfolg \in [Server -> BOOLEAN] BY DEF TlnInv, UmgebungTyp
  <2> DEFINE b == vollErfolg[s] \/ kanal[s][k].vollabfrage
  <2>2. vollErfolg' = [vollErfolg EXCEPT ![s] = b] BY <1>1
  <2>3. b \in BOOLEAN OBVIOUS
  <2> HIDE DEF b
  <2> QED BY <2>1, <2>2, <2>3
<1> QED BY <1>1, <1>5, <1>6 DEF TlnInv, UmgebungTyp, umgebung

LEMMA FehlerEmpfangenErhaelt ==
    ASSUME TlnInv, NEW s \in Server, NEW k \in Kanaele, FehlerEmpfangen(s, k)
    PROVE  TlnInv'
<1> DEFINE A == {"Fehler"}
           y == Zurueckgesetzt(stichzeit[s], kanal[s][k])
           c == NachLesen(s, k)
<1>1. /\ Liest(s, k, A) /\ kanal' = Schliessen(kanal, s, k)
      /\ stichzeit' = [stichzeit EXCEPT ![s] = Zurueckgesetzt(stichzeit[s], kanal[s][k])]
      /\ UNCHANGED <<buch, letzte, vollErfolg, stoerungen, umgebung>>
  BY DEF FehlerEmpfangen
<1>2. Zeile(stichzeit', stichzeit, s, y) BY <1>1 DEF Zeile
<1>3. stichzeit[s] \in Zeilen BY UngeaenderteZeile
<1>4. kanal[s][k] \in Kanal
  <2> HIDE DEF A, c
  <2> QED BY <1>1, Leser DEF c
<1>5. /\ y \in Zeilen /\ \A t \in Server : y[t] <= stichzeit[s][t]
      /\ kanal[s][k].partner \in Server /\ kanal[s][k].stichdatum > 0
            => y[kanal[s][k].partner] <= kanal[s][k].stichdatum
  <2>1. y = Zurueckgesetzt(stichzeit[s], kanal[s][k]) OBVIOUS
  <2> HIDE DEF y
  <2> QED BY <1>3, <1>4, <2>1, Zurueckstellen
<1> HIDE DEF y
<1>6. Gut(kanal', buch, stichzeit', letzte, neustarts, zeit) BY <1>1, <1>2, <1>5, ZuErhaelt
<1> QED BY <1>1, <1>6 DEF TlnInv, UmgebungTyp, umgebung

LEMMA GegenseiteZuErhaelt ==
    ASSUME TlnInv, NEW s \in Server, NEW k \in Kanaele, GegenseiteZu(s, k)
    PROVE  TlnInv'
<1> DEFINE c == kanal[s][k]
           y == IF c.fertig \/ ~c.gestartet THEN stichzeit[s] ELSE Zurueckgesetzt(stichzeit[s], c)
<1>1. /\ kanal' = Schliessen(kanal, s, k) /\ stichzeit' = [stichzeit EXCEPT ![s] = y]
      /\ UNCHANGED <<buch, letzte, vollErfolg, stoerungen, umgebung>>
  BY DEF GegenseiteZu
<1>2. Zeile(stichzeit', stichzeit, s, y) BY <1>1 DEF Zeile
<1>3. stichzeit[s] \in Zeilen /\ \A t \in Server : stichzeit[s][t] <= stichzeit[s][t]
  BY UngeaenderteZeile
<1>4. c \in Kanal BY DEF TlnInv, Gut, Werte, Netze
<1>5. /\ y \in Zeilen /\ \A t \in Server : y[t] <= stichzeit[s][t]
      /\ c.partner \in Server /\ c.stichdatum > 0 /\ c.gestartet = TRUE /\ c.fertig = FALSE
            => y[c.partner] <= c.stichdatum
  <2>1. CASE c.fertig \/ ~c.gestartet
    <3>1. y = stichzeit[s] BY <2>1
    <3> HIDE DEF y, c
    <3> QED BY <1>3, <2>1, <3>1
  <2>2. CASE ~(c.fertig \/ ~c.gestartet)
    <3>1. y = Zurueckgesetzt(stichzeit[s], c) BY <2>2
    <3> HIDE DEF y, c
    <3> QED BY <1>3, <1>4, <3>1, Zurueckstellen
  <2> QED BY <2>1, <2>2
<1> HIDE DEF y
<1>6. Gut(kanal', buch, stichzeit', letzte, neustarts, zeit) BY <1>1, <1>2, <1>5, ZuErhaelt
<1> QED BY <1>1, <1>6 DEF TlnInv, UmgebungTyp, umgebung

LEMMA SelbstAbbauErhaelt ==
    ASSUME TlnInv, NEW s \in Server, NEW k \in Kanaele, SelbstAbbau(s, k)
    PROVE  TlnInv'
<1>1. /\ kanal' = Schliessen(kanal, s, k) /\ stichzeit' = stichzeit /\ kanal[s][k].fertig
      /\ UNCHANGED <<buch, letzte, vollErfolg, stoerungen, umgebung>>
  BY DEF SelbstAbbau
<1>2. Zeile(stichzeit', stichzeit, s, stichzeit[s]) BY <1>1, UngeaenderteZeile
<1>3. k = 0 => ~(kanal[s][0].fertig = FALSE) BY <1>1
<1>4. Gut(kanal', buch, stichzeit', letzte, neustarts, zeit)
  BY <1>1, <1>2, <1>3, UngeaenderteZeile, ZuErhaelt
<1> QED BY <1>1, <1>4 DEF TlnInv, UmgebungTyp, umgebung

(***************************************************************************)
(* A connection breaks or is given up.                                     *)
(***************************************************************************)
BeideZu(K, s, k) ==
    LET c == K[s][k]
        L == [K EXCEPT ![s][k].ende = "zu"]
    IN  IF HatGegenueber(c) THEN [L EXCEPT ![c.partner][c.gegen].ende = "zu"] ELSE L

EndeZu(K2, K, p, q) == K2 = [K EXCEPT ![p][q].ende = "zu"]

LEMMA EndeZuWirkung ==
    ASSUME NEW K \in Netze, NEW p \in Server, NEW q \in Kanaele, NEW K2, EndeZu(K2, K, p, q)
    PROVE  K2 \in Netze /\ Verlassen(K2[p][q], K[p][q]) /\ Nur(K2, K, p, q)
BY ZuGesetzt DEF EndeZu

LEMMA BeideZuWirkung ==
    ASSUME NEW K \in Netze, NEW B, NEW N, NEW z, NetzGut(K, B, N, z),
           NEW s \in Server, NEW k \in Kanaele, NEW K2, K2 = BeideZu(K, s, k)
    PROVE  /\ K2 \in Netze /\ Verlassen(K2[s][k], K[s][k])
           /\ K[s][k].ende # "Kanal" => Nur(K2, K, s, k)
           /\ \A p \in Server, q \in Kanaele : Verbunden(K, s, k, p, q) =>
                 Verlassen(K2[p][q], K[p][q]) /\ NurBeide(K2, K, s, k, p, q)
<1> DEFINE c == K[s][k]
           K1 == [K EXCEPT ![s][k].ende = "zu"]
<1>1. K1 \in Netze /\ Verlassen(K1[s][k], K[s][k]) /\ Nur(K1, K, s, k) BY ZuGesetzt
<1>2. CASE c.ende # "Kanal"
  <2>1. K2 = K1 BY <1>2 DEF BeideZu, HatGegenueber
  <2> HIDE DEF K1
  <2>2. \A p, q : ~Verbunden(K, s, k, p, q) BY <1>2 DEF Verbunden
  <2> QED BY <1>1, <2>1, <2>2
<1>3. CASE c.ende = "Kanal"
  <2> DEFINE p == c.partner
             q == c.gegen
  <2>1. p \in Server /\ p # s /\ q \in Kanaele BY <1>3, Gegenueber
  <2>2. EndeZu(K2, K1, p, q) BY <1>3 DEF BeideZu, HatGegenueber, EndeZu
  <2> HIDE DEF K1, p, q, c
  <2>3. K2 \in Netze /\ Verlassen(K2[p][q], K1[p][q]) /\ Nur(K2, K1, p, q)
    BY <1>1, <2>1, <2>2, EndeZuWirkung
  <2>4. K1[p][q] = K[p][q] /\ K2[s][k] = K1[s][k] BY <1>1, <2>1, <2>3 DEF Nur
  <2>5. NurBeide(K2, K, s, k, p, q) BY <1>1, <2>3 DEF Nur, NurBeide
  <2>6. \A p2, q2 : Verbunden(K, s, k, p2, q2) => p2 = p /\ q2 = q BY DEF Verbunden, c, p, q
  <2> QED BY <1>1, <1>3, <2>3, <2>4, <2>5, <2>6 DEF c
<1> QED BY <1>2, <1>3

LEMMA BeideZuErhaelt ==
    ASSUME TlnInv, NEW s \in Server, NEW k \in Kanaele, kanal' = BeideZu(kanal, s, k)
    PROVE  Gut(kanal', buch, stichzeit, letzte, neustarts, zeit)
<1>1. /\ Gut(kanal, buch, stichzeit, letzte, neustarts, zeit) /\ kanal \in Netze
      /\ NetzGut(kanal, buch, neustarts, zeit)
  BY DEF TlnInv, Gut, Werte
<1>2. /\ kanal' \in Netze /\ Verlassen(kanal'[s][k], kanal[s][k])
      /\ kanal[s][k].ende # "Kanal" => Nur(kanal', kanal, s, k)
      /\ \A p \in Server, q \in Kanaele : Verbunden(kanal, s, k, p, q) =>
            Verlassen(kanal'[p][q], kanal[p][q]) /\ NurBeide(kanal', kanal, s, k, p, q)
  BY <1>1, BeideZuWirkung
<1> QED BY <1>1, <1>2, GutVerlassen

LEMMA VerbindungBrichtErhaelt ==
    ASSUME TlnInv, NEW s \in Server, NEW k \in Kanaele, VerbindungBricht(s, k)
    PROVE  TlnInv'
<1>1. /\ kanal' = BeideZu(kanal, s, k) /\ stoerungen > 0 /\ stoerungen' = stoerungen - 1
      /\ UNCHANGED <<buch, stichzeit, letzte, vollErfolg, umgebung>>
  BY DEF VerbindungBricht, BeideZu
<1>2. Gut(kanal', buch, stichzeit, letzte, neustarts, zeit) BY <1>1, BeideZuErhaelt
<1>3. UmgebungTyp BY DEF TlnInv
<1>4. stoerungen' \in 0 .. MaxStoerungen BY <1>1, <1>3, Groessen DEF UmgebungTyp
<1>5. Gut(kanal', buch', stichzeit', letzte', neustarts', zeit') BY <1>1, <1>2 DEF umgebung
<1> QED BY <1>1, <1>3, <1>4, <1>5 DEF TlnInv, UmgebungTyp, umgebung

LEMMA ZeitueberschreitungErhaelt ==
    ASSUME TlnInv, NEW s \in Server, NEW k \in Kanaele, Zeitueberschreitung(s, k)
    PROVE  TlnInv'
<1> DEFINE c == kanal[s][k]
<1>1. /\ \/ c.ende = "Fremd" /\ kanal' = [kanal EXCEPT ![s][k].ende = "zu"]
         \/ /\ HatGegenueber(c)
            /\ kanal' = [kanal EXCEPT ![s][k].ende = "zu", ![c.partner][c.gegen].ende = "zu"]
      /\ UNCHANGED <<buch, stichzeit, letzte, vollErfolg, stoerungen, umgebung>>
  BY DEF Zeitueberschreitung
<1>2. kanal' = BeideZu(kanal, s, k) BY <1>1 DEF BeideZu, HatGegenueber
<1>3. Gut(kanal', buch, stichzeit, letzte, neustarts, zeit) BY <1>2, BeideZuErhaelt
<1> QED BY <1>1, <1>3 DEF TlnInv, UmgebungTyp, umgebung

(***************************************************************************)
(* Time goes on; entries become newer, servers restart.                    *)
(***************************************************************************)
Waechst(B, B2, N, N2) ==
    /\ \A p \in Server, n \in Nummer : B2[p][n].datum >= B[p][n].datum \/ N2[p] > 0
    /\ \A p \in Server : N[p] > 0 => N2[p] > 0

LEMMA BelegtesWaechst ==
    ASSUME NEW B \in Buecher, NEW B2 \in Buecher, NEW N, NEW N2, NEW z \in Int, NEW z2 \in Int,
           Waechst(B, B2, N, N2), z <= z2,
           NEW p \in Server, NEW t \in Telegramm, Belegtes(t, p, B, N, z)
    PROVE  Belegtes(t, p, B2, N2, z2)
<1> SUFFICES ASSUME t.art = "Auskunft" PROVE Belegtes(t, p, B2, N2, z2) BY DEF Belegtes
<1>1. t \in Auskunft BY TelegrammArt
<1>2. t.nr \in Nummer /\ t.eintrag.datum \in Int BY <1>1 DEF Auskunft, Eintrag
<1>3. \A u \in Server : B[u][t.nr].datum \in Int /\ B2[u][t.nr].datum \in Int
  BY <1>2 DEF Buecher, Eintrag
<1>4. \A u \in Server : B[u][t.nr].datum >= t.eintrag.datum \/ N[u] > 0
                           => B2[u][t.nr].datum >= t.eintrag.datum \/ N2[u] > 0
  BY <1>2, <1>3 DEF Waechst
<1>5. t.eintrag.datum <= z /\ Echt(t.nr, t.eintrag, B, N) BY DEF Belegtes
<1>6. t.eintrag.datum <= z2 BY <1>2, <1>5
<1>7. Echt(t.nr, t.eintrag, B2, N2) BY <1>4, <1>5 DEF Echt
<1> QED BY <1>4, <1>6, <1>7 DEF Belegtes

LEMMA NetzWaechst ==
    ASSUME NEW K \in Netze, NEW B \in Buecher, NEW B2 \in Buecher, NEW N, NEW N2,
           NEW z \in Int, NEW z2 \in Int, Waechst(B, B2, N, N2), z <= z2,
           NetzGut(K, B, N, z), BuchGut(B2, N2, z2)
    PROVE  NetzGut(K, B2, N2, z2)
<1>1. ASSUME NEW s \in Server, NEW k \in Kanaele
      PROVE  KanalGut(s, k, K[s][k], B2, N2, z2)
  <2> DEFINE c == K[s][k]
  <2>1. KanalGut(s, k, c, B, N, z) /\ c \in Kanal BY DEF NetzGut, Netze
  <2> HIDE DEF c
  <2>2. Post(c) \subseteq Telegramm /\ c.partner \in Server \cup {Keiner} BY <2>1, PostTyp DEF Kanal
  <2>3. ASSUME c.partner # Keiner, NEW t \in Post(c) PROVE Belegtes(t, c.partner, B2, N2, z2)
    <3>1. Belegtes(t, c.partner, B, N, z) BY <2>1, <2>3 DEF KanalGut, ServerGut
    <3> QED BY <2>2, <2>3, <3>1, BelegtesWaechst
  <2>4. ServerGut(s, c, B2, N2, z2) BY <2>1, <2>3 DEF KanalGut, ServerGut
  <2>5. KanalGut(s, k, c, B2, N2, z2) BY <2>1, <2>4 DEF KanalGut
  <2> QED BY <2>5 DEF c
<1>2. \A s \in Server, k \in Kanaele : K[s][k].ende = "Kanal" =>
         /\ K[s][k].partner # Keiner
         /\ PaarGut(s, k, K[s][k], K[K[s][k].partner][K[s][k].gegen])
  BY DEF NetzGut
<1> QED BY <1>1, <1>2 DEF NetzGut

LEMMA EchtWaechst ==
    ASSUME NEW B \in Buecher, NEW B2 \in Buecher, NEW N, NEW N2, Waechst(B, B2, N, N2),
           NEW n \in Nummer, NEW e \in Eintrag, Echt(n, e, B, N)
    PROVE  Echt(n, e, B2, N2)
<1>1. \A u \in Server : B[u][n].datum \in Int /\ B2[u][n].datum \in Int BY DEF Buecher, Eintrag
<1>2. e.datum \in Int BY DEF Eintrag
<1> QED BY <1>1, <1>2 DEF Echt, Waechst

LEMMA SekundeErhaelt ==
    ASSUME TlnInv, Sekunde
    PROVE  TlnInv'
<1>1. /\ zeit < MaxZeit /\ zeit' = zeit + 1
      /\ UNCHANGED <<buch, stichzeit, letzte, vollErfolg, vollFaellig, kanal, stoerungen,
                     aenderungen, neustarts, fremde>>
  BY DEF Sekunde
<1>2. /\ Gut(kanal, buch, stichzeit, letzte, neustarts, zeit) /\ kanal \in Netze /\ buch \in Buecher
      /\ NetzGut(kanal, buch, neustarts, zeit) /\ zeit \in 1 .. MaxZeit
  BY DEF TlnInv, Gut, Werte
<1>3. zeit \in Int /\ zeit' \in Int /\ zeit <= zeit' /\ zeit' \in 1 .. MaxZeit
  BY <1>1, <1>2, Groessen
<1>4. Waechst(buch, buch, neustarts, neustarts)
  <2>1. \A p \in Server, n \in Nummer : buch[p][n].datum \in Int BY <1>2 DEF Buecher, Eintrag
  <2> QED BY <2>1 DEF Waechst
<1>5. BuchGut(buch, neustarts, zeit')
  <2>1. BuchGut(buch, neustarts, zeit) BY <1>2 DEF NetzGut
  <2>2. \A p \in Server, n \in Nummer : buch[p][n].datum \in Int BY <1>2 DEF Buecher, Eintrag
  <2> QED BY <1>3, <2>1, <2>2 DEF BuchGut
<1>6. NetzGut(kanal, buch, neustarts, zeit') BY <1>2, <1>3, <1>4, <1>5, NetzWaechst
<1>7. Gut(kanal, buch, stichzeit, letzte, neustarts, zeit') BY <1>2, <1>3, <1>6 DEF Gut, Werte
<1> QED BY <1>1, <1>7 DEF TlnInv, UmgebungTyp

LEMMA VollAbfrageWirdFaelligErhaelt ==
    ASSUME TlnInv, NEW s \in Server, VollAbfrageWirdFaellig(s)
    PROVE  TlnInv'
<1>1. /\ vollFaellig' = [vollFaellig EXCEPT ![s] = TRUE]
      /\ UNCHANGED <<buch, stichzeit, letzte, vollErfolg, kanal, stoerungen, zeit,
                     aenderungen, neustarts, fremde>>
  BY DEF VollAbfrageWirdFaellig
<1>2. vollFaellig' \in [Server -> BOOLEAN] BY <1>1 DEF TlnInv, UmgebungTyp
<1> QED BY <1>1, <1>2 DEF TlnInv, UmgebungTyp

(***************************************************************************)
(* A channel is used anew, or a client sends.                              *)
(***************************************************************************)
LEMMA GutErsetzt ==
    ASSUME NEW K, NEW B, NEW Z, NEW L, NEW N, NEW z, Gut(K, B, Z, L, N, z),
           NEW s \in Server, NEW k \in Kanaele, K[s][k].ende # "Kanal", K[s][k].stichdatum = 0,
           NEW d \in Kanal, KanalGut(s, k, d, B, N, z), d.ende # "Kanal", d.stichdatum = 0,
           d.rest \subseteq K[s][k].rest, NEW K2, Setzt(K2, K, s, k, d)
    PROVE  Gut(K2, B, Z, L, N, z)
<1>1. /\ Werte(K, B, Z, L, N, z) /\ NetzGut(K, B, N, z) /\ RestGut(K, B) /\ K \in Netze
      /\ B \in Buecher /\ Z \in [Server -> Zeilen] /\ Zurueck(Z, Z)
  BY ZurueckSelbst DEF Gut, Werte
<1>2. K2 \in Netze /\ K2[s][k] = d /\ Nur(K2, K, s, k) BY <1>1, Gesetzt
<1>3. NetzGut(K2, B, N, z) BY <1>1, <1>2, NetzErsetzt
<1>4. RestGut(K2, B) BY <1>1, <1>2 DEF RestGut, Nur
<1>5. ASSUME MeldungGut(K, B, Z, L, N) PROVE MeldungGut(K2, B, Z, L, N)
  <2>1. ~(d.stichdatum > 0) /\ ~(K[s][k].stichdatum > 0) OBVIOUS
  <2>2. k = 0 => MeldetWeiter(s, K, K2, B, Z, N)
    BY <1>2, <2>1 DEF MeldetWeiter, SyncGut, Zustaendig, Laeuft
  <2> QED BY <1>1, <1>2, <1>5, <2>2, MeldAllein
<1>6. Werte(K2, B, Z, L, N, z) BY <1>1, <1>2 DEF Werte
<1> QED BY <1>3, <1>4, <1>5, <1>6 DEF Gut

LEMMA FremdTyp ==
    ASSUME NEW t \in FremdTelegramme
    PROVE  t \in Telegramm /\ ~Geheimnis(t)
<1> DEFINE W == [KeinEintrag EXCEPT !.datum = MaxZeit]
<1>1. W \in Eintrag
  <2>1. MaxZeit \in 0 .. MaxZeit BY Groessen
  <2>2. KeinEintrag \in Eintrag BY Groessen DEF KeinEintrag, Eintrag
  <2> QED BY <2>1, <2>2 DEF Eintrag
<1>2. CASE t \in Anmeldungen /\ t.geheim # "richtig" BY <1>2 DEF Telegramm, Geheimnis
<1>3. CASE t \in Selbstakt \cup Abfragen
  BY <1>3 DEF Telegramm, Geheimnis, Selbstakt, Abfragen
<1>4. CASE t \in {Einfach(a) : a \in {"Suche", "Quittung", "Rueckmeldung"}}
  <2>1. PICK a \in {"Suche", "Quittung", "Rueckmeldung"} : t = Einfach(a) BY <1>4
  <2>2. t \in Telegramm /\ t.art = a BY <2>1, EinfachTyp
  <2>3. ~Geheimnis(t) BY <2>2 DEF Geheimnis
  <2> QED BY <2>2, <2>3
<1>5. CASE t \in [art : {"Auskunft"}, nr : Nummer, pin : {FALSE}, eintrag : {W}]
  <2> HIDE DEF W
  <2>1. t \in Auskunft BY <1>1, <1>5 DEF Auskunft
  <2>2. t.art = "Auskunft" BY <1>5
  <2> QED BY <2>1, <2>2 DEF Telegramm, Geheimnis
<1> QED BY <1>2, <1>3, <1>4, <1>5 DEF FremdTelegramme

(* A channel of a client, with its telegram. *)
LEMMA FremdKanal ==
    ASSUME NEW s, NEW k, NEW B, NEW N, NEW z, NEW c \in Kanal, c.partner = Keiner, c.ende = "Fremd",
           c.offen = TRUE, c.freigabe = FALSE, c.stichdatum = 0,
           NEW t \in FremdTelegramme, NEW d, MitPost(d, c, t)
    PROVE  /\ d \in Kanal /\ KanalGut(s, k, d, B, N, z) /\ d.ende = "Fremd" /\ d.stichdatum = 0
           /\ d.rest = c.rest
<1> DEFINE e == << t >>
<1>1. t \in Telegramm /\ ~Geheimnis(t) BY FremdTyp
<1>2. e \in Seq(Telegramm) BY <1>1
<1>3. d.ein = e BY EinGesetzt
<1>4. d = [c EXCEPT !.ein = e] BY DEF MitPost
<1>5. Len(d.ein) <= 1 /\ Post(d) = {t} BY <1>3, EinsLang, PostEins
<1> HIDE DEF e
<1>6. /\ d \in Kanal /\ d.freigabe = FALSE /\ d.partner = Keiner /\ d.ende = "Fremd"
      /\ d.offen = TRUE /\ d.stichdatum = 0 /\ d.rest = c.rest
  BY <1>2, <1>4 DEF Kanal
<1>7. FremdGut(d) BY <1>1, <1>5, <1>6 DEF FremdGut
<1>8. ServerGut(s, d, B, N, z) /\ WartetGut(k, d) /\ MelderGut(k, d)
  BY <1>6 DEF ServerGut, WartetGut, MelderGut
<1>9. KanalGut(s, k, d, B, N, z) BY <1>5, <1>6, <1>7, <1>8 DEF KanalGut
<1> QED BY <1>6, <1>9

LEMMA MitgezaehltTyp ==
    ASSUME aenderungen \in 0 .. MaxAenderungen, NEW s, NEW t, Mitgezaehlt(s, t)
    PROVE  aenderungen' \in 0 .. MaxAenderungen
<1>1. aenderungen' = aenderungen \/ (aenderungen > 0 /\ aenderungen' = aenderungen - 1)
  BY DEF Mitgezaehlt
<1> QED BY <1>1, Groessen

LEMMA FremdSendetErhaelt ==
    ASSUME TlnInv, NEW s \in Server, NEW k \in Kanaele, FremdSendet(s, k)
    PROVE  TlnInv'
<1> DEFINE c == kanal[s][k]
<1>1. PICK t \in FremdTelegramme :
        Mitgezaehlt(s, t) /\ kanal' = [kanal EXCEPT ![s][k].ein = << t >>]
  BY DEF FremdSendet
<1>2. /\ c.offen /\ c.ende = "Fremd" /\ fremde > 0 /\ fremde' = fremde - 1
      /\ UNCHANGED <<buch, stichzeit, letzte, vollErfolg, vollFaellig, stoerungen, zeit, neustarts>>
  BY DEF FremdSendet
<1>3. /\ Gut(kanal, buch, stichzeit, letzte, neustarts, zeit) /\ kanal \in Netze
      /\ NetzGut(kanal, buch, neustarts, zeit) /\ UmgebungTyp
  BY DEF TlnInv, Gut, Werte
<1>4. c \in Kanal /\ KanalGut(s, k, c, buch, neustarts, zeit) BY <1>3 DEF Netze, NetzGut
<1>5. c.partner = Keiner BY <1>2, <1>4 DEF KanalGut, ServerGut
<1>6. c.freigabe = FALSE /\ c.offen = TRUE /\ c.stichdatum = 0
  <2>1. c.freigabe \in BOOLEAN /\ c.offen \in BOOLEAN /\ c.stichdatum \in Nat
    BY <1>4, Groessen DEF Kanal
  <2>2. ~c.freigabe /\ ~(c.stichdatum > 0) BY <1>2, <1>4, <1>5 DEF KanalGut, FremdGut, MelderGut
  <2> QED BY <1>2, <2>1, <2>2
<1>7. Gut(kanal', buch, stichzeit, letzte, neustarts, zeit)
  <2> DEFINE d == [c EXCEPT !.ein = << t >>]
  <2>1. MitPost(d, c, t) BY DEF MitPost
  <2>2. Setzt(kanal', kanal, s, k, d) BY <1>1, <1>3 DEF Setzt, Netze
  <2> HIDE DEF d
  <2>3. /\ d \in Kanal /\ KanalGut(s, k, d, buch, neustarts, zeit) /\ d.ende = "Fremd"
        /\ d.stichdatum = 0 /\ d.rest = c.rest
    <3> HIDE DEF c
    <3> QED BY <1>2, <1>4, <1>5, <1>6, <2>1, FremdKanal
  <2> QED BY <1>2, <1>3, <1>6, <2>2, <2>3, GutErsetzt
<1>8. aenderungen' \in 0 .. MaxAenderungen BY <1>1, <1>3, MitgezaehltTyp DEF UmgebungTyp
<1>9. fremde' \in 0 .. MaxFremd BY <1>2, <1>3, Groessen DEF UmgebungTyp
<1>10. Gut(kanal', buch', stichzeit', letzte', neustarts', zeit') BY <1>2, <1>7
<1> QED BY <1>2, <1>3, <1>8, <1>9, <1>10 DEF TlnInv, UmgebungTyp

LEMMA ErsterFreierFrei ==
    ASSUME NEW s \in Server, FreieKanaele(s) # {}
    PROVE  ErsterFreier(s) \in Kanaele /\ ~kanal[s][ErsterFreier(s)].offen
<1> DEFINE F == FreieKanaele(s)
<1>1. F \subseteq Nat /\ F # {} BY Groessen DEF FreieKanaele
<1>2. \E x \in F : \A y \in F : x <= y
  <2> HIDE DEF F
  <2> QED BY <1>1, Kleinste
<1>3. ErsterFreier(s) \in FreieKanaele(s) BY <1>2 DEF ErsterFreier
<1> QED BY <1>3 DEF FreieKanaele

(* A channel that is opened anew. *)
Eroeffnet(d, p, e) == \E a : d = KanalInit(a, p, e)

Frisch(d, p, e) ==
    /\ d \in Kanal /\ d.partner = p /\ d.ende = e /\ d.offen = TRUE /\ d.freigabe = FALSE
    /\ d.stichdatum = 0 /\ d.rest = {} /\ d.gestartet = FALSE /\ d.vollabfrage = FALSE
    /\ d.ein = << >> /\ d.aus = << >> /\ d.fertig = FALSE /\ d.gegen = 0

LEMMA InitFelder ==
    ASSUME NEW p, p \in Server \/ p = Keiner, NEW e, e = "Kanal" \/ e = "wartend" \/ e = "Fremd",
           NEW d, Eroeffnet(d, p, e)
    PROVE  Frisch(d, p, e)
<1>1. d = [FreierKanal EXCEPT !.offen = TRUE, !.partner = p, !.ende = e]
  BY DEF Eroeffnet, KanalInit
<1>2. d \in Kanal BY <1>1, FreierTyp DEF Kanal
<1>3. /\ d.partner = p /\ d.ende = e /\ d.offen = TRUE /\ d.freigabe = FALSE
      /\ d.stichdatum = 0 /\ d.rest = {} /\ d.gestartet = FALSE /\ d.vollabfrage = FALSE
      /\ d.ein = << >> /\ d.aus = << >> /\ d.fertig = FALSE /\ d.gegen = 0
  BY <1>1 DEF FreierKanal
<1> QED BY <1>2, <1>3 DEF Frisch

LEMMA FreierNichtVerbunden ==
    ASSUME NEW K, NEW B, NEW N, NEW z, NetzGut(K, B, N, z), K \in Netze, NEW s \in Server, NEW k \in Kanaele,
           ~K[s][k].offen
    PROVE  K[s][k].ende = "zu" /\ K[s][k].stichdatum = 0 /\ K[s][k].partner = Keiner
BY DEF NetzGut, KanalGut

LEMMA FremdRuftErhaelt ==
    ASSUME TlnInv, NEW s \in Server, FremdRuft(s)
    PROVE  TlnInv'
<1> DEFINE k == ErsterFreier(s)
           c == KanalInit(kanal[s][k], Keiner, "Fremd")
<1>1. PICK t \in FremdTelegramme :
        Mitgezaehlt(s, t) /\ kanal' = [kanal EXCEPT ![s][k] = [c EXCEPT !.ein = << t >>]]
  BY DEF FremdRuft
<1>2. /\ FreieKanaele(s) # {} /\ fremde > 0 /\ fremde' = fremde - 1
      /\ UNCHANGED <<buch, stichzeit, letzte, vollErfolg, vollFaellig, stoerungen, zeit, neustarts>>
  BY DEF FremdRuft
<1>3. /\ Gut(kanal, buch, stichzeit, letzte, neustarts, zeit) /\ kanal \in Netze
      /\ NetzGut(kanal, buch, neustarts, zeit) /\ UmgebungTyp
  BY DEF TlnInv, Gut, Werte
<1>4. k \in Kanaele /\ ~kanal[s][k].offen BY <1>2, ErsterFreierFrei
<1>5. kanal[s][k].ende = "zu" /\ kanal[s][k].stichdatum = 0
  <2> HIDE DEF k
  <2> QED BY <1>3, <1>4, FreierNichtVerbunden
<1>6. /\ c \in Kanal /\ c.partner = Keiner /\ c.ende = "Fremd" /\ c.offen = TRUE
      /\ c.freigabe = FALSE /\ c.stichdatum = 0 /\ c.rest = {}
  <2>1. Eroeffnet(c, Keiner, "Fremd") BY DEF Eroeffnet
  <2> HIDE DEF k, c
  <2>2. Frisch(c, Keiner, "Fremd") BY <2>1, InitFelder
  <2> QED BY <2>2 DEF Frisch
<1>7. Gut(kanal', buch, stichzeit, letzte, neustarts, zeit)
  <2> DEFINE d == [c EXCEPT !.ein = << t >>]
  <2>1. MitPost(d, c, t) BY DEF MitPost
  <2>2. Setzt(kanal', kanal, s, k, d) BY <1>1 DEF Setzt
  <2> HIDE DEF d, c, k
  <2>3. /\ d \in Kanal /\ KanalGut(s, k, d, buch, neustarts, zeit) /\ d.ende = "Fremd"
        /\ d.stichdatum = 0 /\ d.rest = c.rest
    BY <1>6, <2>1, FremdKanal
  <2>4. d.rest \subseteq kanal[s][k].rest BY <1>6, <2>3
  <2> QED BY <1>3, <1>4, <1>5, <2>2, <2>3, <2>4, GutErsetzt
<1>8. aenderungen' \in 0 .. MaxAenderungen BY <1>1, <1>3, MitgezaehltTyp DEF UmgebungTyp
<1>9. fremde' \in 0 .. MaxFremd BY <1>2, <1>3, Groessen DEF UmgebungTyp
<1>10. Gut(kanal', buch', stichzeit', letzte', neustarts', zeit') BY <1>2, <1>7
<1> QED BY <1>2, <1>3, <1>8, <1>9, <1>10 DEF TlnInv, UmgebungTyp

(***************************************************************************)
(* A server calls another one.                                             *)
(***************************************************************************)
Gerufen(d, c, tel) == d = c \/ d = [c EXCEPT !.aus = << tel >>]

LEMMA GerufenFelder ==
    ASSUME NEW c \in Kanal, NEW tel \in Telegramm, NEW d, Gerufen(d, c, tel), c.aus = << >>
    PROVE  /\ d \in Kanal /\ d.offen = c.offen /\ d.partner = c.partner /\ d.ende = c.ende
           /\ d.ein = c.ein /\ d.freigabe = c.freigabe /\ d.vollabfrage = c.vollabfrage
           /\ d.gestartet = c.gestartet /\ d.stichdatum = c.stichdatum /\ d.rest = c.rest
           /\ d.fertig = c.fertig /\ Len(d.aus) <= 1
           /\ \A i \in 1 .. Len(d.aus) : d.aus[i] = tel
<1> DEFINE e == << tel >>
<1>1. e \in Seq(Telegramm) /\ Len(e) = 1 /\ e[1] = tel OBVIOUS
<1>2. d = c \/ d = [c EXCEPT !.aus = e] BY DEF Gerufen
<1>3. CASE d = c
  <2>1. Len(d.aus) = 0 BY <1>3, EmptySeq
  <2> QED BY <1>3, <2>1
<1>4. CASE d = [c EXCEPT !.aus = e]
  <2> HIDE DEF e
  <2>1. /\ d \in Kanal /\ d.offen = c.offen /\ d.partner = c.partner /\ d.ende = c.ende
        /\ d.ein = c.ein /\ d.freigabe = c.freigabe /\ d.vollabfrage = c.vollabfrage
        /\ d.gestartet = c.gestartet /\ d.stichdatum = c.stichdatum /\ d.rest = c.rest
        /\ d.fertig = c.fertig /\ d.aus = e
    BY <1>1, <1>4 DEF Kanal
  <2>2. Len(e) <= 1 /\ \A i \in 1 .. Len(e) : e[i] = tel BY <1>1
  <2>3. d.aus = e BY <2>1
  <2>4. Len(d.aus) <= 1 /\ \A i \in 1 .. Len(d.aus) : d.aus[i] = tel BY <2>2, <2>3
  <2> QED BY <2>1, <2>4
<1> QED BY <1>2, <1>3, <1>4

Ruf(c, p, tel) ==
    /\ c \in Kanal /\ c.offen = TRUE /\ c.partner = p /\ c.ende = "wartend" /\ c.ein = << >>
    /\ c.aus = << >> /\ tel \in Telegramm /\ Geheimnis(tel)
    /\ c.stichdatum > 0 => c.gestartet /\ ~c.vollabfrage /\ tel.art = "Anmeldung"

LEMMA GerufenGut ==
    ASSUME NEW s \in Server, NEW p \in Server, p # s, NEW c, NEW tel, Ruf(c, p, tel),
           NEW d, Gerufen(d, c, tel), NEW B, NEW N, NEW z
    PROVE  d \in Kanal /\ KanalGut(s, 0, d, B, N, z) /\ d.ende = "wartend"
<1>1. /\ d \in Kanal /\ d.offen = TRUE /\ d.partner = p /\ d.ende = "wartend"
      /\ d.ein = << >> /\ d.vollabfrage = c.vollabfrage
      /\ d.gestartet = c.gestartet /\ d.stichdatum = c.stichdatum
      /\ Len(d.aus) <= 1 /\ \A i \in 1 .. Len(d.aus) : d.aus[i] = tel
  BY GerufenFelder DEF Ruf
<1>2. Post(d) = {} /\ Len(d.ein) <= 1 BY <1>1, PostLeer, EmptySeq
<1>3. p # Keiner BY Groessen
<1>4. FremdGut(d) /\ ServerGut(s, d, B, N, z) BY <1>1, <1>2, <1>3 DEF FremdGut, ServerGut
<1>5. WartetGut(0, d) /\ MelderGut(0, d) BY <1>1, <1>2, <1>3 DEF WartetGut, MelderGut, Ruf
<1> QED BY <1>1, <1>2, <1>4, <1>5 DEF KanalGut

LEMMA RufWirkung ==
    ASSUME kanal \in Netze, stoerungen \in 0 .. MaxStoerungen, NEW s \in Server, NEW c \in Kanal,
           c.ende = "wartend", NEW tel \in Telegramm, NEW K1, Setzt(K1, kanal, s, 0, c),
           Senden(K1, s, 0, tel)
    PROVE  /\ \E d : Setzt(kanal', kanal, s, 0, d) /\ Gerufen(d, c, tel)
           /\ stoerungen' \in 0 .. MaxStoerungen
<1>1. 0 \in Kanaele /\ MaxStoerungen \in Nat BY Groessen
<1>2. K1 \in Netze /\ K1[s][0] = c BY <1>1, Gesetzt
<1>3. ~HatGegenueber(K1[s][0]) BY <1>2 DEF HatGegenueber
<1> DEFINE d == [c EXCEPT !.aus = << tel >>]
<1>4. ASSUME kanal' = K1 PROVE \E e : Setzt(kanal', kanal, s, 0, e) /\ Gerufen(e, c, tel)
  <2>1. Gerufen(c, c, tel) BY DEF Gerufen
  <2>2. Setzt(kanal', kanal, s, 0, c) BY <1>4
  <2> QED BY <2>1, <2>2
<1>5. ASSUME kanal' = [K1 EXCEPT ![s][0].aus = << tel >>]
      PROVE  \E e : Setzt(kanal', kanal, s, 0, e) /\ Gerufen(e, c, tel)
  <2>1. kanal' = [K1 EXCEPT ![s][0] = d] BY <1>2, <1>5
  <2> HIDE DEF d
  <2>2. kanal' = [kanal EXCEPT ![s][0] = d] BY <1>1, <2>1 DEF Setzt, Netze
  <2>3. Setzt(kanal', kanal, s, 0, d) BY <2>2 DEF Setzt
  <2>4. Gerufen(d, c, tel) BY DEF d, Gerufen
  <2> QED BY <2>3, <2>4
<1>6. kanal' = K1 \/ kanal' = [K1 EXCEPT ![s][0].aus = << tel >>] BY <1>3 DEF Senden
<1>7. stoerungen' \in 0 .. MaxStoerungen
  <2>1. stoerungen' = stoerungen \/ (stoerungen > 0 /\ stoerungen' = stoerungen - 1) BY DEF Senden
  <2> QED BY <1>1, <2>1
<1> QED BY <1>4, <1>5, <1>6, <1>7

LEMMA AnmeldungTyp ==
    ASSUME NEW t, t = [art |-> "Anmeldung", geheim |-> "richtig"]
                  \/ t = [art |-> "Vollabfrage", geheim |-> "richtig"]
    PROVE  t \in Telegramm /\ Geheimnis(t)
BY DEF Telegramm, Anmeldungen, Geheimnis

LEMMA VollAbfrageKanalOeffnenErhaelt ==
    ASSUME TlnInv, NEW s \in Server, NEW t \in Server, VollAbfrageKanalOeffnen(s, t)
    PROVE  TlnInv'
<1> DEFINE a == KanalInit(kanal[s][0], t, "wartend")
           c == [a EXCEPT !.freigabe = TRUE, !.vollabfrage = TRUE]
           tel == [art |-> "Vollabfrage", geheim |-> "richtig"]
           K1 == [kanal EXCEPT ![s][0] = c]
<1>1. /\ t # s /\ ~kanal[s][0].offen /\ vollFaellig' = [vollFaellig EXCEPT ![s] = FALSE]
      /\ Senden(K1, s, 0, tel)
      /\ UNCHANGED <<buch, stichzeit, letzte, vollErfolg, zeit, aenderungen, neustarts, fremde>>
  BY DEF VollAbfrageKanalOeffnen, DarfOeffnen
<1>2. /\ Gut(kanal, buch, stichzeit, letzte, neustarts, zeit) /\ kanal \in Netze
      /\ NetzGut(kanal, buch, neustarts, zeit) /\ UmgebungTyp /\ stoerungen \in 0 .. MaxStoerungen
  BY DEF TlnInv, Gut, Werte, UmgebungTyp
<1>3. 0 \in Kanaele BY Groessen
<1>4. kanal[s][0].ende = "zu" /\ kanal[s][0].stichdatum = 0 BY <1>1, <1>2, <1>3, FreierNichtVerbunden
<1>5. Frisch(a, t, "wartend")
  <2>1. Eroeffnet(a, t, "wartend") BY DEF Eroeffnet
  <2> HIDE DEF a
  <2> QED BY <2>1, InitFelder
<1>6. /\ c \in Kanal /\ c.offen = TRUE /\ c.partner = t /\ c.ende = "wartend" /\ c.ein = << >>
      /\ c.aus = << >> /\ c.stichdatum = 0 /\ c.rest = {}
  <2> HIDE DEF a
  <2> QED BY <1>5 DEF Frisch, Kanal
<1>7. tel \in Telegramm /\ Geheimnis(tel) BY AnmeldungTyp
<1>8. Setzt(K1, kanal, s, 0, c) BY DEF Setzt
<1> HIDE DEF a, c, tel, K1
<1>9. PICK d : Setzt(kanal', kanal, s, 0, d) /\ Gerufen(d, c, tel)
  BY <1>1, <1>2, <1>6, <1>7, <1>8, RufWirkung
<1>10. stoerungen' \in 0 .. MaxStoerungen BY <1>1, <1>2, <1>6, <1>7, <1>8, RufWirkung
<1>11. d \in Kanal /\ KanalGut(s, 0, d, buch, neustarts, zeit) /\ d.ende = "wartend"
  <2>1. Ruf(c, t, tel) BY <1>6, <1>7 DEF Ruf
  <2> QED BY <1>1, <1>9, <2>1, GerufenGut
<1>12. d.stichdatum = 0 /\ d.rest = {} BY <1>6, <1>7, <1>9, GerufenFelder
<1>13. Gut(kanal', buch, stichzeit, letzte, neustarts, zeit)
  BY <1>2, <1>3, <1>4, <1>9, <1>11, <1>12, GutErsetzt
<1>14. Gut(kanal', buch', stichzeit', letzte', neustarts', zeit') BY <1>1, <1>13
<1>15. vollFaellig' \in [Server -> BOOLEAN]
  <2>1. vollFaellig \in [Server -> BOOLEAN] BY <1>2 DEF UmgebungTyp
  <2> QED BY <1>1, <2>1
<1> QED BY <1>1, <1>2, <1>10, <1>14, <1>15 DEF TlnInv, UmgebungTyp

(* What is reported depends on the server's own row of reported times. *)
LEMMA SyncZeile ==
    ASSUME NEW K, NEW B, NEW N, NEW Z, NEW Z2, NEW u \in Server, Z2[u] = Z[u], SyncGut(u, K, B, Z, N)
    PROVE  SyncGut(u, K, B, Z2, N)
BY DEF SyncGut, DialogGut, Uebrig, Gemeldet

(* A synchronisation to t that begins: what was to be reported to t is     *)
(* listed.                                                                 *)
Beginnt(d, t, zt, B, s) ==
    /\ d \in Kanal /\ d.offen = TRUE /\ d.partner = t /\ d.ende = "wartend" /\ d.ein = << >>
    /\ d.fertig = FALSE /\ d.stichdatum = zt /\ d.rest = Bestand(B[s])

Verstellt(Z2, Z, s, t) ==
    /\ \A u \in Server : u # s => Z2[u] = Z[u]
    /\ \A v \in Server : v # t => Z2[s][v] = Z[s][v]

LEMMA MeldBeginnt ==
    ASSUME NEW K \in Netze, NEW K2 \in Netze, NEW B \in Buecher, NEW N, NEW z, NetzGut(K, B, N, z),
           NEW Z \in [Server -> Zeilen], NEW Z2 \in [Server -> Zeilen], NEW L, MeldungGut(K, B, Z, L, N),
           NEW s \in Server, NEW t \in Server, ~K[s][0].offen, Nur(K2, K, s, 0),
           Beginnt(K2[s][0], t, Z[s][t], B, s),
           Verstellt(Z2, Z, s, t)
    PROVE  MeldungGut(K2, B, Z2, L, N)
<1> DEFINE d == K2[s][0]
<1>1. 0 \in Kanaele BY Groessen
<1>2. K[s][0].ende = "zu" BY <1>1, FreierNichtVerbunden
<1>3. /\ NurPaar(K2, K, s, 0, s, 0) BY <1>2 DEF Nur, NurBeide, NurPaar
<1>4. \A u, v \in Server : Z[u][v] \in Nat \ {0} BY Groessen DEF Zeilen
<1>5. \A u \in Server, n \in Nummer : B[u][n].datum \in Nat BY Groessen DEF Buecher, Eintrag
<1>6. ASSUME NEW u \in Server, u # s PROVE SyncGut(u, K2, B, Z2, N) /\ K2[u][0] = K[u][0]
  <2>1. SyncGut(u, K, B, Z, N) /\ Zurueck(Z, Z) BY ZurueckSelbst DEF MeldungGut
  <2> HIDE DEF SyncGut
  <2>3. u # s \/ 0 # 0 BY <1>6
  <2>2. SyncGut(u, K2, B, Z, N) /\ K2[u][0] = K[u][0] BY <1>1, <1>3, <2>1, <2>3, SyncFern
  <2>4. Z2[u] = Z[u] BY <1>6 DEF Verstellt
  <2> QED BY <2>2, <2>4, SyncZeile
<1>7. SyncGut(s, K2, B, Z2, N)
  <2>1. Post(d) = {} BY PostLeer DEF Beginnt
  <2>2. ASSUME NEW n \in Nummer, Zustaendig(s, d, n, B, N) PROVE n \in d.rest
    <3>1. B[s][n].datum >= d.stichdatum /\ d.stichdatum > 0 BY <2>2 DEF Zustaendig
    <3>2. B[s][n].datum > 0 BY <1>5, <3>1 DEF Beginnt, Kanal
    <3> QED BY <3>2 DEF Beginnt, Bestand
  <2>3. d.fertig = FALSE /\ d.ende = "wartend" BY DEF Beginnt
  <2> HIDE DEF d
  <2>4. ASSUME NEW n \in Nummer, Zustaendig(s, d, n, B, N), NEW g PROVE DialogGut(s, d, g, n, B, Z2)
    BY <2>1, <2>2, <2>3, <2>4 DEF DialogGut, Uebrig
  <2> QED BY <2>4 DEF SyncGut, d
<1>8. ASSUME NEW u \in Server, NEW v \in Server, NEW n \in Nummer,
             Gemeinsam(u, v, n), N[u] = 0, N[v] = 0
      PROVE  Gemeldet(u, v, n, B, Z2) \/ Laeuft(u, v, n, K2, B)
  <2>1. Gemeldet(u, v, n, B, Z) \/ Laeuft(u, v, n, K, B) BY <1>8 DEF MeldungGut
  <2>2. CASE u # s
    <3>1. Gemeldet(u, v, n, B, Z) => Gemeldet(u, v, n, B, Z2) BY <2>2 DEF Gemeldet, Verstellt
    <3>2. Laeuft(u, v, n, K, B) => Laeuft(u, v, n, K2, B) BY <1>6, <2>2 DEF Laeuft
    <3> QED BY <2>1, <3>1, <3>2
  <2>3. CASE u = s
    <3>1. Gemeldet(s, v, n, B, Z) BY <2>1, <2>3 DEF Laeuft
    <3>2. CASE v # t BY <2>3, <3>1, <3>2 DEF Gemeldet, Verstellt
    <3>3. CASE v = t
      <4>1. CASE B[t][n].datum >= B[s][n].datum BY <2>3, <3>3, <4>1 DEF Gemeldet
      <4>2. CASE Z[s][t] <= B[s][n].datum
        <5>1. Z[s][t] > 0 BY <1>4
        <5> QED BY <2>3, <3>3, <4>2, <5>1 DEF Beginnt, Laeuft
      <4> QED BY <3>1, <3>3, <4>1, <4>2 DEF Gemeldet
    <3> QED BY <3>2, <3>3
  <2> QED BY <2>2, <2>3
<1>9. \A u \in Server : SyncGut(u, K2, B, Z2, N) BY <1>6, <1>7
<1> QED BY <1>8, <1>9 DEF MeldungGut

LEMMA AktivSyncMeldungKanalOeffnenErhaelt ==
    ASSUME TlnInv, NEW s \in Server, NEW t \in Server, AktivSyncMeldungKanalOeffnen(s, t)
    PROVE  TlnInv'
<1> DEFINE a == KanalInit(kanal[s][0], t, "wartend")
           c == [a EXCEPT !.freigabe = TRUE, !.gestartet = TRUE, !.stichdatum = stichzeit[s][t],
                          !.rest = Bestand(buch[s])]
           tel == [art |-> "Anmeldung", geheim |-> "richtig"]
           K1 == [kanal EXCEPT ![s][0] = c]
<1>1. /\ t # s /\ ~kanal[s][0].offen /\ Senden(K1, s, 0, tel)
      /\ stichzeit' = [stichzeit EXCEPT ![s][t] = zeit]
      /\ UNCHANGED <<buch, letzte, vollErfolg, vollFaellig, zeit, aenderungen, neustarts, fremde>>
  BY DEF AktivSyncMeldungKanalOeffnen, DarfOeffnen, AktivSyncFaellig, umgebung
<1>2. /\ NetzGut(kanal, buch, neustarts, zeit) /\ RestGut(kanal, buch) /\ UmgebungTyp
      /\ stoerungen \in 0 .. MaxStoerungen /\ kanal \in Netze /\ buch \in Buecher
      /\ stichzeit \in [Server -> Zeilen] /\ zeit \in 1 .. MaxZeit
      /\ letzte \in [Server -> 0 .. MaxZeit] /\ neustarts \in [Server -> 0 .. MaxNeustarts]
      /\ Verkuerzt \/ MeldungGut(kanal, buch, stichzeit, letzte, neustarts)
  BY DEF TlnInv, Gut, Werte, UmgebungTyp
<1>3. 0 \in Kanaele BY Groessen
<1>4. kanal[s][0].ende = "zu" /\ kanal[s][0].stichdatum = 0 BY <1>1, <1>2, <1>3, FreierNichtVerbunden
<1>5. Frisch(a, t, "wartend")
  <2>1. Eroeffnet(a, t, "wartend") BY DEF Eroeffnet
  <2> HIDE DEF a
  <2> QED BY <2>1, InitFelder
<1>6. stichzeit[s][t] \in 0 .. MaxZeit + 1
  <2>1. stichzeit[s][t] \in 1 .. MaxZeit + 1 BY <1>2 DEF Zeilen
  <2> QED BY <2>1, Groessen
<1>7. /\ c \in Kanal /\ c.offen = TRUE /\ c.partner = t /\ c.ende = "wartend" /\ c.ein = << >>
      /\ c.aus = << >> /\ c.stichdatum = stichzeit[s][t] /\ c.rest = Bestand(buch[s])
      /\ c.fertig = FALSE /\ c.gestartet = TRUE /\ c.vollabfrage = FALSE
  <2> DEFINE R == Bestand(buch[s])
  <2>1. R \in SUBSET Nummer BY DEF Bestand
  <2> HIDE DEF a, R
  <2>2. a \in Kanal BY <1>5 DEF Frisch
  <2>3. [a EXCEPT !.freigabe = TRUE, !.gestartet = TRUE, !.stichdatum = stichzeit[s][t],
                  !.rest = R] \in Kanal
    BY <1>6, <2>1, <2>2 DEF Kanal
  <2>4. c.rest = R BY <2>2 DEF Kanal, R
  <2>5. /\ c.offen = TRUE /\ c.partner = t /\ c.ende = "wartend" /\ c.ein = << >>
        /\ c.aus = << >> /\ c.stichdatum = stichzeit[s][t]
        /\ c.fertig = FALSE /\ c.gestartet = TRUE /\ c.vollabfrage = FALSE
    BY <1>5 DEF Frisch, Kanal
  <2> QED BY <2>3, <2>4, <2>5 DEF R
<1>8. Setzt(K1, kanal, s, 0, c) BY DEF Setzt
<1>9. Ruf(c, t, tel)
  <2>1. tel \in Telegramm /\ Geheimnis(tel) /\ tel.art = "Anmeldung" BY AnmeldungTyp
  <2> HIDE DEF c, tel
  <2> QED BY <1>7, <2>1 DEF Ruf
<1> HIDE DEF a, c, tel, K1
<1>10. PICK d : Setzt(kanal', kanal, s, 0, d) /\ Gerufen(d, c, tel)
  BY <1>1, <1>2, <1>7, <1>8, <1>9, RufWirkung DEF Ruf
<1>11. stoerungen' \in 0 .. MaxStoerungen BY <1>1, <1>2, <1>7, <1>8, <1>9, RufWirkung DEF Ruf
<1>12. d \in Kanal /\ KanalGut(s, 0, d, buch, neustarts, zeit) /\ d.ende = "wartend"
  BY <1>1, <1>9, <1>10, GerufenGut
<1>13. Beginnt(d, t, stichzeit[s][t], buch, s)
  <2>1. /\ d.offen = c.offen /\ d.partner = c.partner /\ d.ein = c.ein
        /\ d.stichdatum = c.stichdatum /\ d.rest = c.rest /\ d.fertig = c.fertig
    BY <1>9, <1>10, GerufenFelder DEF Ruf
  <2> QED BY <1>7, <1>12, <2>1 DEF Beginnt
<1>14. kanal' \in Netze /\ kanal'[s][0] = d /\ Nur(kanal', kanal, s, 0)
  BY <1>2, <1>3, <1>10, <1>12, Gesetzt
<1>15. NetzGut(kanal', buch, neustarts, zeit) BY <1>2, <1>3, <1>4, <1>12, <1>14, NetzErsetzt
<1>16. RestGut(kanal', buch)
  <2>1. \A n \in d.rest : buch[s][n].datum > 0 BY <1>13 DEF Beginnt, Bestand
  <2> QED BY <1>2, <1>14, <2>1 DEF RestGut, Nur
<1>17. stichzeit' \in [Server -> Zeilen] /\ Verstellt(stichzeit', stichzeit, s, t)
  <2>1. zeit \in 1 .. MaxZeit + 1 BY <1>2, Groessen
  <2> QED BY <1>1, <1>2, <2>1 DEF Zeilen, Verstellt
<1>18. ASSUME MeldungGut(kanal, buch, stichzeit, letzte, neustarts)
       PROVE  MeldungGut(kanal', buch, stichzeit', letzte, neustarts)
  BY <1>1, <1>2, <1>13, <1>14, <1>17, <1>18, MeldBeginnt
<1>19. Werte(kanal', buch, stichzeit', letzte, neustarts, zeit) BY <1>2, <1>14, <1>17 DEF Werte
<1>20. Gut(kanal', buch, stichzeit', letzte, neustarts, zeit) BY <1>2, <1>15, <1>16, <1>18, <1>19 DEF Gut
<1>21. Gut(kanal', buch', stichzeit', letzte', neustarts', zeit') BY <1>1, <1>20
<1> QED BY <1>1, <1>2, <1>11, <1>21 DEF TlnInv, UmgebungTyp

(***************************************************************************)
(* A server is called.                                                     *)
(***************************************************************************)
(* The end h of the called channel k, and the end d of the caller, whose   *)
(* channel 0 was r.                                                        *)
Angerufen(h, c, r) == h = [c EXCEPT !.ein = r.aus]
Angenommen(d, r, k) == d = [r EXCEPT !.ende = "Kanal", !.gegen = k, !.aus = << >>]

(* The caller's channel 0 before: it waits for s. *)
Wartend(r, t, s, B, N, z) ==
    /\ r \in Kanal /\ KanalGut(t, 0, r, B, N, z) /\ r.offen /\ r.partner = s /\ r.ende = "wartend"

LEMMA WartendFelder ==
    ASSUME NEW s \in Server, NEW t, NEW r, NEW B, NEW N, NEW z, Wartend(r, t, s, B, N, z)
    PROVE  /\ t # s /\ r.ein = << >> /\ r.aus \in Seq(Telegramm) /\ Len(r.aus) <= 1
           /\ \A i \in 1 .. Len(r.aus) : Geheimnis(r.aus[i])
           /\ MelderGut(0, r)
<1>1. s # Keiner BY Groessen
<1> QED BY <1>1 DEF Wartend, KanalGut, ServerGut, WartetGut, Kanal

Gerufene(h, s, k, t, r, B, N, z) ==
    /\ h \in Kanal /\ KanalGut(s, k, h, B, N, z) /\ h.ende = "Kanal" /\ h.partner = t
    /\ h.gegen = 0 /\ h.stichdatum = 0 /\ h.gestartet = FALSE /\ h.vollabfrage = FALSE
    /\ h.rest = {} /\ h.ein = r.aus /\ \A x \in Post(h) : Geheimnis(x)

LEMMA AngerufenGut ==
    ASSUME NEW s \in Server, NEW t \in Server, NEW k \in Kanaele, NEW r, NEW B, NEW N, NEW z,
           Wartend(r, t, s, B, N, z), NEW c, Frisch(c, t, "Kanal"), NEW h, Angerufen(h, c, r)
    PROVE  Gerufene(h, s, k, t, r, B, N, z)
<1>1. /\ t # s /\ r.aus \in Seq(Telegramm) /\ Len(r.aus) <= 1
      /\ \A i \in 1 .. Len(r.aus) : Geheimnis(r.aus[i])
  BY WartendFelder
<1>2. t # Keiner BY Groessen
<1>3. /\ h \in Kanal /\ h.ende = "Kanal" /\ h.partner = t /\ h.offen = TRUE
      /\ h.gegen = 0 /\ h.stichdatum = 0 /\ h.gestartet = FALSE /\ h.vollabfrage = FALSE
      /\ h.rest = {} /\ h.ein = r.aus
  BY <1>1 DEF Frisch, Angerufen, Kanal
<1>4. \A x \in Post(h) : Geheimnis(x) BY <1>1, <1>3 DEF Post
<1>5. ServerGut(s, h, B, N, z) BY <1>1, <1>3, <1>4 DEF ServerGut, Belegtes, Geheimnis
<1>6. FremdGut(h) /\ WartetGut(k, h) /\ MelderGut(k, h)
  BY <1>2, <1>3 DEF FremdGut, WartetGut, MelderGut
<1>7. KanalGut(s, k, h, B, N, z) BY <1>1, <1>3, <1>5, <1>6 DEF KanalGut
<1> QED BY <1>3, <1>4, <1>7 DEF Gerufene

LEMMA AngenommenGut ==
    ASSUME NEW s \in Server, NEW t \in Server, NEW k \in Kanaele, NEW r, NEW B, NEW N, NEW z,
           Wartend(r, t, s, B, N, z), NEW d, Angenommen(d, r, k)
    PROVE  /\ d \in Kanal /\ KanalGut(t, 0, d, B, N, z) /\ d.ende = "Kanal" /\ d.partner = s
           /\ d.gegen = k /\ d.stichdatum = r.stichdatum /\ d.offen = r.offen
           /\ d.fertig = r.fertig /\ d.rest = r.rest /\ d.ein = << >> /\ Post(d) = {}
<1> DEFINE e == << >>
<1>1. e \in Seq(Telegramm) BY EmptySeq
<1>2. d = [r EXCEPT !.ende = "Kanal", !.gegen = k, !.aus = e] BY DEF Angenommen
<1>3. /\ t # s /\ r.ein = << >> /\ MelderGut(0, r) /\ s # Keiner BY WartendFelder, Groessen
<1> HIDE DEF e
<1>4. /\ d \in Kanal /\ d.ende = "Kanal" /\ d.partner = s /\ d.gegen = k
      /\ d.stichdatum = r.stichdatum /\ d.offen = r.offen /\ d.fertig = r.fertig
      /\ d.rest = r.rest /\ d.ein = r.ein /\ d.gestartet = r.gestartet
      /\ d.vollabfrage = r.vollabfrage
  BY <1>1, <1>2 DEF Wartend, Kanal
<1>5. d.ein = << >> /\ Post(d) = {} /\ Len(d.ein) <= 1 BY <1>3, <1>4, PostLeer, EmptySeq
<1>6. FremdGut(d) /\ ServerGut(t, d, B, N, z) /\ WartetGut(0, d)
  BY <1>3, <1>4, <1>5 DEF FremdGut, ServerGut, WartetGut
<1>7. MelderGut(0, d) BY <1>3, <1>4, <1>5 DEF MelderGut
<1>8. KanalGut(t, 0, d, B, N, z) BY <1>4, <1>5, <1>6, <1>7 DEF KanalGut, Wartend
<1> QED BY <1>4, <1>5, <1>8

LEMMA PaarAngenommen ==
    ASSUME NEW s \in Server, NEW t \in Server, NEW k \in Kanaele, NEW r, NEW B, NEW N, NEW z,
           Wartend(r, t, s, B, N, z), NEW c, Frisch(c, t, "Kanal"),
           NEW h, Angerufen(h, c, r), NEW d, Angenommen(d, r, k)
    PROVE  PaarGut(s, k, h, d) /\ PaarGut(t, 0, d, h)
<1>1. /\ h \in Kanal /\ h.ende = "Kanal" /\ h.partner = t /\ h.gegen = 0 /\ h.stichdatum = 0
      /\ h.gestartet = FALSE /\ h.vollabfrage = FALSE /\ h.ein = r.aus
      /\ \A x \in Post(h) : Geheimnis(x)
  <2>1. Gerufene(h, s, k, t, r, B, N, z) BY AngerufenGut
  <2> QED BY <2>1 DEF Gerufene
<1>2. /\ d.ende = "Kanal" /\ d.partner = s /\ d.gegen = k /\ d.stichdatum = r.stichdatum
      /\ d.ein = << >>
  BY AngenommenGut
<1>3. r.aus \in Seq(Telegramm) /\ Len(r.aus) <= 1 /\ MelderGut(0, r) BY WartendFelder
<1>4. Len(h.ein) + Len(d.ein) <= 1 /\ Len(d.ein) + Len(h.ein) <= 1
  <2>1. Len(d.ein) = 0 BY <1>2, EmptySeq
  <2>2. Len(h.ein) \in Nat /\ Len(h.ein) <= 1 BY <1>1, <1>3
  <2> QED BY <2>1, <2>2
<1>5. r.stichdatum > 0 => \A x \in Post(h) : x.art = "Anmeldung"
  BY <1>1, <1>3 DEF MelderGut, Post, Wartend
<1>6. PaarGut(s, k, h, d) BY <1>1, <1>2, <1>4 DEF PaarGut
<1>7. PaarGut(t, 0, d, h) BY <1>1, <1>2, <1>4, <1>5 DEF PaarGut
<1> QED BY <1>6, <1>7

(* The caller's channel, changed, reports on what it reported on before. *)
MeldetNoch(d, r) ==
    /\ d.offen = r.offen /\ d.partner = r.partner /\ d.stichdatum = r.stichdatum
    /\ d.fertig = r.fertig /\ d.rest = r.rest

LEMMA MeldetNochWeiter ==
    ASSUME NEW K, NEW K2, NEW B, NEW Z, NEW L, NEW N, MeldungGut(K, B, Z, L, N), NEW t \in Server,
           MeldetNoch(K2[t][0], K[t][0]),
           \A n \in Nummer : Zustaendig(t, K[t][0], n, B, N) =>
               DialogGut(t, K2[t][0], K2[K2[t][0].partner][K2[t][0].gegen], n, B, Z)
    PROVE  MeldetWeiter(t, K, K2, B, Z, N)
<1>1. \A n \in Nummer : Zustaendig(t, K2[t][0], n, B, N) => Zustaendig(t, K[t][0], n, B, N)
  BY DEF MeldetNoch, Zustaendig
<1>2. SyncGut(t, K2, B, Z, N) BY <1>1 DEF SyncGut
<1>3. \A u \in Server, n \in Nummer : Laeuft(t, u, n, K, B) => Laeuft(t, u, n, K2, B)
  BY DEF MeldetNoch, Laeuft
<1> QED BY <1>2, <1>3 DEF MeldetWeiter

LEMMA GutAngenommen ==
    ASSUME NEW K, NEW B, NEW Z, NEW L, NEW N, NEW z, Gut(K, B, Z, L, N, z),
           NEW s \in Server, NEW t \in Server, NEW k \in Kanaele, ~K[s][k].offen,
           Wartend(K[t][0], t, s, B, N, z), NEW c, Frisch(c, t, "Kanal"),
           NEW K2 \in Netze, NurBeide(K2, K, s, k, t, 0),
           Angerufen(K2[s][k], c, K[t][0]), Angenommen(K2[t][0], K[t][0], k)
    PROVE  Gut(K2, B, Z, L, N, z)
<1> DEFINE r == K[t][0]
           h == K2[s][k]
           d == K2[t][0]
<1>1. /\ Werte(K, B, Z, L, N, z) /\ NetzGut(K, B, N, z) /\ RestGut(K, B) /\ K \in Netze
      /\ B \in Buecher /\ Z \in [Server -> Zeilen] /\ Zurueck(Z, Z) /\ 0 \in Kanaele
  BY ZurueckSelbst, Groessen DEF Gut, Werte
<1>2. K[s][k].ende = "zu" BY <1>1, FreierNichtVerbunden
<1>3. Wartend(r, t, s, B, N, z) /\ Angerufen(h, c, r) /\ Angenommen(d, r, k) OBVIOUS
<1>4. r.ende = "wartend" BY DEF Wartend
<1> HIDE DEF h, d, r
<1>5. /\ KanalGut(s, k, h, B, N, z) /\ h.ende = "Kanal" /\ h.partner = t /\ h.gegen = 0
      /\ h.stichdatum = 0 /\ h.rest = {} /\ \A x \in Post(h) : Geheimnis(x)
  <2>1. Gerufene(h, s, k, t, r, B, N, z) BY <1>3, AngerufenGut
  <2> QED BY <2>1 DEF Gerufene
<1>6. /\ KanalGut(t, 0, d, B, N, z) /\ d.ende = "Kanal" /\ d.partner = s /\ d.gegen = k
      /\ d.stichdatum = r.stichdatum /\ d.offen = r.offen /\ d.fertig = r.fertig
      /\ d.rest = r.rest /\ Post(d) = {}
  BY <1>3, AngenommenGut
<1>7. PaarGut(s, k, h, d) /\ PaarGut(t, 0, d, h) BY <1>3, PaarAngenommen
<1>8. NetzGut(K2, B, N, z)
  <2>1. K[s][k].ende # "Kanal" /\ K[t][0].ende # "Kanal" BY <1>2, <1>4 DEF r
  <2>2. /\ KanalGut(s, k, K2[s][k], B, N, z) /\ KanalGut(t, 0, K2[t][0], B, N, z)
        /\ K2[s][k].partner = t /\ K2[s][k].gegen = 0
        /\ K2[t][0].partner = s /\ K2[t][0].gegen = k
        /\ PaarGut(s, k, K2[s][k], K2[t][0]) /\ PaarGut(t, 0, K2[t][0], K2[s][k])
    BY <1>5, <1>6, <1>7 DEF h, d
  <2> QED BY <1>1, <2>1, <2>2, NetzBeide
<1>9. RestGut(K2, B)
  <2>1. K2[s][k].rest = {} /\ K2[t][0].rest = K[t][0].rest BY <1>5, <1>6 DEF h, d, r
  <2> QED BY <1>1, <2>1 DEF RestGut, NurBeide
<1>10. ASSUME MeldungGut(K, B, Z, L, N) PROVE MeldungGut(K2, B, Z, L, N)
  <2>1. NurPaar(K2, K, s, k, t, 0) BY <1>2, <1>4 DEF NurPaar, r
  <2>2. k = 0 => MeldetWeiter(s, K, K2, B, Z, N)
    <3>1. ~(K2[s][k].stichdatum > 0) /\ ~(K[s][k].offen) BY <1>5 DEF h
    <3> QED BY <3>1 DEF MeldetWeiter, SyncGut, Zustaendig, Laeuft
  <2>3. ASSUME NEW n \in Nummer, Zustaendig(t, r, n, B, N)
        PROVE  DialogGut(t, d, h, n, B, Z)
    <3>1. DialogGut(t, r, K[r.partner][r.gegen], n, B, Z) BY <1>10, <2>3 DEF MeldungGut, SyncGut, r
    <3>2. Uebrig(t, r, n, B, Z) BY <1>4, <3>1 DEF DialogGut
    <3>3. r.partner = s BY <1>3 DEF Wartend
    <3>4. Uebrig(t, d, n, B, Z) BY <1>6, <3>2, <3>3 DEF Uebrig
    <3>5. d.fertig => Gemeldet(t, d.partner, n, B, Z) BY <1>6, <3>1, <3>3 DEF DialogGut
    <3>6. \A q \in Post(h) : q.art # "Auskunft" BY <1>5 DEF Geheimnis
    <3> QED BY <1>6, <3>4, <3>5, <3>6 DEF DialogGut
  <2>4. MeldetWeiter(t, K, K2, B, Z, N)
    <3>1. MeldetNoch(K2[t][0], K[t][0]) BY <1>3, <1>6 DEF MeldetNoch, Wartend, d, r
    <3>2. ASSUME NEW n \in Nummer, Zustaendig(t, K[t][0], n, B, N)
          PROVE  DialogGut(t, K2[t][0], K2[K2[t][0].partner][K2[t][0].gegen], n, B, Z)
      <4>1. DialogGut(t, d, h, n, B, Z) BY <2>3, <3>2 DEF r
      <4>2. K2[K2[t][0].partner][K2[t][0].gegen] = h BY <1>6 DEF d, h
      <4> QED BY <4>1, <4>2 DEF d
    <3> QED BY <1>10, <3>1, <3>2, MeldetNochWeiter
  <2> QED BY <1>1, <1>10, <2>1, <2>2, <2>4, MeldBeide
<1>11. Werte(K2, B, Z, L, N, z) BY <1>1 DEF Werte
<1> QED BY <1>8, <1>9, <1>10, <1>11 DEF Gut

(* All channels are taken: the caller is told so and disconnected. *)
Abgewiesen(d, r, x) == d = [r EXCEPT !.ende = "zu", !.aus = << >>, !.ein = << x >>]

LEMMA AbgewiesenGut ==
    ASSUME NEW s \in Server, NEW t, NEW r, NEW B, NEW N, NEW z, Wartend(r, t, s, B, N, z),
           NEW x, x = Einfach("Fehler"), NEW d, Abgewiesen(d, r, x)
    PROVE  /\ d \in Kanal /\ KanalGut(t, 0, d, B, N, z) /\ d.ende = "zu" /\ MeldetNoch(d, r)
           /\ Post(d) = {x} /\ x.art = "Fehler"
<1> DEFINE e == << >>
           f == << x >>
<1>1. x \in Telegramm /\ x.art = "Fehler" BY EinfachTyp
<1>2. e \in Seq(Telegramm) /\ f \in Seq(Telegramm) BY <1>1, EmptySeq
<1>3. d = [r EXCEPT !.ende = "zu", !.aus = e, !.ein = f] BY DEF Abgewiesen
<1>4. /\ t # s /\ MelderGut(0, r) /\ s # Keiner BY WartendFelder, Groessen
<1> HIDE DEF e, f
<1>5. /\ d \in Kanal /\ d.ende = "zu" /\ d.partner = s /\ d.stichdatum = r.stichdatum
      /\ d.offen = r.offen /\ d.fertig = r.fertig /\ d.rest = r.rest /\ d.ein = f
      /\ d.gestartet = r.gestartet /\ d.vollabfrage = r.vollabfrage
  BY <1>2, <1>3 DEF Wartend, Kanal
<1>6. Len(d.ein) <= 1 /\ Post(d) = {x} BY <1>5, EinsLang, PostEins DEF f
<1>7. FremdGut(d) /\ ServerGut(t, d, B, N, z) /\ WartetGut(0, d)
  BY <1>1, <1>4, <1>5, <1>6 DEF FremdGut, ServerGut, WartetGut, Belegtes
<1>8. MelderGut(0, d) BY <1>1, <1>4, <1>5, <1>6 DEF MelderGut
<1>9. KanalGut(t, 0, d, B, N, z) BY <1>5, <1>6, <1>7, <1>8 DEF KanalGut, Wartend
<1>10. MeldetNoch(d, r) BY <1>5 DEF MeldetNoch, Wartend
<1> QED BY <1>1, <1>5, <1>6, <1>9, <1>10

LEMMA GutAbgewiesen ==
    ASSUME NEW K, NEW B, NEW Z, NEW L, NEW N, NEW z, Gut(K, B, Z, L, N, z),
           NEW s \in Server, NEW t \in Server, Wartend(K[t][0], t, s, B, N, z),
           NEW x, x = Einfach("Fehler"), NEW d, Abgewiesen(d, K[t][0], x),
           NEW K2, Setzt(K2, K, t, 0, d)
    PROVE  Gut(K2, B, Z, L, N, z)
<1> DEFINE r == K[t][0]
<1>1. /\ Werte(K, B, Z, L, N, z) /\ NetzGut(K, B, N, z) /\ RestGut(K, B) /\ K \in Netze
      /\ B \in Buecher /\ Z \in [Server -> Zeilen] /\ Zurueck(Z, Z) /\ 0 \in Kanaele
  BY ZurueckSelbst, Groessen DEF Gut, Werte
<1>2. /\ d \in Kanal /\ KanalGut(t, 0, d, B, N, z) /\ d.ende = "zu" /\ MeldetNoch(d, r)
      /\ Post(d) = {x} /\ x.art = "Fehler"
  <2> HIDE DEF r
  <2> QED BY AbgewiesenGut DEF r
<1>3. K2 \in Netze /\ K2[t][0] = d /\ Nur(K2, K, t, 0) BY <1>1, <1>2, Gesetzt
<1>4. r.ende = "wartend" /\ r.partner = s BY DEF Wartend
<1> HIDE DEF r
<1>5. NetzGut(K2, B, N, z) BY <1>1, <1>2, <1>3, <1>4, NetzErsetzt DEF r
<1>6. RestGut(K2, B)
  <2>1. d.rest = K[t][0].rest BY <1>2 DEF MeldetNoch, r
  <2> QED BY <1>1, <1>3, <2>1 DEF RestGut, Nur
<1>7. ASSUME MeldungGut(K, B, Z, L, N) PROVE MeldungGut(K2, B, Z, L, N)
  <2>1. ASSUME NEW n \in Nummer, Zustaendig(t, r, n, B, N), NEW g
        PROVE  DialogGut(t, d, g, n, B, Z)
    <3>1. DialogGut(t, r, K[r.partner][r.gegen], n, B, Z) BY <1>7, <2>1 DEF MeldungGut, SyncGut, r
    <3>2. d.fertig => Gemeldet(t, d.partner, n, B, Z) BY <1>2, <3>1 DEF DialogGut, MeldetNoch
    <3> QED BY <1>2, <3>2 DEF DialogGut
  <2>2. MeldetWeiter(t, K, K2, B, Z, N)
    <3>1. MeldetNoch(K2[t][0], K[t][0]) BY <1>2, <1>3 DEF r
    <3>2. ASSUME NEW n \in Nummer, Zustaendig(t, K[t][0], n, B, N)
          PROVE  DialogGut(t, K2[t][0], K2[K2[t][0].partner][K2[t][0].gegen], n, B, Z)
      BY <1>3, <2>1, <3>2 DEF r
    <3> QED BY <1>7, <3>1, <3>2, MeldetNochWeiter
  <2> QED BY <1>1, <1>3, <1>4, <1>7, <2>2, MeldAllein DEF r
<1>8. Werte(K2, B, Z, L, N, z) BY <1>1, <1>3 DEF Werte
<1> QED BY <1>5, <1>6, <1>7, <1>8 DEF Gut

LEMMA AnnehmenErhaelt ==
    ASSUME TlnInv, NEW s \in Server, NEW t \in Server, Annehmen(s, t)
    PROVE  TlnInv'
<1> DEFINE r == kanal[t][0]
           k == ErsterFreier(s)
           c == KanalInit(kanal[s][k], t, "Kanal")
           h == [c EXCEPT !.ein = r.aus]
           d == [r EXCEPT !.ende = "Kanal", !.gegen = k, !.aus = << >>]
           x == Einfach("Fehler")
           e == [r EXCEPT !.ende = "zu", !.aus = << >>, !.ein = << x >>]
<1>1. /\ r.offen /\ r.partner = s /\ r.ende = "wartend"
      /\ UNCHANGED <<buch, stichzeit, letzte, vollErfolg, stoerungen, umgebung>>
      /\ FreieKanaele(s) # {} => kanal' = [kanal EXCEPT ![s][k] = h, ![t][0] = d]
      /\ FreieKanaele(s) = {} => kanal' = [kanal EXCEPT ![t][0] = e]
  BY DEF Annehmen
<1>2. /\ Gut(kanal, buch, stichzeit, letzte, neustarts, zeit) /\ kanal \in Netze
      /\ NetzGut(kanal, buch, neustarts, zeit) /\ UmgebungTyp
  BY DEF TlnInv, Gut, Werte
<1>3. 0 \in Kanaele BY Groessen
<1>4. r \in Kanal /\ KanalGut(t, 0, r, buch, neustarts, zeit) BY <1>2, <1>3 DEF Netze, NetzGut
<1>5. Wartend(r, t, s, buch, neustarts, zeit) BY <1>1, <1>4 DEF Wartend
<1>6. t # s BY <1>5, WartendFelder
<1>7. CASE FreieKanaele(s) # {}
  <2>1. k \in Kanaele /\ ~kanal[s][k].offen BY <1>7, ErsterFreierFrei
  <2>2. Frisch(c, t, "Kanal")
    <3>1. Eroeffnet(c, t, "Kanal") BY DEF Eroeffnet
    <3> HIDE DEF c
    <3> QED BY <3>1, InitFelder
  <2>3. Angerufen(h, c, r) /\ Angenommen(d, r, k) BY DEF Angerufen, Angenommen
  <2>4. kanal' = [kanal EXCEPT ![s][k] = h, ![t][0] = d] BY <1>1, <1>7
  <2> HIDE DEF h, c, d, k
  <2>5. h \in Kanal
    <3>1. Gerufene(h, s, k, t, r, buch, neustarts, zeit) BY <1>5, <2>1, <2>2, <2>3, AngerufenGut
    <3> QED BY <3>1 DEF Gerufene
  <2>6. d \in Kanal BY <1>5, <2>1, <2>3, AngenommenGut
  <2>7. /\ kanal' \in Netze /\ kanal'[s][k] = h /\ kanal'[t][0] = d
        /\ NurBeide(kanal', kanal, s, k, t, 0)
    <3> HIDE DEF r, Kanal, Kanaele
    <3> QED BY <1>2, <1>3, <1>6, <2>1, <2>4, <2>5, <2>6 DEF Netze, NurBeide
  <2>8. Gut(kanal', buch, stichzeit, letzte, neustarts, zeit)
    BY <1>2, <1>5, <2>1, <2>2, <2>3, <2>7, GutAngenommen
  <2>9. Gut(kanal', buch', stichzeit', letzte', neustarts', zeit') BY <1>1, <2>8 DEF umgebung
  <2> QED BY <1>1, <1>2, <2>9 DEF TlnInv, UmgebungTyp, umgebung
<1>8. CASE FreieKanaele(s) = {}
  <2>1. Abgewiesen(e, r, x) /\ Setzt(kanal', kanal, t, 0, e) BY <1>1, <1>8 DEF Abgewiesen, Setzt
  <2> HIDE DEF e
  <2>2. Gut(kanal', buch, stichzeit, letzte, neustarts, zeit) BY <1>2, <1>5, <2>1, GutAbgewiesen
  <2>3. Gut(kanal', buch', stichzeit', letzte', neustarts', zeit') BY <1>1, <2>2 DEF umgebung
  <2> QED BY <1>1, <1>2, <2>3 DEF TlnInv, UmgebungTyp, umgebung
<1> QED BY <1>7, <1>8

(***************************************************************************)
(* An entry e of number n is stored at server p; v told it (Keiner: it was *)
(* made here).                                                             *)
(***************************************************************************)
Gesetzter(B2, B, p, n, e) == B2 = [B EXCEPT ![p][n] = e]

Gespeichert(p, n, e, v, B, B2, N, z) ==
    /\ e \in Eintrag /\ B[p][n].datum < e.datum /\ e.datum <= z /\ Gesetzter(B2, B, p, n, e)
    /\ Echt(n, e, B2, N)
    /\ v # Keiner => v \in Server /\ v # p /\ (B[v][n].datum >= e.datum \/ N[v] > 0)

(* What is then still to be reported. *)
Berichtet(p, n, e, v, Z, Z2, L, L2) ==
    /\ \A u \in Server : u # p => Z2[u] = Z[u] /\ L2[u] = L[u]
    /\ L2[p] >= L[p]
    /\ <<p, n>> \notin Lokale => /\ L2[p] >= e.datum
                                 /\ \A t \in Server : t # p /\ t # v => Z2[p][t] <= e.datum
    /\ \A t \in Server : t # p => Z2[p][t] <= Z[p][t] \/ (t = v /\ Z[p][t] > L[p])

(* What becomes of the listings at p. *)
NurRest(d, c) ==
    /\ d.offen = c.offen /\ d.partner = c.partner /\ d.ende = c.ende /\ d.gegen = c.gegen
    /\ d.ein = c.ein /\ d.aus = c.aus /\ d.freigabe = c.freigabe /\ d.vollabfrage = c.vollabfrage
    /\ d.gestartet = c.gestartet /\ d.stichdatum = c.stichdatum /\ d.fertig = c.fertig

Weitergelistet(K2, K, p, B2) ==
    /\ K2 \in Netze
    /\ \A u \in Server, j \in Kanaele : u # p => K2[u][j] = K[u][j]
    /\ \A j \in Kanaele :
          /\ NurRest(K2[p][j], K[p][j])
          /\ \A m \in K2[p][j].rest : B2[p][m].datum > 0
          /\ ~Verkuerzt => K[p][j].rest \subseteq K2[p][j].rest

LEMMA BuchGesetzt ==
    ASSUME NEW B \in Buecher, NEW p \in Server, NEW n \in Nummer, NEW e \in Eintrag,
           NEW B2, Gesetzter(B2, B, p, n, e)
    PROVE  /\ B2 \in Buecher /\ B2[p][n] = e
           /\ \A u \in Server, m \in Nummer : u # p \/ m # n => B2[u][m] = B[u][m]
           /\ \A u \in Server, m \in Nummer : B[u][m].datum \in Nat /\ B2[u][m].datum \in Nat
<1>1. /\ B2 \in Buecher /\ B2[p][n] = e
      /\ \A u \in Server, m \in Nummer : u # p \/ m # n => B2[u][m] = B[u][m]
  BY DEF Gesetzter, Buecher
<1>2. \A u \in Server, m \in Nummer : B[u][m].datum \in Nat /\ B2[u][m].datum \in Nat
  BY <1>1, Groessen DEF Buecher, Eintrag
<1> QED BY <1>1, <1>2

LEMMA GleichBelegt ==
    ASSUME NEW K \in Netze, NEW K2, NEW p \in Server, NEW B2, Weitergelistet(K2, K, p, B2),
           NEW u \in Server, NEW j \in Kanaele
    PROVE  NurRest(K2[u][j], K[u][j]) /\ Post(K2[u][j]) = Post(K[u][j])
<1>1. NurRest(K2[u][j], K[u][j])
  <2>1. CASE u # p BY <2>1 DEF Weitergelistet, NurRest
  <2>2. CASE u = p BY <2>2 DEF Weitergelistet
  <2> QED BY <2>1, <2>2
<1> QED BY <1>1 DEF NurRest, Post

LEMMA NetzGelistet ==
    ASSUME NEW K \in Netze, NEW K2, NEW p \in Server, NEW B, NEW N, NEW z, NetzGut(K, B, N, z),
           NEW B2, Weitergelistet(K2, K, p, B2)
    PROVE  NetzGut(K2, B, N, z)
<1>1. ASSUME NEW u \in Server, NEW j \in Kanaele
      PROVE  KanalGut(u, j, K2[u][j], B, N, z)
  <2> DEFINE c == K[u][j]
             d == K2[u][j]
  <2>1. NurRest(d, c) /\ Post(d) = Post(c) BY GleichBelegt
  <2>2. KanalGut(u, j, c, B, N, z) BY DEF NetzGut
  <2> HIDE DEF c, d
  <2>3. FremdGut(c) => FremdGut(d) BY <2>1 DEF FremdGut, NurRest
  <2>4. ServerGut(u, d, B, N, z) BY <2>1, <2>2 DEF KanalGut, ServerGut, NurRest
  <2>5. WartetGut(j, d) BY <2>1, <2>2 DEF KanalGut, WartetGut, NurRest
  <2>6. MelderGut(j, d) BY <2>1, <2>2 DEF KanalGut, MelderGut, NurRest
  <2>7. KanalGut(u, j, d, B, N, z) BY <2>1, <2>2, <2>3, <2>4, <2>5, <2>6 DEF KanalGut, NurRest
  <2> QED BY <2>7 DEF d
<1>2. ASSUME NEW u \in Server, NEW j \in Kanaele, K2[u][j].ende = "Kanal"
      PROVE  /\ K2[u][j].partner # Keiner
             /\ PaarGut(u, j, K2[u][j], K2[K2[u][j].partner][K2[u][j].gegen])
  <2> DEFINE c == K[u][j]
             d == K2[u][j]
             g == K[c.partner][c.gegen]
             h == K2[c.partner][c.gegen]
  <2>1. NurRest(d, c) /\ Post(d) = Post(c) BY GleichBelegt
  <2>2. c.ende = "Kanal" /\ d.partner = c.partner /\ d.gegen = c.gegen BY <1>2, <2>1 DEF NurRest
  <2>3. /\ c.partner \in Server /\ c.gegen \in Kanaele /\ PaarGut(u, j, c, g) BY <2>2, Gegenueber
  <2>4. NurRest(h, g) /\ Post(h) = Post(g) BY <2>3, GleichBelegt
  <2>5. c.partner # Keiner BY <2>3, Groessen
  <2> HIDE DEF c, d, g, h
  <2>6. PaarGut(u, j, d, h) BY <2>1, <2>3, <2>4 DEF PaarGut, NurRest
  <2> QED BY <2>2, <2>5, <2>6 DEF d, h
<1>3. BuchGut(B, N, z) BY DEF NetzGut
<1> QED BY <1>1, <1>2, <1>3 DEF NetzGut

LEMMA BuchGespeichert ==
    ASSUME NEW B \in Buecher, NEW p \in Server, NEW n \in Nummer, NEW e, NEW v, NEW N, NEW z \in Int,
           NEW B2, Gespeichert(p, n, e, v, B, B2, N, z), BuchGut(B, N, z)
    PROVE  B2 \in Buecher /\ Waechst(B, B2, N, N) /\ BuchGut(B2, N, z)
<1>1. /\ B2 \in Buecher /\ B2[p][n] = e /\ e \in Eintrag
      /\ \A u \in Server, m \in Nummer : u # p \/ m # n => B2[u][m] = B[u][m]
      /\ \A u \in Server, m \in Nummer : B[u][m].datum \in Nat /\ B2[u][m].datum \in Nat
  BY BuchGesetzt DEF Gespeichert
<1>2. B[p][n].datum < e.datum /\ e.datum <= z /\ Echt(n, e, B2, N) BY DEF Gespeichert
<1>3. \A u \in Server, m \in Nummer : B2[u][m].datum >= B[u][m].datum BY <1>1, <1>2
<1>4. Waechst(B, B2, N, N) BY <1>3 DEF Waechst
<1>5. ASSUME NEW u \in Server, NEW m \in Nummer, B2[u][m].datum > 0
      PROVE  B2[u][m].datum <= z /\ Echt(m, B2[u][m], B2, N)
  <2>1. CASE u = p /\ m = n BY <1>1, <1>2, <2>1
  <2>2. CASE u # p \/ m # n
    <3>1. B2[u][m] = B[u][m] /\ B[u][m] \in Eintrag BY <1>1, <2>2 DEF Buecher
    <3>2. B[u][m].datum <= z /\ Echt(m, B[u][m], B, N) BY <1>5, <3>1 DEF BuchGut
    <3>3. Echt(m, B[u][m], B2, N) BY <1>1, <1>4, <3>1, <3>2, EchtWaechst
    <3> QED BY <3>1, <3>2, <3>3
  <2> QED BY <2>1, <2>2
<1>6. BuchGut(B2, N, z) BY <1>5 DEF BuchGut
<1> QED BY <1>1, <1>4, <1>6

(* What was reported still is, and the new entry is reported or known. *)
LEMMA GemeldetWeiter ==
    ASSUME NEW B \in Buecher, NEW p \in Server, NEW n \in Nummer, NEW e, NEW v, NEW N, NEW z,
           NEW B2, Gespeichert(p, n, e, v, B, B2, N, z),
           NEW Z \in [Server -> Zeilen], NEW Z2 \in [Server -> Zeilen],
           NEW L \in [Server -> 0 .. MaxZeit], NEW L2, Berichtet(p, n, e, v, Z, Z2, L, L2),
           ZeitGut(B, L, N), NEW u \in Server, NEW t \in Server, NEW m \in Nummer,
           Gemeinsam(u, t, m), N[u] = 0, N[t] = 0,
           Gemeldet(u, t, m, B, Z) \/ (u = p /\ m = n)
    PROVE  Gemeldet(u, t, m, B2, Z2)
<1>1. /\ B2[p][n] = e /\ e \in Eintrag
      /\ \A w \in Server, i \in Nummer : w # p \/ i # n => B2[w][i] = B[w][i]
      /\ \A w \in Server, i \in Nummer : B[w][i].datum \in Nat /\ B2[w][i].datum \in Nat
  BY BuchGesetzt DEF Gespeichert
<1>2. B[p][n].datum < e.datum /\ e.datum \in Nat BY <1>1 DEF Gespeichert
<1>3. /\ u # t /\ <<u, m>> \notin Lokale /\ <<t, m>> \notin Lokale BY DEF Gemeinsam
<1>4. \A w, x \in Server : Z[w][x] \in Nat /\ Z2[w][x] \in Nat BY Groessen DEF Zeilen
<1>5. L[u] \in Nat /\ L[u] >= B[u][m].datum BY <1>3, Groessen DEF ZeitGut
<1>6. CASE u = p /\ m = n
  <2>1. CASE t = v
    <3>1. B[v][n].datum >= e.datum
      <4>1. v # Keiner /\ ~(N[v] > 0) BY <2>1, Groessen
      <4> QED BY <4>1 DEF Gespeichert
    <3>2. B2[t][n] = B[v][n] BY <1>1, <1>3, <1>6, <2>1
    <3>3. B2[t][m].datum >= B2[u][m].datum BY <1>1, <1>6, <3>1, <3>2
    <3> QED BY <3>3 DEF Gemeldet
  <2>2. CASE t # v
    <3>1. Z2[p][t] <= e.datum BY <1>3, <1>6, <2>2 DEF Berichtet
    <3> QED BY <1>1, <1>6, <3>1 DEF Gemeldet
  <2> QED BY <2>1, <2>2
<1>7. CASE u # p
  <2>1. Z2[u] = Z[u] /\ B2[u][m] = B[u][m] BY <1>1, <1>7 DEF Berichtet
  <2>2. B2[t][m].datum >= B[t][m].datum
    <3>1. CASE t = p /\ m = n BY <1>1, <1>2, <3>1
    <3>2. CASE t # p \/ m # n
      <4>1. B2[t][m].datum = B[t][m].datum /\ B[t][m].datum \in Nat BY <1>1, <3>2
      <4> QED BY <4>1
    <3> QED BY <3>1, <3>2
  <2>3. Gemeldet(u, t, m, B, Z) BY <1>7
  <2>4. CASE B[t][m].datum >= B[u][m].datum
    <3>1. B2[t][m].datum >= B2[u][m].datum BY <1>1, <2>1, <2>2, <2>4
    <3> QED BY <3>1 DEF Gemeldet
  <2>5. CASE Z[u][t] <= B[u][m].datum BY <2>1, <2>5 DEF Gemeldet
  <2> QED BY <2>3, <2>4, <2>5 DEF Gemeldet
<1>8. CASE u = p /\ m # n
  <2>1. B2[u][m] = B[u][m] /\ B2[t][m] = B[t][m] BY <1>1, <1>8
  <2>2. Gemeldet(u, t, m, B, Z) BY <1>8
  <2>3. CASE B[t][m].datum >= B[u][m].datum BY <2>1, <2>3 DEF Gemeldet
  <2>4. CASE Z[u][t] <= B[u][m].datum
    <3>1. ~(Z[u][t] > L[u]) BY <1>1, <1>4, <1>5, <2>4
    <3>2. Z2[p][t] <= Z[p][t] BY <1>3, <1>8, <3>1 DEF Berichtet
    <3>3. Z2[u][t] <= B2[u][m].datum BY <1>1, <1>4, <1>8, <2>1, <2>4, <3>2
    <3> QED BY <3>3 DEF Gemeldet
  <2> QED BY <2>2, <2>3, <2>4 DEF Gemeldet
<1> QED BY <1>6, <1>7, <1>8

LEMMA ZeitGespeichert ==
    ASSUME NEW B \in Buecher, NEW p \in Server, NEW n \in Nummer, NEW e, NEW v, NEW N, NEW z,
           NEW B2, Gespeichert(p, n, e, v, B, B2, N, z), NEW Z, NEW Z2,
           NEW L \in [Server -> 0 .. MaxZeit], NEW L2 \in [Server -> 0 .. MaxZeit],
           Berichtet(p, n, e, v, Z, Z2, L, L2), ZeitGut(B, L, N)
    PROVE  ZeitGut(B2, L2, N)
<1>1. /\ B2[p][n] = e
      /\ \A w \in Server, i \in Nummer : w # p \/ i # n => B2[w][i] = B[w][i]
      /\ \A w \in Server, i \in Nummer : B[w][i].datum \in Nat
  BY BuchGesetzt DEF Gespeichert
<1>2. \A w \in Server : L[w] \in Nat /\ L2[w] \in Nat BY Groessen
<1>3. ASSUME NEW s \in Server, NEW m \in Nummer, N[s] = 0, <<s, m>> \notin Lokale
      PROVE  L2[s] >= B2[s][m].datum
  <2>1. L[s] >= B[s][m].datum BY <1>3 DEF ZeitGut
  <2>2. CASE s = p /\ m = n BY <1>1, <1>3, <2>2 DEF Berichtet
  <2>3. CASE s # p \/ m # n
    <3>1. L2[s] >= L[s] BY <1>2 DEF Berichtet
    <3>2. B2[s][m].datum = B[s][m].datum BY <1>1, <2>3
    <3> QED BY <1>1, <1>2, <2>1, <3>1, <3>2
  <2> QED BY <2>2, <2>3
<1> QED BY <1>3 DEF ZeitGut

LEMMA SyncGespeichert ==
    ASSUME NEW K \in Netze, NEW B \in Buecher, NEW p \in Server, NEW n \in Nummer, NEW e, NEW v, NEW N,
           NEW z, NetzGut(K, B, N, z), NEW B2, Gespeichert(p, n, e, v, B, B2, N, z),
           NEW Z \in [Server -> Zeilen], NEW Z2 \in [Server -> Zeilen],
           NEW L \in [Server -> 0 .. MaxZeit], NEW L2, Berichtet(p, n, e, v, Z, Z2, L, L2),
           ZeitGut(B, L, N), ~Verkuerzt, NEW K2, Weitergelistet(K2, K, p, B2),
           NEW u \in Server, SyncGut(u, K, B, Z, N)
    PROVE  SyncGut(u, K2, B2, Z2, N)
<1> DEFINE c == K[u][0]
           d == K2[u][0]
           g == K[c.partner][c.gegen]
           h == K2[c.partner][c.gegen]
<1>1. 0 \in Kanaele BY Groessen
<1>2. NurRest(d, c) /\ Post(d) = Post(c) BY <1>1, GleichBelegt
<1>3. c.rest \subseteq d.rest BY <1>1 DEF Weitergelistet
<1>4. /\ B2[p][n] = e
      /\ \A w \in Server, i \in Nummer : w # p \/ i # n => B2[w][i] = B[w][i]
  BY BuchGesetzt DEF Gespeichert
<1>5. ASSUME NEW m \in Nummer, Zustaendig(u, d, m, B2, N)
      PROVE  DialogGut(u, d, h, m, B2, Z2)
  <2>1. /\ c.offen /\ c.stichdatum > 0 /\ N[u] = 0 /\ N[c.partner] = 0 /\ Gemeinsam(u, c.partner, m)
        /\ B2[u][m].datum >= c.stichdatum
    BY <1>2, <1>5 DEF Zustaendig, NurRest
  <2>2. c.partner \in Server BY <2>1, MeldetServer
  <2>3. CASE u = p /\ m = n
    <3>1. Gemeldet(u, c.partner, m, B2, Z2) BY <2>1, <2>2, <2>3, GemeldetWeiter
    <3> HIDE DEF c, d, g, h
    <3> QED BY <1>2, <3>1 DEF DialogGut, Uebrig, NurRest
  <2>4. CASE u # p \/ m # n
    <3>1. B2[u][m] = B[u][m] BY <1>4, <2>4
    <3>2. Zustaendig(u, c, m, B, N) BY <2>1, <3>1 DEF Zustaendig
    <3>3. DialogGut(u, c, g, m, B, Z) BY <3>2 DEF SyncGut
    <3>4. Gemeldet(u, c.partner, m, B, Z) => Gemeldet(u, c.partner, m, B2, Z2)
      BY <2>1, <2>2, GemeldetWeiter
    <3>5. c.ende = "Kanal" => Post(h) = Post(g)
      <4>1. ASSUME c.ende = "Kanal" PROVE Post(h) = Post(g)
        <5>1. c.gegen \in Kanaele BY <1>1, <4>1, Gegenueber
        <5> QED BY <2>2, <5>1, GleichBelegt
      <4> QED BY <4>1
    <3> HIDE DEF c, d, g, h
    <3>6. Uebrig(u, c, m, B, Z) => Uebrig(u, d, m, B2, Z2) BY <1>2, <1>3, <3>4 DEF Uebrig, NurRest
    <3> QED BY <1>2, <3>1, <3>3, <3>4, <3>5, <3>6 DEF DialogGut, NurRest
  <2> QED BY <2>3, <2>4
<1>6. d.partner = c.partner /\ d.gegen = c.gegen BY <1>2 DEF NurRest
<1> QED BY <1>5, <1>6 DEF SyncGut

LEMMA MeldGespeichert ==
    ASSUME NEW K \in Netze, NEW B \in Buecher, NEW p \in Server, NEW n \in Nummer, NEW e, NEW v, NEW N,
           NEW z, NetzGut(K, B, N, z), NEW B2, Gespeichert(p, n, e, v, B, B2, N, z),
           NEW Z \in [Server -> Zeilen], NEW Z2 \in [Server -> Zeilen],
           NEW L \in [Server -> 0 .. MaxZeit], NEW L2 \in [Server -> 0 .. MaxZeit],
           Berichtet(p, n, e, v, Z, Z2, L, L2), MeldungGut(K, B, Z, L, N), ~Verkuerzt,
           NEW K2, Weitergelistet(K2, K, p, B2)
    PROVE  MeldungGut(K2, B2, Z2, L2, N)
<1>1. ZeitGut(B, L, N) /\ \A u \in Server : SyncGut(u, K, B, Z, N) BY DEF MeldungGut
<1>2. ZeitGut(B2, L2, N) BY <1>1, ZeitGespeichert
<1>3. \A u \in Server : SyncGut(u, K2, B2, Z2, N)
  <2> HIDE DEF SyncGut
  <2> QED BY <1>1, SyncGespeichert
<1>4. /\ B2[p][n] = e
      /\ \A w \in Server, i \in Nummer : w # p \/ i # n => B2[w][i] = B[w][i]
  BY BuchGesetzt DEF Gespeichert
<1>5. ASSUME NEW u \in Server, NEW t \in Server, NEW m \in Nummer,
             Gemeinsam(u, t, m), N[u] = 0, N[t] = 0
      PROVE  Gemeldet(u, t, m, B2, Z2) \/ Laeuft(u, t, m, K2, B2)
  <2>1. Gemeldet(u, t, m, B, Z) \/ Laeuft(u, t, m, K, B) BY <1>5 DEF MeldungGut
  <2>2. CASE Gemeldet(u, t, m, B, Z) \/ (u = p /\ m = n) BY <1>1, <1>5, <2>2, GemeldetWeiter
  <2>3. CASE Laeuft(u, t, m, K, B) /\ (u # p \/ m # n)
    <3>1. B2[u][m] = B[u][m] BY <1>4, <2>3
    <3>2. NurRest(K2[u][0], K[u][0]) BY GleichBelegt, Groessen
    <3>3. Laeuft(u, t, m, K2, B2) BY <2>3, <3>1, <3>2 DEF Laeuft, NurRest
    <3> QED BY <3>3
  <2> QED BY <2>1, <2>2, <2>3
<1> QED BY <1>2, <1>3, <1>5 DEF MeldungGut

LEMMA GutGespeichert ==
    ASSUME NEW K, NEW B, NEW Z, NEW L, NEW N, NEW z, Gut(K, B, Z, L, N, z),
           NEW p \in Server, NEW n \in Nummer, NEW e, NEW v,
           NEW B2, Gespeichert(p, n, e, v, B, B2, N, z),
           NEW Z2 \in [Server -> Zeilen], NEW L2 \in [Server -> 0 .. MaxZeit],
           Berichtet(p, n, e, v, Z, Z2, L, L2), NEW K2, Weitergelistet(K2, K, p, B2)
    PROVE  Gut(K2, B2, Z2, L2, N, z)
<1>1. /\ Werte(K, B, Z, L, N, z) /\ NetzGut(K, B, N, z) /\ RestGut(K, B) /\ K \in Netze
      /\ B \in Buecher /\ Z \in [Server -> Zeilen] /\ L \in [Server -> 0 .. MaxZeit]
      /\ z \in Int /\ BuchGut(B, N, z)
      /\ Verkuerzt \/ MeldungGut(K, B, Z, L, N)
  BY DEF Gut, Werte, NetzGut
<1>2. B2 \in Buecher /\ Waechst(B, B2, N, N) /\ BuchGut(B2, N, z) BY <1>1, BuchGespeichert
<1>3. NetzGut(K, B2, N, z)
  <2>1. z <= z BY <1>1
  <2> QED BY <1>1, <1>2, <2>1, NetzWaechst
<1>4. NetzGut(K2, B2, N, z) BY <1>1, <1>3, NetzGelistet
<1>5. RestGut(K2, B2)
  <2>1. ASSUME NEW u \in Server, u # p, NEW j \in Kanaele, NEW m \in K2[u][j].rest
        PROVE  B2[u][m].datum > 0
    <3>1. K2[u][j] = K[u][j] /\ K[u][j] \in Kanal BY <1>1, <2>1 DEF Weitergelistet, Netze
    <3>2. m \in Nummer /\ B[u][m].datum > 0 BY <1>1, <2>1, <3>1 DEF RestGut, Kanal
    <3>3. B2[u][m] = B[u][m] BY <1>1, <2>1, <3>2, BuchGesetzt DEF Gespeichert
    <3> QED BY <3>2, <3>3
  <2>2. ASSUME NEW j \in Kanaele, NEW m \in K2[p][j].rest PROVE B2[p][m].datum > 0
    BY <2>2 DEF Weitergelistet
  <2> QED BY <2>1, <2>2 DEF RestGut
<1>6. ASSUME ~Verkuerzt PROVE MeldungGut(K2, B2, Z2, L2, N) BY <1>1, <1>6, MeldGespeichert
<1>7. Werte(K2, B2, Z2, L2, N, z) BY <1>1, <1>2 DEF Werte, Weitergelistet
<1> QED BY <1>4, <1>5, <1>6, <1>7 DEF Gut

(* The listings of p, when entry n changes to give the directory b. *)
LEMMA ListerWirkung ==
    ASSUME NEW c \in Kanal, NEW p \in Server, NEW n \in Nummer, NEW b, b[n].datum > 0,
           \A m \in Nummer : m # n => b[m] = buch[p][m],
           \A m \in c.rest : buch[p][m].datum > 0,
           NEW R \in ListerNach(c, p, n, b)
    PROVE  /\ R \in SUBSET Nummer /\ \A m \in R : b[m].datum > 0
           /\ ~Verkuerzt => c.rest \subseteq R
<1>1. c.rest \subseteq Nummer BY DEF Kanal
<1>2. c.rest \subseteq Bestand(b) /\ n \in Bestand(b) BY <1>1 DEF Bestand
<1>3. R \subseteq Bestand(b) /\ (~Verkuerzt => c.rest \subseteq R)
  <2>1. \/ R = c.rest
        \/ c.rest = {} /\ R = Bestand(b)
        \/ R = c.rest \cup {n}
        \/ R = Bestand(b)
        \/ Verkuerzt /\ R = {}
    BY DEF ListerNach
  <2> QED BY <1>2, <2>1
<1> QED BY <1>3 DEF Bestand

LEMMA GekuerztFelder ==
    ASSUME NEW c \in Kanal, NEW R \in SUBSET Nummer, NEW d, Gekuerzt(d, c, R)
    PROVE  d \in Kanal /\ NurRest(d, c) /\ d.rest = R
<1>1. d \in Kanal /\ d.rest = R BY DEF Gekuerzt, Kanal
<1>2. NurRest(d, c) BY DEF Gekuerzt, NurRest, Kanal
<1> QED BY <1>1, <1>2

LEMMA GelistetWirkung ==
    ASSUME kanal \in Netze, RestGut(kanal, buch), NEW p \in Server, NEW n \in Nummer,
           NEW B2, B2[p][n].datum > 0, \A m \in Nummer : m # n => B2[p][m] = buch[p][m],
           NEW K2 \in Gelistet(p, n, B2[p])
    PROVE  Weitergelistet(K2, kanal, p, B2)
<1> DEFINE b == B2[p]
<1>1. PICK r \in [Kanaele -> SUBSET Nummer] :
        /\ \A k \in Kanaele : r[k] \in ListerNach(kanal[p][k], p, n, b)
        /\ K2 = [kanal EXCEPT ![p] = [k \in Kanaele |-> [kanal[p][k] EXCEPT !.rest = r[k]]]]
  BY DEF Gelistet
<1>2. ASSUME NEW j \in Kanaele
      PROVE  /\ kanal[p][j] \in Kanal /\ r[j] \in SUBSET Nummer
             /\ \A m \in r[j] : B2[p][m].datum > 0
             /\ ~Verkuerzt => kanal[p][j].rest \subseteq r[j]
  <2>1. kanal[p][j] \in Kanal BY DEF Netze
  <2>2. \A m \in kanal[p][j].rest : buch[p][m].datum > 0 BY DEF RestGut
  <2>3. r[j] \in ListerNach(kanal[p][j], p, n, b) BY <1>1
  <2>4. b[n].datum > 0 /\ \A m \in Nummer : m # n => b[m] = buch[p][m] OBVIOUS
  <2>5. b = B2[p] OBVIOUS
  <2> HIDE DEF b
  <2>6. /\ r[j] \in SUBSET Nummer /\ \A m \in r[j] : b[m].datum > 0
        /\ ~Verkuerzt => kanal[p][j].rest \subseteq r[j]
    BY <2>1, <2>2, <2>3, <2>4, ListerWirkung
  <2> QED BY <2>1, <2>5, <2>6
<1> HIDE DEF b
<1> DEFINE d(j) == [kanal[p][j] EXCEPT !.rest = r[j]]
<1>3. ASSUME NEW j \in Kanaele
      PROVE  d(j) \in Kanal /\ NurRest(d(j), kanal[p][j]) /\ d(j).rest = r[j]
  <2>1. Gekuerzt(d(j), kanal[p][j], r[j]) BY DEF Gekuerzt
  <2> HIDE DEF d
  <2> QED BY <1>2, <2>1, GekuerztFelder
<1>4. K2 = [kanal EXCEPT ![p] = [k \in Kanaele |-> d(k)]] BY <1>1
<1> HIDE DEF d
<1>5. /\ K2 \in Netze /\ \A j \in Kanaele : K2[p][j] = d(j)
      /\ \A u \in Server, j \in Kanaele : u # p => K2[u][j] = kanal[u][j]
  <2> HIDE DEF Kanal, Kanaele
  <2> QED BY <1>3, <1>4 DEF Netze
<1> QED BY <1>2, <1>3, <1>5 DEF Weitergelistet

(* TlnServTlnbuchEintragGeaendert *)
LEMMA StichzeitWirkung ==
    ASSUME stichzeit \in [Server -> Zeilen], letzte \in [Server -> 0 .. MaxZeit], NEW s \in Server,
           NEW m \in 1 .. MaxZeit, NEW v, NEW y, y = StichzeitNach(s, m, v)
    PROVE  /\ y \in Zeilen
           /\ \A t \in Server : t # s /\ t # v => y[t] <= m
           /\ \A t \in Server : y[t] <= stichzeit[s][t] \/ (t = v /\ v # Keiner /\ stichzeit[s][t] > letzte[s])
<1>1. MaxZeit \in Nat /\ m \in Nat /\ m > 0 /\ m <= MaxZeit BY Groessen
<1>2. \A t \in Server : /\ stichzeit[s][t] \in Nat /\ stichzeit[s][t] > 0
                        /\ stichzeit[s][t] <= MaxZeit + 1
  BY <1>1 DEF Zeilen
<1>3. \A t \in Server : y[t] = (IF t = s THEN stichzeit[s][t]
         ELSE IF t # v THEN IF stichzeit[s][t] > m THEN m ELSE stichzeit[s][t]
         ELSE IF (v # Keiner /\ stichzeit[s][v] > letzte[s]) /\ stichzeit[s][t] <= m THEN m + 1
         ELSE stichzeit[s][t])
  BY DEF StichzeitNach
<1>4. \A t \in Server : y[t] \in Nat /\ y[t] > 0 /\ y[t] <= MaxZeit + 1 BY <1>1, <1>2, <1>3
<1>5. y \in Zeilen
  <2>1. y = [t \in Server |-> y[t]] BY DEF StichzeitNach
  <2>2. \A t \in Server : y[t] \in 1 .. MaxZeit + 1 BY <1>1, <1>4
  <2> QED BY <2>1, <2>2 DEF Zeilen
<1>6. \A t \in Server : t # s /\ t # v => y[t] <= m BY <1>1, <1>2, <1>3
<1>7. \A t \in Server : y[t] <= stichzeit[s][t] \/ (t = v /\ v # Keiner /\ stichzeit[s][t] > letzte[s])
  BY <1>1, <1>2, <1>3
<1> QED BY <1>5, <1>6, <1>7

LEMMA LetzteWirkung ==
    ASSUME letzte \in [Server -> 0 .. MaxZeit], NEW s \in Server, NEW m \in 1 .. MaxZeit,
           NEW L2, Zeile(L2, letzte, s, LetzteNach(s, m))
    PROVE  /\ L2 \in [Server -> 0 .. MaxZeit] /\ L2[s] >= letzte[s] /\ L2[s] >= m
           /\ \A u \in Server : u # s => L2[u] = letzte[u]
<1>1. MaxZeit \in Nat /\ m \in Nat /\ m <= MaxZeit BY Groessen
<1>2. letzte[s] \in Nat /\ letzte[s] <= MaxZeit BY <1>1
<1> DEFINE w == LetzteNach(s, m)
<1>3. w \in 0 .. MaxZeit /\ w >= letzte[s] /\ w >= m BY <1>1, <1>2 DEF LetzteNach
<1>4. L2 = [letzte EXCEPT ![s] = w] BY DEF Zeile
<1> HIDE DEF w
<1> QED BY <1>3, <1>4

LEMMA BerichtetNach ==
    ASSUME stichzeit \in [Server -> Zeilen], letzte \in [Server -> 0 .. MaxZeit], NEW s \in Server, NEW n,
           NEW e \in Eintrag, e.datum > 0, NEW v, NEW y, y = StichzeitNach(s, e.datum, v),
           NEW Z2, Zeile(Z2, stichzeit, s, y), NEW L2, Zeile(L2, letzte, s, LetzteNach(s, e.datum))
    PROVE  /\ y \in Zeilen /\ Z2 \in [Server -> Zeilen] /\ L2 \in [Server -> 0 .. MaxZeit]
           /\ Berichtet(s, n, e, v, stichzeit, Z2, letzte, L2)
           /\ v = Keiner => Zurueck(Z2, stichzeit)
           /\ \A u \in Server : L2[u] >= letzte[u]
<1> DEFINE m == e.datum
<1>1. m \in 1 .. MaxZeit
  <2>1. m \in 0 .. MaxZeit BY DEF Eintrag
  <2> QED BY <2>1, Groessen
<1>2. y = StichzeitNach(s, m, v) /\ Zeile(L2, letzte, s, LetzteNach(s, m)) OBVIOUS
<1> HIDE DEF m
<1>3. /\ y \in Zeilen
      /\ \A t \in Server : t # s /\ t # v => y[t] <= m
      /\ \A t \in Server : y[t] <= stichzeit[s][t] \/ (t = v /\ v # Keiner /\ stichzeit[s][t] > letzte[s])
  BY <1>1, <1>2, StichzeitWirkung
<1>4. /\ L2 \in [Server -> 0 .. MaxZeit] /\ L2[s] >= letzte[s] /\ L2[s] >= m
      /\ \A u \in Server : u # s => L2[u] = letzte[u]
  BY <1>1, <1>2, LetzteWirkung
<1>5. Z2 \in [Server -> Zeilen] /\ Z2[s] = y /\ \A u \in Server : u # s => Z2[u] = stichzeit[u]
  BY <1>3 DEF Zeile
<1>6. Berichtet(s, n, e, v, stichzeit, Z2, letzte, L2) BY <1>3, <1>4, <1>5 DEF Berichtet, m
<1>7. v = Keiner => Zurueck(Z2, stichzeit)
  <2>1. \A u, t \in Server : stichzeit[u][t] \in Int BY DEF Zeilen
  <2> QED BY <1>3, <1>5, <2>1 DEF Zurueck
<1>8. \A u \in Server : L2[u] >= letzte[u]
  <2>1. \A u \in Server : letzte[u] \in Int OBVIOUS
  <2> QED BY <1>4, <2>1
<1> QED BY <1>3, <1>4, <1>5, <1>6, <1>7, <1>8

(* An entry made at s itself, now. *)
LEMMA NeuHier ==
    ASSUME TlnInv, NEW s \in Server, NEW n \in Nummer, NeueSekunde(n), NEW g \in BOOLEAN,
           NEW e, e = [datum |-> zeit, von |-> s, gesperrt |-> g],
           NEW B2, Gesetzter(B2, buch, s, n, e)
    PROVE  /\ Gespeichert(s, n, e, Keiner, buch, B2, neustarts, zeit)
           /\ e \in Eintrag /\ e.datum = zeit /\ e.datum > 0
<1>1. /\ buch \in Buecher /\ BuchGut(buch, neustarts, zeit) /\ zeit \in 1 .. MaxZeit
  BY DEF TlnInv, Gut, Werte, NetzGut
<1>2. zeit \in Nat /\ zeit > 0 /\ zeit \in 0 .. MaxZeit BY <1>1, Groessen
<1>3. e \in Eintrag /\ e.datum = zeit /\ e.von = s BY <1>2 DEF Eintrag
<1>4. buch[s][n].datum < zeit
  <2>1. buch[s][n].datum # zeit BY DEF NeueSekunde
  <2>2. buch[s][n].datum \in Nat BY <1>1, Groessen DEF Buecher, Eintrag
  <2>3. buch[s][n].datum > 0 => buch[s][n].datum <= zeit BY <1>1 DEF BuchGut
  <2> QED BY <1>2, <2>1, <2>2, <2>3
<1>5. B2[s][n] = e BY <1>1, <1>3, BuchGesetzt
<1>6. Echt(n, e, B2, neustarts) BY <1>2, <1>3, <1>5 DEF Echt
<1> QED BY <1>2, <1>3, <1>4, <1>6 DEF Gespeichert

LEMMA EintragAendernErhaelt ==
    ASSUME TlnInv, NEW s \in Server, NEW n \in Nummer, NEW g \in BOOLEAN, EintragAendern(s, n, g)
    PROVE  TlnInv'
<1> DEFINE e == [datum |-> zeit, von |-> s, gesperrt |-> g]
           y == StichzeitNach(s, e.datum, Keiner)
<1>1. /\ aenderungen > 0 /\ aenderungen' = aenderungen - 1 /\ NeueSekunde(n)
      /\ EigeneAenderung(s, n, e)
      /\ UNCHANGED <<vollErfolg, vollFaellig, stoerungen, zeit, neustarts, fremde>>
  BY DEF EintragAendern
<1>2. /\ Gut(kanal, buch, stichzeit, letzte, neustarts, zeit) /\ kanal \in Netze /\ buch \in Buecher
      /\ RestGut(kanal, buch) /\ UmgebungTyp /\ stichzeit \in [Server -> Zeilen]
      /\ letzte \in [Server -> 0 .. MaxZeit]
  BY DEF TlnInv, Gut, Werte
<1>3. /\ Gesetzter(buch', buch, s, n, e) /\ kanal' \in Gelistet(s, n, buch'[s])
      /\ \/ <<s, n>> \in Lokale /\ stichzeit' = stichzeit /\ letzte' = letzte
         \/ /\ Zeile(stichzeit', stichzeit, s, y)
            /\ Zeile(letzte', letzte, s, LetzteNach(s, e.datum))
  BY <1>1 DEF EigeneAenderung, Gesetzter, Zeile
<1>4. e = [datum |-> zeit, von |-> s, gesperrt |-> g] /\ y = StichzeitNach(s, e.datum, Keiner) OBVIOUS
<1> HIDE DEF e, y
<1>5. /\ Gespeichert(s, n, e, Keiner, buch, buch', neustarts, zeit)
      /\ e \in Eintrag /\ e.datum = zeit /\ e.datum > 0
  BY <1>1, <1>3, <1>4, NeuHier
<1>6. /\ buch' \in Buecher /\ buch'[s][n] = e
      /\ \A m \in Nummer : m # n => buch'[s][m] = buch[s][m]
  BY <1>2, <1>3, <1>5, BuchGesetzt
<1>7. Weitergelistet(kanal', kanal, s, buch') BY <1>2, <1>3, <1>5, <1>6, GelistetWirkung
<1>8. /\ stichzeit' \in [Server -> Zeilen] /\ letzte' \in [Server -> 0 .. MaxZeit]
      /\ Berichtet(s, n, e, Keiner, stichzeit, stichzeit', letzte, letzte')
  <2>1. CASE <<s, n>> \in Lokale /\ stichzeit' = stichzeit /\ letzte' = letzte
    <3>1. \A t \in Server : stichzeit[s][t] <= stichzeit[s][t] BY <1>2, ZurueckSelbst DEF Zurueck
    <3>2. letzte[s] >= letzte[s]
      <4>1. letzte[s] \in Int BY <1>2
      <4> QED BY <4>1
    <3> QED BY <1>2, <2>1, <3>1, <3>2 DEF Berichtet
  <2>2. CASE /\ Zeile(stichzeit', stichzeit, s, y)
             /\ Zeile(letzte', letzte, s, LetzteNach(s, e.datum))
    BY <1>2, <1>4, <1>5, <2>2, BerichtetNach
  <2> QED BY <1>3, <2>1, <2>2
<1>9. Gut(kanal', buch', stichzeit', letzte', neustarts, zeit)
  BY <1>2, <1>5, <1>7, <1>8, GutGespeichert
<1>10. Gut(kanal', buch', stichzeit', letzte', neustarts', zeit') BY <1>1, <1>9
<1>11. aenderungen' \in 0 .. MaxAenderungen BY <1>1, <1>2, Groessen DEF UmgebungTyp
<1> QED BY <1>1, <1>2, <1>10, <1>11 DEF TlnInv, UmgebungTyp

(***************************************************************************)
(* A telegram that made the server store an entry, or look at its times,   *)
(* is answered: then channels are K, of which the listings have changed.   *)
(***************************************************************************)
LEMMA NachherGelistet ==
    ASSUME NEW a, NEW b \in Kanal, NurRest(b, a), NEW c, Nachher(a, c), NEW d, Gekuerzt(d, c, b.rest)
    PROVE  Nachher(b, d) /\ d \in Kanal
<1>1. c \in Kanal BY DEF Nachher
<1>2. b.rest \in SUBSET Nummer BY DEF Kanal
<1>3. d \in Kanal /\ NurRest(d, c) /\ d.rest = b.rest BY <1>1, <1>2, GekuerztFelder
<1> QED BY <1>3 DEF Nachher, NurRest, Gleich

LEMMA NachSpeichern ==
    ASSUME TlnInv, NEW s \in Server, NEW k \in Kanaele, NEW A, Liest(s, k, A), kanal[s][k].stichdatum = 0,
           NEW K, NEW B, NEW L, NEW N, NEW z, NEW y \in Zeilen, NEW Z, Zeile(Z, stichzeit, s, y),
           Gut(K, B, Z, L, N, z), NurRest(K[s][k], kanal[s][k]),
           NEW d, Nachher(K[s][k], d), NEW tel \in Telegramm, Antwort(K, s, k, d, tel, B, Z, N, z),
           NEW K2, Setzt(K2, K, s, k, d), Abschluss(K2, s, k, tel, y)
    PROVE  Gut(kanal', B, stichzeit', L, N, z) /\ stoerungen' \in 0 .. MaxStoerungen
<1>1. kanal[s][k].offen = TRUE /\ kanal[s][k].ein # << >> BY Leser
<1>2. K[s][k].offen = TRUE /\ K[s][k].ein # << >> /\ K[s][k].stichdatum = 0 BY <1>1 DEF NurRest
<1>3. Abgelesen(K, s, k, d) /\ Listbar(B, s, d) /\ d \in Kanal BY <1>2, NachherAbgelesen
<1>4. Geliefert(K, s, k, d, B, Z, N) BY <1>2 DEF Geliefert
<1>5. stichzeit \in [Server -> Zeilen] /\ stoerungen \in 0 .. MaxStoerungen
  BY DEF TlnInv, Gut, Werte, UmgebungTyp
<1> QED BY <1>3, <1>4, <1>5, GelesenErhaelt

LEMMA SelbstaktEmpfangenErhaelt ==
    ASSUME TlnInv, NEW s \in Server, NEW k \in Kanaele, SelbstaktEmpfangen(s, k)
    PROVE  TlnInv'
<1> DEFINE A == {"Selbstakt"}
           t == Gelesen(s, k)
           n == t.nr
           a == NachLesen(s, k)
           c == [a EXCEPT !.fertig = TRUE]
           g == ~Belegt(s, n)
           e == [datum |-> zeit, von |-> s, gesperrt |-> g]
           y == StichzeitNach(s, zeit, Keiner)
           tel == Einfach("Rueckmeldung")
           d(K) == [c EXCEPT !.rest = K[s][k].rest]
           K2(K) == [K EXCEPT ![s][k] = d(K)]
<1>1. Liest(s, k, A) /\ t.art = "Selbstakt" BY DEF SelbstaktEmpfangen, Liest
<1>2. \/ Beantworten(s, k, c, Einfach("Fehler"))
      \/ Beantworten(s, k, c, tel)
      \/ /\ NeueSekunde(n)
         /\ aenderungen' = aenderungen \/ (aenderungen > 0 /\ aenderungen' = aenderungen - 1)
         /\ Gesetzter(buch', buch, s, n, e)
         /\ \E K \in Gelistet(s, n, buch'[s]) : Abschluss(K2(K), s, k, tel, y)
         /\ Zeile(letzte', letzte, s, LetzteNach(s, zeit))
         /\ UNCHANGED <<vollErfolg, vollFaellig, zeit, neustarts, fremde>>
  BY DEF SelbstaktEmpfangen, Gesetzter, Zeile
<1>3. /\ Gut(kanal, buch, stichzeit, letzte, neustarts, zeit)
      /\ kanal[s][k] \in Kanal /\ KanalGut(s, k, kanal[s][k], buch, neustarts, zeit)
      /\ Nachher(kanal[s][k], a) /\ Post(kanal[s][k]) = {t} /\ t \in Telegramm
  <2> HIDE DEF A, a, t
  <2> QED BY <1>1, Leser DEF a, t
<1>4. kanal[s][k].stichdatum = 0
  <2>1. t.art \notin {"Quittung", "Fehler"} BY <1>1
  <2> QED BY <1>3, <2>1, KeinMelder
<1>5. Nachher(kanal[s][k], c)
  <2> HIDE DEF a
  <2> QED BY <1>3, NachherFertig
<1>6. n \in Nummer BY <1>1, <1>3, TelegrammArt DEF Selbstakt
<1>7. A \cap {"Anmeldung", "Auskunft", "Ende"} = {} OBVIOUS
<1>8. tel \in Telegramm /\ tel.art = "Rueckmeldung" BY EinfachTyp
<1>9. Belegtes(tel, s, buch, neustarts, zeit) BY <1>8 DEF Belegtes
<1>10. \A K : Gekuerzt(d(K), c, K[s][k].rest) /\ Setzt(K2(K), K, s, k, d(K)) BY DEF Gekuerzt, Setzt
<1>11. g \in BOOLEAN /\ e = [datum |-> zeit, von |-> s, gesperrt |-> g]
       /\ y = StichzeitNach(s, zeit, Keiner)
  BY DEF Belegt
<1> HIDE DEF A, t, n, a, c, g, e, y, tel, d, K2
<1>12. CASE Beantworten(s, k, c, Einfach("Fehler")) BY <1>1, <1>4, <1>5, <1>12, FehlerErhaelt
<1>13. CASE Beantworten(s, k, c, tel) BY <1>1, <1>4, <1>5, <1>7, <1>8, <1>9, <1>13, SonstErhaelt
<1>14. CASE /\ NeueSekunde(n)
            /\ aenderungen' = aenderungen \/ (aenderungen > 0 /\ aenderungen' = aenderungen - 1)
            /\ Gesetzter(buch', buch, s, n, e)
            /\ \E K \in Gelistet(s, n, buch'[s]) : Abschluss(K2(K), s, k, tel, y)
            /\ Zeile(letzte', letzte, s, LetzteNach(s, zeit))
            /\ UNCHANGED <<vollErfolg, vollFaellig, zeit, neustarts, fremde>>
  <2>1. PICK K \in Gelistet(s, n, buch'[s]) : Abschluss(K2(K), s, k, tel, y) BY <1>14
  <2> DEFINE Z == [stichzeit EXCEPT ![s] = y]
  <2>2. Zeile(Z, stichzeit, s, y) BY DEF Zeile
  <2> HIDE DEF Z
  <2>3. /\ kanal \in Netze /\ buch \in Buecher /\ RestGut(kanal, buch) /\ UmgebungTyp
        /\ stichzeit \in [Server -> Zeilen] /\ letzte \in [Server -> 0 .. MaxZeit]
    BY <1>3 DEF TlnInv, Gut, Werte
  <2>4. /\ Gespeichert(s, n, e, Keiner, buch, buch', neustarts, zeit)
        /\ e \in Eintrag /\ e.datum = zeit /\ e.datum > 0
    BY <1>6, <1>11, <1>14, NeuHier
  <2>5. /\ buch' \in Buecher /\ buch'[s][n] = e
        /\ \A m \in Nummer : m # n => buch'[s][m] = buch[s][m]
    BY <1>6, <1>14, <2>3, <2>4, BuchGesetzt
  <2>6. Weitergelistet(K, kanal, s, buch') BY <1>6, <2>1, <2>3, <2>4, <2>5, GelistetWirkung
  <2>7. /\ y \in Zeilen /\ Z \in [Server -> Zeilen] /\ letzte' \in [Server -> 0 .. MaxZeit]
        /\ Berichtet(s, n, e, Keiner, stichzeit, Z, letzte, letzte')
    <3>1. y = StichzeitNach(s, e.datum, Keiner) /\ Zeile(letzte', letzte, s, LetzteNach(s, e.datum))
      BY <1>11, <1>14, <2>4
    <3> QED BY <2>2, <2>3, <2>4, <3>1, BerichtetNach
  <2>8. Gut(K, buch', Z, letzte', neustarts, zeit)
    BY <1>3, <1>6, <2>4, <2>6, <2>7, GutGespeichert
  <2>9. NurRest(K[s][k], kanal[s][k]) /\ Post(K[s][k]) = {t} /\ K[s][k] \in Kanal
    <3>1. NurRest(K[s][k], kanal[s][k]) /\ Post(K[s][k]) = Post(kanal[s][k])
      BY <2>3, <2>6, GleichBelegt
    <3>2. K[s][k] \in Kanal BY <2>6 DEF Weitergelistet, Netze
    <3> QED BY <1>3, <3>1, <3>2
  <2>10. Nachher(K[s][k], d(K)) BY <1>5, <1>10, <2>9, NachherGelistet
  <2>11. Antwort(K, s, k, d(K), tel, buch', Z, neustarts, zeit)
    <3>1. d(K).stichdatum = 0 BY <1>4, <2>9, <2>10 DEF Nachher, Gleich, NurRest
    <3>2. Belegtes(tel, s, buch', neustarts, zeit) BY <1>8 DEF Belegtes
    <3>3. tel.art # "Quittung" /\ t.art \notin {"Anmeldung", "Auskunft", "Ende"} BY <1>1, <1>8
    <3> QED BY <2>8, <2>9, <3>1, <3>2, <3>3, AntwortSonst
  <2>12. Gut(kanal', buch', stichzeit', letzte', neustarts, zeit) /\ stoerungen' \in 0 .. MaxStoerungen
    BY <1>1, <1>4, <1>8, <1>10, <2>1, <2>2, <2>7, <2>8, <2>9, <2>10, <2>11, NachSpeichern
  <2>13. Gut(kanal', buch', stichzeit', letzte', neustarts', zeit') BY <1>14, <2>12
  <2>14. aenderungen' \in 0 .. MaxAenderungen BY <1>14, <2>3, Groessen DEF UmgebungTyp
  <2> QED BY <1>14, <2>3, <2>12, <2>13, <2>14 DEF TlnInv, UmgebungTyp
<1> QED BY <1>2, <1>12, <1>13, <1>14

(* A server confirms an entry that it has now, or had already. *)
LEMMA QuittungWahr ==
    ASSUME NEW K, NEW B, NEW Z, NEW L, NEW N, NEW z, Gut(K, B, Z, L, N, z),
           NEW s \in Server, NEW k \in Kanaele, NEW t \in Auskunft, Post(K[s][k]) = {t},
           K[s][k].stichdatum = 0, NEW d, Nachher(K[s][k], d),
           B[s][t.nr].datum >= t.eintrag.datum \/ <<s, t.nr>> \in Lokale,
           NEW tel, tel.art = "Quittung"
    PROVE  Antwort(K, s, k, d, tel, B, Z, N, z)
<1>1. t.art = "Auskunft" /\ t.nr \in Nummer /\ t.eintrag.datum \in Nat
  BY Groessen DEF Auskunft, Eintrag
<1>2. \A u \in Server, m \in Nummer : B[u][m].datum \in Nat
  BY Groessen DEF Gut, Werte, Buecher, Eintrag
<1>3. ASSUME ~Verkuerzt, NEW p \in Server, NEW q \in Kanaele, NEW m \in Nummer,
             Verbunden(K, s, k, p, q), Zustaendig(p, K[p][q], m, B, N)
      PROVE  Uebrig(p, K[p][q], m, B, Z)
  <2>1. /\ DialogGut(p, K[p][q], K[s][k], m, B, Z) /\ K[p][q].ende = "Kanal"
        /\ K[p][q].partner = s
    BY <1>3, DialogVon
  <2>2. Uebrig(p, K[p][q], m, B, Z) \/ (t.nr = m /\ t.eintrag.datum >= B[p][m].datum)
    BY <1>1, <2>1 DEF DialogGut
  <2>3. CASE t.nr = m /\ t.eintrag.datum >= B[p][m].datum
    <3>1. <<s, m>> \notin Lokale BY <1>3, <2>1 DEF Zustaendig, Gemeinsam
    <3>2. B[s][m].datum >= t.eintrag.datum BY <2>3, <3>1
    <3>3. B[s][m].datum >= B[p][m].datum BY <1>1, <1>2, <2>3, <3>2
    <3> QED BY <2>1, <3>3 DEF Uebrig, Gemeldet
  <2> QED BY <2>2, <2>3
<1> QED BY <1>3, AntwortQuittung

(* Reported times that went back, and a newer newest change. *)
LEMMA GutZurueck ==
    ASSUME NEW K, NEW B, NEW Z, NEW L, NEW N, NEW z, Gut(K, B, Z, L, N, z),
           NEW Z2 \in [Server -> Zeilen], Zurueck(Z2, Z),
           NEW L2 \in [Server -> 0 .. MaxZeit], \A u \in Server : L2[u] >= L[u]
    PROVE  Gut(K, B, Z2, L2, N, z)
<1>1. /\ Werte(K, B, Z, L, N, z) /\ NetzGut(K, B, N, z) /\ RestGut(K, B) /\ K \in Netze
      /\ B \in Buecher /\ Z \in [Server -> Zeilen] /\ L \in [Server -> 0 .. MaxZeit]
      /\ Verkuerzt \/ MeldungGut(K, B, Z, L, N)
  BY DEF Gut, Werte
<1>2. ASSUME MeldungGut(K, B, Z, L, N) PROVE MeldungGut(K, B, Z2, L2, N)
  <2>1. ZeitGut(B, L2, N)
    <3>1. \A u \in Server : L[u] \in Int /\ L2[u] \in Int BY <1>1
    <3>2. \A u \in Server, m \in Nummer : B[u][m].datum \in Int BY <1>1 DEF Buecher, Eintrag
    <3> QED BY <1>2, <3>1, <3>2 DEF MeldungGut, ZeitGut
  <2>2. ASSUME NEW s \in Server, NEW n \in Nummer, Zustaendig(s, K[s][0], n, B, N)
        PROVE  DialogGut(s, K[s][0], K[K[s][0].partner][K[s][0].gegen], n, B, Z2)
    <3>1. K[s][0].partner \in Server BY <1>1, <2>2, MeldetServer DEF Zustaendig
    <3>2. DialogGut(s, K[s][0], K[K[s][0].partner][K[s][0].gegen], n, B, Z)
      BY <1>2, <2>2 DEF MeldungGut, SyncGut
    <3> QED BY <1>1, <3>1, <3>2, DialogZurueck
  <2>3. \A s \in Server : SyncGut(s, K, B, Z2, N) BY <2>2 DEF SyncGut
  <2>4. ASSUME NEW s \in Server, NEW t \in Server, NEW n \in Nummer,
               Gemeinsam(s, t, n), N[s] = 0, N[t] = 0
        PROVE  Gemeldet(s, t, n, B, Z2) \/ Laeuft(s, t, n, K, B)
    <3>1. Gemeldet(s, t, n, B, Z) \/ Laeuft(s, t, n, K, B) BY <1>2, <2>4 DEF MeldungGut
    <3>2. Gemeldet(s, t, n, B, Z) => Gemeldet(s, t, n, B, Z2) BY <1>1, GemeldetZurueck
    <3> QED BY <3>1, <3>2
  <2> QED BY <2>1, <2>3, <2>4 DEF MeldungGut
<1>3. Werte(K, B, Z2, L2, N, z) BY <1>1 DEF Werte
<1> QED BY <1>1, <1>2, <1>3 DEF Gut

LEMMA AuskunftEmpfangenErhaelt ==
    ASSUME TlnInv, NEW s \in Server, NEW k \in Kanaele, AuskunftEmpfangen(s, k)
    PROVE  TlnInv'
<1> DEFINE A == {"Auskunft"}
           c == NachLesen(s, k)
           t == Gelesen(s, k)
           n == t.nr
           e == t.eintrag
           v == c.partner
           tel == Einfach("Quittung")
           d(K) == [c EXCEPT !.rest = K[s][k].rest]
           K2(K) == [K EXCEPT ![s][k] = d(K)]
           y(w) == StichzeitNach(s, e.datum, w)
<1>1. Liest(s, k, A) /\ t.art = "Auskunft" BY DEF AuskunftEmpfangen, Liest
<1>2. \/ Beantworten(s, k, c, Einfach("Fehler"))
      \/ /\ Vergleich(s, n, e) = "unveraendert" /\ Beantworten(s, k, c, tel)
      \/ /\ c.freigabe /\ Vergleich(s, n, e) = "gespeichert"
         /\ Gesetzter(buch', buch, s, n, e)
         /\ \E K \in Gelistet(s, n, buch'[s]) : Abschluss(K2(K), s, k, tel, y(v))
         /\ Zeile(letzte', letzte, s, LetzteNach(s, e.datum))
         /\ UNCHANGED <<vollErfolg, umgebung>>
      \/ /\ c.freigabe /\ Vergleich(s, n, e) = "veraltet" /\ Abschluss(K2(kanal), s, k, tel, y(Keiner))
         /\ Zeile(letzte', letzte, s, LetzteNach(s, e.datum))
         /\ UNCHANGED <<buch, vollErfolg, umgebung>>
  BY DEF AuskunftEmpfangen, Gesetzter, Zeile
<1>3. /\ Gut(kanal, buch, stichzeit, letzte, neustarts, zeit)
      /\ kanal[s][k] \in Kanal /\ KanalGut(s, k, kanal[s][k], buch, neustarts, zeit)
      /\ kanal[s][k].offen = TRUE /\ kanal[s][k].ein # << >>
      /\ Nachher(kanal[s][k], c) /\ Post(kanal[s][k]) = {t} /\ t \in Telegramm
      /\ c.freigabe = kanal[s][k].freigabe
  <2> HIDE DEF A, c, t
  <2> QED BY <1>1, Leser DEF c, t
<1>4. kanal[s][k].stichdatum = 0
  <2>1. t.art \notin {"Quittung", "Fehler"} BY <1>1
  <2> QED BY <1>3, <2>1, KeinMelder
<1>5. t \in Auskunft /\ n \in Nummer /\ e \in Eintrag BY <1>1, <1>3, TelegrammArt DEF Auskunft
<1>6. tel \in Telegramm /\ tel.art = "Quittung" BY EinfachTyp
<1>7. \A K : Gekuerzt(d(K), c, K[s][k].rest) /\ Setzt(K2(K), K, s, k, d(K)) BY DEF Gekuerzt, Setzt
<1>8. /\ kanal \in Netze /\ buch \in Buecher /\ RestGut(kanal, buch) /\ UmgebungTyp
      /\ stichzeit \in [Server -> Zeilen] /\ letzte \in [Server -> 0 .. MaxZeit]
      /\ NetzGut(kanal, buch, neustarts, zeit)
  BY <1>3 DEF TlnInv, Gut, Werte
<1>9. buch[s][n].datum \in Nat /\ e.datum \in Nat BY <1>5, <1>8, Groessen DEF Buecher, Eintrag
<1>10. \A w : y(w) = StichzeitNach(s, e.datum, w) OBVIOUS
<1>11. n = t.nr /\ e = t.eintrag /\ v = c.partner OBVIOUS
<1> HIDE DEF A, t, n, c, e, v, tel, d, K2, y
<1>16. ASSUME c.freigabe
       PROVE  /\ v \in Server /\ v # s /\ e.datum > 0 /\ e.datum <= zeit
              /\ Echt(n, e, buch, neustarts)
              /\ buch[v][n].datum >= e.datum \/ neustarts[v] > 0
  <2>1. v = kanal[s][k].partner BY <1>3, <1>11 DEF Nachher
  <2>2. v # Keiner BY <1>3, <1>16, <2>1 DEF KanalGut, FremdGut
  <2>3. v \in Server \cup {Keiner} BY <1>3, <2>1 DEF Kanal
  <2>4. v \in Server /\ v # s /\ Belegtes(t, v, buch, neustarts, zeit)
    BY <1>3, <2>1, <2>2, <2>3 DEF KanalGut, ServerGut
  <2> QED BY <1>1, <1>11, <2>4 DEF Belegtes, Echt
<1>12. CASE Beantworten(s, k, c, Einfach("Fehler")) BY <1>1, <1>3, <1>4, <1>12, FehlerErhaelt
<1>13. CASE Vergleich(s, n, e) = "unveraendert" /\ Beantworten(s, k, c, tel)
  <2>1. buch[s][n].datum >= e.datum BY <1>9, <1>13 DEF Vergleich, Belegt
  <2>2. Abgelesen(kanal, s, k, c) /\ Listbar(buch, s, c) /\ c \in Kanal BY <1>3, NachherAbgelesen
  <2>3. Geliefert(kanal, s, k, c, buch, stichzeit, neustarts) BY <1>4 DEF Geliefert
  <2>4. Antwort(kanal, s, k, c, tel, buch, stichzeit, neustarts, zeit)
    BY <1>3, <1>4, <1>5, <1>6, <1>11, <2>1, QuittungWahr
  <2> QED BY <1>6, <1>13, <2>2, <2>3, <2>4, BeantwortenErhaelt
<1>14. CASE /\ c.freigabe /\ Vergleich(s, n, e) = "gespeichert"
            /\ Gesetzter(buch', buch, s, n, e)
            /\ \E K \in Gelistet(s, n, buch'[s]) : Abschluss(K2(K), s, k, tel, y(v))
            /\ Zeile(letzte', letzte, s, LetzteNach(s, e.datum))
            /\ UNCHANGED <<vollErfolg, umgebung>>
  <2>1. PICK K \in Gelistet(s, n, buch'[s]) : Abschluss(K2(K), s, k, tel, y(v)) BY <1>14
  <2> DEFINE x == y(v)
             Z == [stichzeit EXCEPT ![s] = x]
  <2>2. Zeile(Z, stichzeit, s, x) /\ x = StichzeitNach(s, e.datum, v) /\ Abschluss(K2(K), s, k, tel, x)
    BY <1>10, <2>1 DEF Zeile
  <2> HIDE DEF Z, x
  <2>3. v \in Server /\ v # s BY <1>14, <1>16
  <2>4. /\ e.datum > 0 /\ e.datum <= zeit /\ Echt(n, e, buch, neustarts)
        /\ buch[v][n].datum >= e.datum \/ neustarts[v] > 0
    BY <1>14, <1>16
  <2>5. buch[s][n].datum < e.datum BY <1>9, <1>14, <2>4 DEF Vergleich, Belegt
  <2>6. /\ buch' \in Buecher /\ buch'[s][n] = e
        /\ \A u \in Server, m \in Nummer : u # s \/ m # n => buch'[u][m] = buch[u][m]
        /\ \A u \in Server, m \in Nummer : buch[u][m].datum \in Nat
    BY <1>5, <1>8, <1>14, BuchGesetzt
  <2>7. Gespeichert(s, n, e, v, buch, buch', neustarts, zeit)
    <3>1. \A u \in Server, m \in Nummer : buch'[u][m].datum >= buch[u][m].datum
      BY <2>5, <2>6, <1>9
    <3>2. Waechst(buch, buch', neustarts, neustarts) BY <3>1 DEF Waechst
    <3>3. Echt(n, e, buch', neustarts) BY <1>5, <1>8, <2>4, <2>6, <3>2, EchtWaechst
    <3> QED BY <1>5, <1>14, <2>3, <2>4, <2>5, <3>3 DEF Gespeichert
  <2>8. Weitergelistet(K, kanal, s, buch') BY <1>5, <1>8, <2>1, <2>4, <2>6, GelistetWirkung
  <2>9. /\ x \in Zeilen /\ Z \in [Server -> Zeilen] /\ letzte' \in [Server -> 0 .. MaxZeit]
        /\ Berichtet(s, n, e, v, stichzeit, Z, letzte, letzte')
    BY <1>5, <1>8, <1>14, <2>2, <2>4, BerichtetNach
  <2>10. Gut(K, buch', Z, letzte', neustarts, zeit) BY <1>3, <1>5, <2>7, <2>8, <2>9, GutGespeichert
  <2>11. NurRest(K[s][k], kanal[s][k]) /\ Post(K[s][k]) = {t} /\ K[s][k] \in Kanal
    <3>1. NurRest(K[s][k], kanal[s][k]) /\ Post(K[s][k]) = Post(kanal[s][k])
      BY <1>8, <2>8, GleichBelegt
    <3>2. K[s][k] \in Kanal BY <2>8 DEF Weitergelistet, Netze
    <3> QED BY <1>3, <3>1, <3>2
  <2>12. Nachher(K[s][k], d(K)) BY <1>3, <1>7, <2>11, NachherGelistet
  <2>13. Antwort(K, s, k, d(K), tel, buch', Z, neustarts, zeit)
    <3>1. K[s][k].stichdatum = 0 BY <1>4, <2>11 DEF NurRest
    <3>2. buch'[s][t.nr].datum >= t.eintrag.datum BY <1>9, <1>11, <2>6
    <3> QED BY <1>5, <1>6, <2>10, <2>11, <2>12, <3>1, <3>2, QuittungWahr
  <2>14. Gut(kanal', buch', stichzeit', letzte', neustarts, zeit) /\ stoerungen' \in 0 .. MaxStoerungen
    BY <1>1, <1>4, <1>6, <1>7, <2>2, <2>9, <2>10, <2>11, <2>12, <2>13, NachSpeichern
  <2>15. Gut(kanal', buch', stichzeit', letzte', neustarts', zeit') BY <1>14, <2>14 DEF umgebung
  <2> QED BY <1>8, <1>14, <2>14, <2>15 DEF TlnInv, UmgebungTyp, umgebung
<1>15. CASE /\ c.freigabe /\ Vergleich(s, n, e) = "veraltet" /\ Abschluss(K2(kanal), s, k, tel, y(Keiner))
            /\ Zeile(letzte', letzte, s, LetzteNach(s, e.datum))
            /\ UNCHANGED <<buch, vollErfolg, umgebung>>
  <2> DEFINE x == y(Keiner)
             Z == [stichzeit EXCEPT ![s] = x]
  <2>1. /\ Zeile(Z, stichzeit, s, x) /\ x = StichzeitNach(s, e.datum, Keiner)
        /\ Abschluss(K2(kanal), s, k, tel, x)
    BY <1>10, <1>15 DEF Zeile
  <2> HIDE DEF Z, x
  <2>2. e.datum > 0 BY <1>15, <1>16
  <2>3. buch[s][n].datum >= e.datum \/ <<s, n>> \in Lokale BY <1>9, <1>15 DEF Vergleich, Belegt
  <2>4. /\ x \in Zeilen /\ Z \in [Server -> Zeilen] /\ letzte' \in [Server -> 0 .. MaxZeit]
        /\ Zurueck(Z, stichzeit) /\ \A u \in Server : letzte'[u] >= letzte[u]
    BY <1>5, <1>8, <1>15, <2>1, <2>2, BerichtetNach
  <2>5. Gut(kanal, buch, Z, letzte', neustarts, zeit) BY <1>3, <2>4, GutZurueck
  <2>6. NurRest(kanal[s][k], kanal[s][k]) BY DEF NurRest
  <2>7. Nachher(kanal[s][k], d(kanal)) BY <1>3, <1>7, <2>6, NachherGelistet
  <2>8. Antwort(kanal, s, k, d(kanal), tel, buch, Z, neustarts, zeit)
    BY <1>3, <1>4, <1>5, <1>6, <1>11, <2>3, <2>5, <2>7, QuittungWahr
  <2>9. Gut(kanal', buch, stichzeit', letzte', neustarts, zeit) /\ stoerungen' \in 0 .. MaxStoerungen
    BY <1>1, <1>4, <1>6, <1>7, <2>1, <2>4, <2>5, <2>6, <2>7, <2>8, NachSpeichern
  <2>10. Gut(kanal', buch', stichzeit', letzte', neustarts', zeit') BY <1>15, <2>9 DEF umgebung
  <2> QED BY <1>8, <1>15, <2>9, <2>10 DEF TlnInv, UmgebungTyp, umgebung
<1> QED BY <1>2, <1>12, <1>13, <1>14, <1>15

(***************************************************************************)
(* A restart: the server's channels are free, those at other servers that  *)
(* were connected to it have lost their other end.                         *)
(***************************************************************************)
Abgerissen(d, c) == d = [c EXCEPT !.ende = "zu", !.aus = << >>]

LEMMA AbgerissenGut ==
    ASSUME NEW s, NEW k, NEW B, NEW N, NEW z, NEW c \in Kanal, KanalGut(s, k, c, B, N, z),
           NEW d, Abgerissen(d, c)
    PROVE  /\ d \in Kanal /\ KanalGut(s, k, d, B, N, z) /\ d.ende = "zu" /\ d.partner = c.partner
           /\ d.rest = c.rest
<1>1. /\ d.ende = "zu" /\ d.ein = c.ein
      /\ d.offen = c.offen /\ d.partner = c.partner /\ d.stichdatum = c.stichdatum
      /\ d.rest = c.rest /\ d.freigabe = c.freigabe
      /\ d.gestartet = c.gestartet /\ d.vollabfrage = c.vollabfrage
  BY DEF Abgerissen, Kanal
<1>2. d \in Kanal
  <2>1. << >> \in Seq(Telegramm) OBVIOUS
  <2> QED BY <2>1 DEF Abgerissen, Kanal
<1>3. Post(d) = Post(c) BY <1>1 DEF Post
<1>4. FremdGut(c) => FremdGut(d) BY <1>1, <1>3 DEF FremdGut
<1>5. ServerGut(s, d, B, N, z) BY <1>1, <1>3 DEF KanalGut, ServerGut
<1>6. WartetGut(k, d) BY <1>1 DEF WartetGut
<1>7. MelderGut(k, d) BY <1>1, <1>3 DEF KanalGut, MelderGut
<1>8. KanalGut(s, k, d, B, N, z) BY <1>1, <1>4, <1>5, <1>6, <1>7 DEF KanalGut
<1> QED BY <1>1, <1>2, <1>8

Verbleibt(c, s) == c.partner # s \/ c.ende \notin {"Kanal", "wartend"}

Neugestartet(K2, K, s) ==
    \A t \in Server, k \in Kanaele :
        /\ t = s => K2[t][k] = FreierKanal
        /\ t # s => IF Verbleibt(K[t][k], s) THEN K2[t][k] = K[t][k] ELSE Abgerissen(K2[t][k], K[t][k])

LEMMA NetzNeustart ==
    ASSUME NEW K \in Netze, NEW B, NEW N, NEW z, NetzGut(K, B, N, z), NEW s \in Server,
           NEW K2, K2 = [t \in Server |-> [k \in Kanaele |-> K2[t][k]]], Neugestartet(K2, K, s)
    PROVE  K2 \in Netze /\ NetzGut(K2, B, N, z)
<1>1. ASSUME NEW t \in Server, NEW k \in Kanaele
      PROVE  /\ K2[t][k] \in Kanal /\ KanalGut(t, k, K2[t][k], B, N, z)
             /\ K2[t][k].ende = "Kanal" => t # s /\ Verbleibt(K[t][k], s)
  <2>1. K[t][k] \in Kanal /\ KanalGut(t, k, K[t][k], B, N, z) BY DEF Netze, NetzGut
  <2>2. CASE t = s
    <3>1. K2[t][k] = FreierKanal BY <2>2 DEF Neugestartet
    <3>2. Frei(FreierKanal, FreierKanal) BY DEF Frei, FreierKanal
    <3>3. /\ FreierKanal \in Kanal /\ KanalGut(t, k, FreierKanal, B, N, z)
          /\ FreierKanal.ende = "zu"
      BY <3>2, FreierTyp, FreiFelder
    <3> QED BY <3>1, <3>3
  <2>3. CASE t # s /\ Verbleibt(K[t][k], s)
    <3>1. K2[t][k] = K[t][k] BY <2>3 DEF Neugestartet
    <3> QED BY <2>1, <2>3, <3>1
  <2>4. CASE t # s /\ ~Verbleibt(K[t][k], s)
    <3>1. Abgerissen(K2[t][k], K[t][k]) BY <2>4 DEF Neugestartet
    <3> QED BY <2>1, <3>1, AbgerissenGut
  <2> QED BY <2>2, <2>3, <2>4
<1>2. K2 \in Netze BY <1>1 DEF Netze
<1>3. ASSUME NEW t \in Server, NEW k \in Kanaele, K2[t][k].ende = "Kanal"
      PROVE  /\ K2[t][k].partner # Keiner
             /\ PaarGut(t, k, K2[t][k], K2[K2[t][k].partner][K2[t][k].gegen])
  <2>1. t # s /\ Verbleibt(K[t][k], s) BY <1>1, <1>3
  <2>2. K2[t][k] = K[t][k] /\ K[t][k].ende = "Kanal" BY <1>3, <2>1 DEF Neugestartet
  <2> DEFINE p == K[t][k].partner
             q == K[t][k].gegen
  <2>3. p \in Server /\ q \in Kanaele /\ PaarGut(t, k, K[t][k], K[p][q]) BY <2>2, Gegenueber
  <2>4. p # s BY <2>1, <2>2 DEF Verbleibt
  <2>5. K[p][q].partner # s BY <2>1, <2>3 DEF PaarGut
  <2>6. K2[p][q] = K[p][q] BY <2>3, <2>4, <2>5 DEF Neugestartet, Verbleibt
  <2>7. p # Keiner BY <2>3, Groessen
  <2> QED BY <2>2, <2>3, <2>6, <2>7
<1>4. BuchGut(B, N, z) BY DEF NetzGut
<1> QED BY <1>1, <1>2, <1>3, <1>4 DEF NetzGut

(* Of reports from and to a server that was restarted nothing is said. *)
NurEiner(Z2, Z, s) == \A u \in Server : u # s => Z2[u] = Z[u]

LEMMA MeldNeustart ==
    ASSUME NEW K \in Netze, NEW K2 \in Netze, NEW B \in Buecher, NEW B2 \in Buecher,
           NEW Z \in [Server -> Zeilen], NEW Z2 \in [Server -> Zeilen], NEW L, NEW L2, NEW N, NEW N2, NEW z,
           NetzGut(K, B, N, z), NetzGut(K2, B, N, z), NEW s \in Server, Neugestartet(K2, K, s),
           NurEiner(B2, B, s), NurEiner(Z2, Z, s), NurEiner(L2, L, s), NurEiner(N2, N, s), N2[s] > 0,
           N2[s] # 0, MeldungGut(K, B, Z, L, N)
    PROVE  MeldungGut(K2, B2, Z2, L2, N2)
<1>1. \A u \in Server : N2[u] = 0 => /\ u # s /\ N[u] = 0 /\ B2[u] = B[u] /\ Z2[u] = Z[u]
                                     /\ L2[u] = L[u]
  BY DEF NurEiner
<1>2. ZeitGut(B2, L2, N2) BY <1>1 DEF MeldungGut, ZeitGut
<1>3. 0 \in Kanaele BY Groessen
<1>4. ASSUME NEW u \in Server, NEW n \in Nummer, Zustaendig(u, K2[u][0], n, B2, N2)
      PROVE  DialogGut(u, K2[u][0], K2[K2[u][0].partner][K2[u][0].gegen], n, B2, Z2)
  <2> DEFINE c == K2[u][0]
             p == c.partner
             q == c.gegen
  <2>1. /\ c.offen /\ c.stichdatum > 0 /\ N2[u] = 0 /\ N2[p] = 0 /\ Gemeinsam(u, p, n)
        /\ B2[u][n].datum >= c.stichdatum
    BY <1>4 DEF Zustaendig
  <2>2. p \in Server /\ q \in Kanaele /\ c \in Kanal
    <3>1. p \in Server BY <2>1, MeldetServer
    <3>2. c \in Kanal BY <1>3 DEF Netze
    <3> QED BY <3>1, <3>2 DEF Kanal
  <2>3. u # s /\ p # s /\ N[u] = 0 /\ N[p] = 0 /\ B2[u] = B[u] /\ B2[p] = B[p] /\ Z2[u] = Z[u]
    BY <1>1, <2>1, <2>2
  <2>4. c = K[u][0]
    <3>1. K[u][0] \in Kanal /\ KanalGut(u, 0, K[u][0], B, N, z) BY <1>3 DEF Netze, NetzGut
    <3>2. CASE ~Verbleibt(K[u][0], s)
      <4>1. Abgerissen(c, K[u][0]) BY <1>3, <2>3, <3>2 DEF Neugestartet
      <4>2. c.partner = K[u][0].partner BY <3>1, <4>1, AbgerissenGut
      <4> QED BY <2>3, <3>2, <4>2 DEF Verbleibt
    <3>3. CASE Verbleibt(K[u][0], s) BY <1>3, <2>3, <3>3 DEF Neugestartet
    <3> QED BY <3>2, <3>3
  <2> HIDE DEF c
  <2>5. Zustaendig(u, c, n, B, N) BY <2>1, <2>3 DEF Zustaendig
  <2>6. DialogGut(u, c, K[p][q], n, B, Z) BY <1>3, <2>4, <2>5 DEF MeldungGut, SyncGut
  <2>7. /\ Gemeldet(u, p, n, B, Z) => Gemeldet(u, p, n, B2, Z2)
        /\ Uebrig(u, c, n, B, Z) => Uebrig(u, c, n, B2, Z2)
        /\ B2[u][n].datum = B[u][n].datum
    BY <2>3 DEF Gemeldet, Uebrig
  <2>8. c.ende = "Kanal" => K2[p][q] = K[p][q]
    <3>1. c.ende = "Kanal" => PaarGut(u, 0, c, K[p][q]) BY <1>3, <2>4 DEF NetzGut
    <3>2. c.ende = "Kanal" => K[p][q].partner # s BY <2>3, <3>1 DEF PaarGut
    <3> QED BY <2>2, <2>3, <3>2 DEF Neugestartet, Verbleibt
  <2>9. DialogGut(u, c, K2[p][q], n, B2, Z2) BY <2>6, <2>7, <2>8 DEF DialogGut
  <2> QED BY <2>9 DEF c
<1>5. \A u \in Server : SyncGut(u, K2, B2, Z2, N2) BY <1>4 DEF SyncGut
<1>6. ASSUME NEW u \in Server, NEW t \in Server, NEW n \in Nummer,
             Gemeinsam(u, t, n), N2[u] = 0, N2[t] = 0
      PROVE  Gemeldet(u, t, n, B2, Z2) \/ Laeuft(u, t, n, K2, B2)
  <2>1. /\ u # s /\ t # s /\ N[u] = 0 /\ N[t] = 0 /\ B2[u] = B[u] /\ B2[t] = B[t]
        /\ Z2[u] = Z[u]
    BY <1>1, <1>6
  <2>2. Gemeldet(u, t, n, B, Z) \/ Laeuft(u, t, n, K, B) BY <1>6, <2>1 DEF MeldungGut
  <2>3. Gemeldet(u, t, n, B, Z) => Gemeldet(u, t, n, B2, Z2) BY <2>1 DEF Gemeldet
  <2>4. ASSUME Laeuft(u, t, n, K, B) PROVE Laeuft(u, t, n, K2, B2)
    <3>1. Verbleibt(K[u][0], s) BY <2>1, <2>4 DEF Laeuft, Verbleibt
    <3>2. K2[u][0] = K[u][0] BY <1>3, <2>1, <3>1 DEF Neugestartet
    <3> QED BY <2>1, <2>4, <3>2 DEF Laeuft
  <2> QED BY <2>2, <2>3, <2>4
<1> QED BY <1>2, <1>5, <1>6 DEF MeldungGut

(* What a restart leaves of the directory. *)
Behalten(B2, B, s) ==
    /\ B2 \in Buecher /\ NurEiner(B2, B, s)
    /\ \A n \in Nummer : B2[s][n] \in {B[s][n], KeinEintrag}

LEMMA BuchNeustart ==
    ASSUME NEW B \in Buecher, NEW B2, NEW N \in [Server -> 0 .. MaxNeustarts], NEW N2, NEW z \in Nat,
           BuchGut(B, N, z), NEW s \in Server, Behalten(B2, B, s), NurEiner(N2, N, s), N2[s] > 0
    PROVE  Waechst(B, B2, N, N2) /\ BuchGut(B2, N2, z + 1)
<1>1. \A u \in Server, n \in Nummer : B[u][n].datum \in Nat /\ B2[u][n].datum \in Nat
  BY Groessen DEF Behalten, Buecher, Eintrag
<1>2. Waechst(B, B2, N, N2)
  <2>1. ASSUME NEW p \in Server, NEW n \in Nummer PROVE B2[p][n].datum >= B[p][n].datum \/ N2[p] > 0
    <3>1. p # s => B2[p] = B[p] BY DEF Behalten, NurEiner
    <3>2. p # s => B2[p][n].datum >= B[p][n].datum BY <1>1, <3>1
    <3> QED BY <3>2
  <2>2. \A p \in Server : N[p] > 0 => N2[p] > 0 BY DEF NurEiner
  <2> QED BY <2>1, <2>2 DEF Waechst
<1>3. ASSUME NEW u \in Server, NEW n \in Nummer, B2[u][n].datum > 0
      PROVE  B2[u][n].datum <= z + 1 /\ Echt(n, B2[u][n], B2, N2)
  <2>1. B2[u][n] = B[u][n]
    <3>1. CASE u # s BY <3>1 DEF Behalten, NurEiner
    <3>2. CASE u = s
      <4>1. KeinEintrag.datum = 0 BY DEF KeinEintrag
      <4> QED BY <1>3, <3>2, <4>1 DEF Behalten
    <3> QED BY <3>1, <3>2
  <2>2. B[u][n].datum <= z /\ Echt(n, B[u][n], B, N) BY <1>3, <2>1 DEF BuchGut
  <2>3. B[u][n] \in Eintrag BY DEF Buecher
  <2>4. Echt(n, B[u][n], B2, N2) BY <1>2, <2>2, <2>3, EchtWaechst DEF Behalten
  <2>5. B[u][n].datum <= z + 1 BY <1>1, <2>2
  <2> QED BY <2>1, <2>4, <2>5
<1> QED BY <1>2, <1>3 DEF BuchGut

LEMMA NeusterTyp ==
    ASSUME NEW T, T \subseteq 0 .. MaxZeit, T # {}
    PROVE  (CHOOSE x \in T : \A y \in T : y <= x) \in 0 .. MaxZeit
<1>1. \E x \in T : \A y \in T : y <= x BY Groessen, Groesste
<1> QED BY <1>1

LEMMA NeustartErhaelt ==
    ASSUME TlnInv, NEW s \in Server, Neustart(s)
    PROVE  TlnInv'
<1> DEFINE D == {m \in Nummer : <<s, m>> \notin Lokale}
           neu == {0} \cup {buch'[s][n].datum : n \in D}
           d == CHOOSE x \in neu : \A y \in neu : y <= x
           K2 == [t \in Server |-> [k \in Kanaele |->
                    IF t = s THEN FreierKanal
                    ELSE IF kanal[t][k].partner = s /\ kanal[t][k].ende \in {"Kanal", "wartend"}
                         THEN [kanal[t][k] EXCEPT !.ende = "zu", !.aus = << >>]
                    ELSE kanal[t][k]]]
           r == [t \in Server |-> d + 1]
<1>1. /\ neustarts[s] < MaxNeustarts /\ zeit < MaxZeit
      /\ stoerungen > 0 /\ stoerungen' = stoerungen - 1
      /\ neustarts' = [neustarts EXCEPT ![s] = @ + 1] /\ zeit' = zeit + 1
      /\ UNCHANGED <<aenderungen, fremde>>
  BY DEF Neustart
<1>2. PICK B \in SUBSET Nummer :
         buch' = [buch EXCEPT ![s] = [n \in Nummer |-> IF n \in B THEN @[n] ELSE KeinEintrag]]
  BY DEF Neustart
<1>3. letzte' = [letzte EXCEPT ![s] = d] /\ stichzeit' = [stichzeit EXCEPT ![s] = r]
  BY DEF Neustart
<1>4. kanal' = K2 BY DEF Neustart
<1>5. vollErfolg' = [vollErfolg EXCEPT ![s] = FALSE] /\ vollFaellig' = [vollFaellig EXCEPT ![s] = TRUE]
  BY DEF Neustart
<1>6. Neugestartet(K2, kanal, s) /\ K2 = [t \in Server |-> [k \in Kanaele |-> K2[t][k]]]
  <2>1. Neugestartet(K2, kanal, s) BY DEF Neugestartet, Verbleibt, Abgerissen
  <2>2. K2 = [t \in Server |-> [k \in Kanaele |-> K2[t][k]]] OBVIOUS
  <2> QED BY <2>1, <2>2
<1> HIDE DEF K2
<1>7. /\ Werte(kanal, buch, stichzeit, letzte, neustarts, zeit)
      /\ NetzGut(kanal, buch, neustarts, zeit) /\ RestGut(kanal, buch)
      /\ Verkuerzt \/ MeldungGut(kanal, buch, stichzeit, letzte, neustarts)
      /\ kanal \in Netze /\ buch \in Buecher /\ stichzeit \in [Server -> Zeilen]
      /\ letzte \in [Server -> 0 .. MaxZeit] /\ neustarts \in [Server -> 0 .. MaxNeustarts]
      /\ zeit \in 1 .. MaxZeit /\ UmgebungTyp /\ BuchGut(buch, neustarts, zeit)
  BY DEF TlnInv, Gut, Werte, NetzGut
<1>8. Behalten(buch', buch, s)
  <2>1. KeinEintrag \in Eintrag
    <3>1. 0 \in 0 .. MaxZeit BY Groessen
    <3> QED BY <3>1 DEF KeinEintrag, Eintrag
  <2>2. buch' \in Buecher /\ NurEiner(buch', buch, s) BY <1>2, <1>7, <2>1 DEF Buecher, NurEiner
  <2>3. ASSUME NEW n \in Nummer PROVE buch'[s][n] \in {buch[s][n], KeinEintrag}
    BY <1>2, <1>7 DEF Buecher
  <2> QED BY <2>2, <2>3 DEF Behalten
<1>9. neu \subseteq 0 .. MaxZeit /\ neu # {}
  <2>1. 0 \in 0 .. MaxZeit BY Groessen
  <2>2. \A n \in D : buch'[s][n].datum \in 0 .. MaxZeit BY <1>8 DEF Behalten, Buecher, Eintrag
  <2> QED BY <2>1, <2>2
<1> HIDE DEF neu, D
<1>10. d \in 0 .. MaxZeit BY <1>9, NeusterTyp
<1> HIDE DEF d
<1>11. /\ letzte' \in [Server -> 0 .. MaxZeit] /\ NurEiner(letzte', letzte, s)
       /\ stichzeit' \in [Server -> Zeilen] /\ NurEiner(stichzeit', stichzeit, s)
  <2>1. d + 1 \in 1 .. MaxZeit + 1 BY <1>10, Groessen
  <2>2. r \in Zeilen BY <2>1 DEF Zeilen
  <2> HIDE DEF r
  <2> QED BY <1>3, <1>7, <1>10, <2>2 DEF NurEiner
<1>12. /\ neustarts' \in [Server -> 0 .. MaxNeustarts] /\ NurEiner(neustarts', neustarts, s)
       /\ neustarts'[s] > 0 /\ neustarts'[s] # 0
  <2>1. neustarts[s] \in 0 .. MaxNeustarts BY <1>7
  <2>2. neustarts[s] + 1 \in 0 .. MaxNeustarts /\ neustarts[s] + 1 > 0 BY <1>1, <2>1, Groessen
  <2>3. neustarts'[s] = neustarts[s] + 1 BY <1>1, <1>7
  <2>4. neustarts' \in [Server -> 0 .. MaxNeustarts] /\ NurEiner(neustarts', neustarts, s)
    BY <1>1, <1>7, <2>2 DEF NurEiner
  <2> QED BY <2>2, <2>3, <2>4
<1>13. zeit' \in 1 .. MaxZeit /\ zeit \in Nat /\ zeit' \in Int /\ zeit <= zeit' BY <1>1, <1>7, Groessen
<1>14. K2 \in Netze /\ NetzGut(K2, buch, neustarts, zeit) BY <1>6, <1>7, NetzNeustart
<1>15. Waechst(buch, buch', neustarts, neustarts') /\ BuchGut(buch', neustarts', zeit')
  BY <1>1, <1>7, <1>8, <1>12, <1>13, BuchNeustart
<1>16. NetzGut(K2, buch', neustarts', zeit')
  BY <1>7, <1>8, <1>13, <1>14, <1>15, NetzWaechst DEF Behalten
<1>17. RestGut(K2, buch')
  <2>1. ASSUME NEW t \in Server, NEW k \in Kanaele, NEW n \in K2[t][k].rest
        PROVE  buch'[t][n].datum > 0
    <3>1. t # s
      <4>1. FreierKanal.rest = {} BY DEF FreierKanal
      <4> QED BY <1>6, <2>1, <4>1 DEF Neugestartet
    <3>2. K2[t][k].rest = kanal[t][k].rest
      <4>1. CASE Verbleibt(kanal[t][k], s) BY <1>6, <3>1, <4>1 DEF Neugestartet
      <4>2. CASE ~Verbleibt(kanal[t][k], s)
        <5>1. Abgerissen(K2[t][k], kanal[t][k]) BY <1>6, <3>1, <4>2 DEF Neugestartet
        <5>2. kanal[t][k] \in Kanal /\ KanalGut(t, k, kanal[t][k], buch, neustarts, zeit)
          BY <1>7 DEF Netze, NetzGut
        <5> QED BY <5>1, <5>2, AbgerissenGut
      <4> QED BY <4>1, <4>2
    <3>3. buch'[t] = buch[t] BY <1>8, <3>1 DEF Behalten, NurEiner
    <3> QED BY <1>7, <2>1, <3>2, <3>3 DEF RestGut
  <2> QED BY <2>1 DEF RestGut
<1>18. ASSUME MeldungGut(kanal, buch, stichzeit, letzte, neustarts)
       PROVE  MeldungGut(K2, buch', stichzeit', letzte', neustarts')
  BY <1>6, <1>7, <1>8, <1>11, <1>12, <1>14, <1>18, MeldNeustart DEF Behalten
<1>19. Werte(K2, buch', stichzeit', letzte', neustarts', zeit')
  BY <1>8, <1>11, <1>12, <1>13, <1>14 DEF Werte, Behalten
<1>20. Gut(kanal', buch', stichzeit', letzte', neustarts', zeit')
  BY <1>4, <1>7, <1>16, <1>17, <1>18, <1>19 DEF Gut
<1>21. stoerungen' \in 0 .. MaxStoerungen /\ {vollErfolg', vollFaellig'} \subseteq [Server -> BOOLEAN]
  BY <1>1, <1>5, <1>7, Groessen DEF UmgebungTyp
<1> QED BY <1>1, <1>7, <1>20, <1>21 DEF TlnInv, UmgebungTyp

(***************************************************************************)
(* The start, and every step.                                              *)
(***************************************************************************)
LEMMA InitInv ==
    ASSUME TlnInit
    PROVE  TlnInv
<1>1. /\ zeit \in 1 .. MaxZeit /\ zeit \in Nat /\ 1 <= zeit /\ 1 \in 0 .. MaxZeit
      /\ 0 \in 0 .. MaxZeit /\ 1 \in 1 .. MaxZeit + 1 /\ 0 \in 0 .. MaxNeustarts
  <2>1. zeit \in 1 .. MaxZeit BY DEF TlnInit
  <2>2. MaxZeit \in Nat /\ MaxNeustarts \in Nat BY Groessen
  <2> QED BY <2>1, <2>2
<1>2. ASSUME NEW s \in Server, NEW n \in Nummer
      PROVE  /\ buch[s][n] \in Eintrag
             /\ <<s, n>> \in Lokale => buch[s][n].datum = 1 /\ buch[s][n].von = s
             /\ <<s, n>> \notin Lokale => buch[s][n].datum = 0
  <2> DEFINE e == [KeinEintrag EXCEPT !.datum = 1, !.von = s]
  <2>1. buch[s][n] = IF <<s, n>> \in Lokale THEN e ELSE KeinEintrag BY DEF TlnInit
  <2>2. e \in Eintrag /\ e.datum = 1 /\ e.von = s BY <1>1 DEF KeinEintrag, Eintrag
  <2>3. KeinEintrag \in Eintrag /\ KeinEintrag.datum = 0 BY <1>1 DEF KeinEintrag, Eintrag
  <2> HIDE DEF e
  <2> QED BY <2>1, <2>2, <2>3
<1>3. \A s \in Server, k \in Kanaele : kanal[s][k] = FreierKanal BY DEF TlnInit
<1>4. FreierKanal.ende = "zu" /\ FreierKanal.offen = FALSE /\ FreierKanal.rest = {} BY DEF FreierKanal
<1>5. Werte(kanal, buch, stichzeit, letzte, neustarts, zeit)
  <2>1. kanal \in Netze BY FreierTyp DEF TlnInit, Netze
  <2>2. buch \in Buecher
    <3>1. buch = [s \in Server |-> [n \in Nummer |-> buch[s][n]]] BY DEF TlnInit
    <3> QED BY <1>2, <3>1 DEF Buecher
  <2>3. stichzeit \in [Server -> Zeilen] BY <1>1 DEF TlnInit, Zeilen
  <2>4. letzte \in [Server -> 0 .. MaxZeit] /\ neustarts \in [Server -> 0 .. MaxNeustarts]
    BY <1>1 DEF TlnInit
  <2> QED BY <1>1, <2>1, <2>2, <2>3, <2>4 DEF Werte
<1>6. NetzGut(kanal, buch, neustarts, zeit)
  <2>1. ASSUME NEW s \in Server, NEW k \in Kanaele PROVE KanalGut(s, k, kanal[s][k], buch, neustarts, zeit)
    <3>1. Frei(FreierKanal, FreierKanal) BY DEF Frei, FreierKanal
    <3>2. KanalGut(s, k, FreierKanal, buch, neustarts, zeit) BY <3>1, FreierTyp, FreiFelder
    <3> QED BY <1>3, <3>2
  <2>2. ASSUME NEW s \in Server, NEW n \in Nummer, buch[s][n].datum > 0
        PROVE  buch[s][n].datum <= zeit /\ Echt(n, buch[s][n], buch, neustarts)
    <3>1. buch[s][n].datum = 1 /\ buch[s][n].von = s
      <4>1. <<s, n>> \in Lokale
        <5>1. <<s, n>> \notin Lokale => buch[s][n].datum = 0 BY <1>2
        <5> QED BY <2>2, <5>1
      <4> QED BY <1>2, <4>1
    <3> QED BY <1>1, <3>1 DEF Echt
  <2> QED BY <1>3, <1>4, <2>1, <2>2 DEF NetzGut, BuchGut
<1>7. RestGut(kanal, buch) BY <1>3, <1>4 DEF RestGut
<1>8. MeldungGut(kanal, buch, stichzeit, letzte, neustarts)
  <2>1. ZeitGut(buch, letzte, neustarts)
    <3>1. \A s \in Server : letzte[s] = 0 BY DEF TlnInit
    <3> QED BY <1>2, <3>1 DEF ZeitGut
  <2>2. \A s \in Server : SyncGut(s, kanal, buch, stichzeit, neustarts)
    <3>1. \A s \in Server : kanal[s][0].offen = FALSE BY <1>3, <1>4, Groessen
    <3> QED BY <3>1 DEF SyncGut, Zustaendig
  <2>3. ASSUME NEW s \in Server, NEW t \in Server, NEW n \in Nummer, Gemeinsam(s, t, n)
        PROVE  Gemeldet(s, t, n, buch, stichzeit)
    BY <1>2, <2>3 DEF Gemeinsam, Gemeldet
  <2> QED BY <2>1, <2>2, <2>3 DEF MeldungGut
<1>9. UmgebungTyp BY DEF TlnInit, UmgebungTyp
<1> QED BY <1>5, <1>6, <1>7, <1>8, <1>9 DEF TlnInv, Gut

LEMMA SocketErhaelt ==
    ASSUME TlnInv, NEW s \in Server, NEW k \in Kanaele, SocketBearbeiten(s, k)
    PROVE  TlnInv'
<1>1. CASE AuskunftEmpfangen(s, k) BY <1>1, AuskunftEmpfangenErhaelt
<1>2. CASE ListeVerlangt(s, k) BY <1>2, ListeVerlangtErhaelt
<1>3. CASE AnmeldungEmpfangen(s, k) BY <1>3, AnmeldungEmpfangenErhaelt
<1>4. CASE QuittungEmpfangen(s, k) BY <1>4, QuittungEmpfangenErhaelt
<1>5. CASE EndeEmpfangen(s, k) BY <1>5, EndeEmpfangenErhaelt
<1>6. CASE FehlerEmpfangen(s, k) BY <1>6, FehlerEmpfangenErhaelt
<1>7. CASE AbfrageEmpfangen(s, k) BY <1>7, AbfrageEmpfangenErhaelt
<1>8. CASE SelbstaktEmpfangen(s, k) BY <1>8, SelbstaktEmpfangenErhaelt
<1>9. CASE Unerwartet(s, k) BY <1>9, UnerwartetErhaelt
<1> QED BY <1>1, <1>2, <1>3, <1>4, <1>5, <1>6, <1>7, <1>8, <1>9 DEF SocketBearbeiten

LEMMA NextInv ==
    ASSUME TlnInv, [TlnNext]_tlnVars
    PROVE  TlnInv'
<1>1. ASSUME NEW s \in Server, NEW k \in Kanaele,
             \/ SocketBearbeiten(s, k) \/ GegenseiteZu(s, k) \/ SelbstAbbau(s, k)
             \/ VerbindungBricht(s, k) \/ Zeitueberschreitung(s, k) \/ FremdSendet(s, k)
      PROVE  TlnInv'
  BY <1>1, SocketErhaelt, GegenseiteZuErhaelt, SelbstAbbauErhaelt, VerbindungBrichtErhaelt,
     ZeitueberschreitungErhaelt, FremdSendetErhaelt
<1>2. ASSUME NEW s \in Server, NEW t \in Server,
             \/ Annehmen(s, t)
             \/ AktivSyncMeldungKanalOeffnen(s, t) \/ VollAbfrageKanalOeffnen(s, t)
      PROVE  TlnInv'
  BY <1>2, AnnehmenErhaelt, AktivSyncMeldungKanalOeffnenErhaelt, VollAbfrageKanalOeffnenErhaelt
<1>3. ASSUME NEW s \in Server, NEW n \in Nummer, NEW g \in {FALSE, fremde > 0}, EintragAendern(s, n, g)
      PROVE  TlnInv'
  <2>1. g \in BOOLEAN
    <3> DEFINE b == fremde > 0
    <3>1. b \in BOOLEAN BY DEF b
    <3>2. g \in {FALSE, b} OBVIOUS
    <3> HIDE DEF b
    <3> QED BY <3>1, <3>2
  <2> QED BY <1>3, <2>1, EintragAendernErhaelt
<1>4. ASSUME NEW s \in Server, FremdRuft(s) \/ Neustart(s) \/ VollAbfrageWirdFaellig(s)
      PROVE  TlnInv'
  BY <1>4, FremdRuftErhaelt, NeustartErhaelt, VollAbfrageWirdFaelligErhaelt
<1>5. CASE Sekunde BY <1>5, SekundeErhaelt
<1>6. CASE UNCHANGED tlnVars
  <2>1. UNCHANGED <<buch, stichzeit, letzte, vollErfolg, vollFaellig, kanal, zeit,
                    aenderungen, stoerungen, neustarts, fremde>>
    BY <1>6 DEF tlnVars
  <2>2. Gut(kanal', buch', stichzeit', letzte', neustarts', zeit') BY <2>1 DEF TlnInv
  <2> QED BY <2>1, <2>2 DEF TlnInv, UmgebungTyp
<1> QED BY <1>1, <1>2, <1>3, <1>4, <1>5, <1>6 DEF TlnNext

LEMMA InvGilt == TlnSpec => []TlnInv
<1>1. TlnInit => TlnInv BY InitInv
<1>2. TlnInv /\ [TlnNext]_tlnVars => TlnInv' BY NextInv
<1> QED BY <1>1, <1>2, PTL DEF TlnSpec

(* The variables keep their types. *)
THEOREM TlnTypKorrekt == TlnSpec => []TlnTyp
BY InvGilt, InvIstTyp, PTL

(***************************************************************************)
(* No change is forgotten.                                                 *)
(***************************************************************************)
LEMMA InvVergisstNichts ==
    ASSUME ~Verkuerzt, TlnInv
    PROVE  NichtsVergessen
<1>1. /\ MeldungGut(kanal, buch, stichzeit, letzte, neustarts) /\ NetzGut(kanal, buch, neustarts, zeit)
      /\ kanal \in Netze /\ buch \in Buecher /\ stichzeit \in [Server -> Zeilen]
      /\ letzte \in [Server -> 0 .. MaxZeit]
  BY DEF TlnInv, Gut, Werte
<1>2. ASSUME NEW s \in Server, NEW t \in Server, NEW n \in Nummer,
             Gemeinsam(s, t, n), neustarts[s] = 0, neustarts[t] = 0, Neuer(buch[s][n], buch[t][n])
      PROVE  \/ stichzeit[s][t] <= buch[s][n].datum /\ AktivSyncFaellig(s, t)
             \/ Unterwegs(s, t, n)
  <2>1. /\ buch[s][n].datum \in Int /\ buch[t][n].datum \in Int
        /\ stichzeit[s][t] \in Int /\ letzte[s] \in Int
    BY <1>1 DEF Buecher, Eintrag, Zeilen
  <2>2. Gemeldet(s, t, n, buch, stichzeit) \/ Laeuft(s, t, n, kanal, buch) BY <1>1, <1>2 DEF MeldungGut
  <2>3. CASE Gemeldet(s, t, n, buch, stichzeit)
    <3>1. stichzeit[s][t] <= buch[s][n].datum BY <1>2, <2>1, <2>3 DEF Gemeldet, Neuer
    <3>2. letzte[s] >= buch[s][n].datum BY <1>1, <1>2 DEF MeldungGut, ZeitGut, Gemeinsam
    <3>3. stichzeit[s][t] <= letzte[s] BY <2>1, <3>1, <3>2
    <3> QED BY <1>2, <3>1, <3>3 DEF AktivSyncFaellig, Gemeinsam
  <2>4. CASE Laeuft(s, t, n, kanal, buch)
    <3>1. kanal[s][0].gestartet BY <1>1, <2>4, MeldetServer DEF Laeuft
    <3> QED BY <2>4, <3>1 DEF Laeuft, Unterwegs
  <2> QED BY <2>2, <2>3, <2>4
<1> QED BY <1>2 DEF NichtsVergessen

(* While the entry of a server that was never restarted is newer than that *)
(* of another, it is still to be reported, or a synchronisation is on its  *)
(* way with it: stichzeit and the reset after errors lose nothing.  It is  *)
(* not so where a listing may lose its last entry.                         *)
THEOREM NichtsVergessenGilt == ASSUME ~Verkuerzt PROVE TlnSpec => []NichtsVergessen
<1>1. TlnInv => NichtsVergessen BY InvVergisstNichts
<1> QED BY <1>1, InvGilt, PTL

(***************************************************************************)
(* Entries are only ever replaced by newer ones.                           *)
(***************************************************************************)
Erneuert(s, n) ==
    buch'[s][n] # buch[s][n] =>
        \/ neustarts'[s] # neustarts[s]
        \/ /\ Neuer(buch'[s][n], buch[s][n])
           /\ \/ buch'[s][n].datum = zeit /\ buch'[s][n].von = s
              \/ \E t \in Server \ {s} : ~Neuer(buch'[s][n], buch[t][n])
              \/ \E t \in Server : buch'[s][n].von = t /\ neustarts[t] > 0

AlleErneuert == \A s \in Server, n \in Nummer : Erneuert(s, n)

LEMMA Unveraendert ==
    ASSUME UNCHANGED buch
    PROVE  AlleErneuert
BY DEF AlleErneuert, Erneuert

(* A new entry made here and now, or made somewhere else and true. *)
LEMMA ErneuertGesetzt ==
    ASSUME TlnInv, NEW p \in Server, NEW m \in Nummer, NEW e \in Eintrag, Gesetzter(buch', buch, p, m, e),
           buch[p][m].datum < e.datum,
           (e.datum = zeit /\ e.von = p) \/ Echt(m, e, buch, neustarts)
    PROVE  AlleErneuert
<1>1. buch \in Buecher BY DEF TlnInv, Gut, Werte
<1>2. /\ buch'[p][m] = e /\ \A u \in Server, n \in Nummer : u # p \/ n # m => buch'[u][n] = buch[u][n]
      /\ \A u \in Server, n \in Nummer : buch[u][n].datum \in Nat
  BY <1>1, BuchGesetzt
<1>3. e.datum \in Nat BY Groessen DEF Eintrag
<1>4. ASSUME NEW u \in Server, NEW n \in Nummer, u # p \/ n # m PROVE Erneuert(u, n)
  BY <1>2, <1>4 DEF Erneuert
<1>5. Erneuert(p, m)
  <2>1. Neuer(e, buch[p][m]) BY <1>2, <1>3 DEF Neuer
  <2>2. CASE e.datum = zeit /\ e.von = p BY <1>2, <2>1, <2>2 DEF Erneuert
  <2>3. CASE Echt(m, e, buch, neustarts)
    <3>1. e.von \in Server /\ (buch[e.von][m].datum >= e.datum \/ neustarts[e.von] > 0)
      BY <2>3 DEF Echt
    <3>2. CASE neustarts[e.von] > 0 BY <1>2, <2>1, <3>1, <3>2 DEF Erneuert
    <3>3. CASE buch[e.von][m].datum >= e.datum
      <4>1. e.von # p BY <1>2, <1>3, <3>3
      <4>2. ~Neuer(e, buch[e.von][m]) BY <1>2, <1>3, <3>1, <3>3 DEF Neuer
      <4> QED BY <1>2, <2>1, <3>1, <4>1, <4>2 DEF Erneuert
    <3> QED BY <3>1, <3>2, <3>3
  <2> QED BY <2>2, <2>3
<1>6. ASSUME NEW u \in Server, NEW n \in Nummer PROVE Erneuert(u, n)
  BY <1>4, <1>5
<1> QED BY <1>6 DEF AlleErneuert

LEMMA AuskunftErneuert ==
    ASSUME TlnInv, NEW s \in Server, NEW k \in Kanaele, AuskunftEmpfangen(s, k)
    PROVE  AlleErneuert
<1> DEFINE A == {"Auskunft"}
           c == NachLesen(s, k)
           t == Gelesen(s, k)
           n == t.nr
           e == t.eintrag
<1>1. Liest(s, k, A) /\ t.art = "Auskunft" BY DEF AuskunftEmpfangen, Liest
<1>2. \/ UNCHANGED buch
      \/ c.freigabe /\ Vergleich(s, n, e) = "gespeichert" /\ Gesetzter(buch', buch, s, n, e)
  BY DEF AuskunftEmpfangen, Gesetzter, Beantworten
<1>3. /\ kanal[s][k] \in Kanal /\ KanalGut(s, k, kanal[s][k], buch, neustarts, zeit)
      /\ kanal[s][k].offen = TRUE /\ Post(kanal[s][k]) = {t} /\ t \in Telegramm
      /\ c.freigabe = kanal[s][k].freigabe
  <2> HIDE DEF A, c, t
  <2> QED BY <1>1, Leser DEF c, t
<1>4. t \in Auskunft /\ n \in Nummer /\ e \in Eintrag BY <1>1, <1>3, TelegrammArt DEF Auskunft
<1>5. buch[s][n].datum \in Nat /\ e.datum \in Nat
  BY <1>4, Groessen DEF TlnInv, Gut, Werte, Buecher, Eintrag
<1>6. n = t.nr /\ e = t.eintrag OBVIOUS
<1> HIDE DEF A, t, n, c, e
<1>7. CASE c.freigabe /\ Vergleich(s, n, e) = "gespeichert" /\ Gesetzter(buch', buch, s, n, e)
  <2>1. kanal[s][k].partner # Keiner BY <1>3, <1>7 DEF KanalGut, FremdGut
  <2>2. Belegtes(t, kanal[s][k].partner, buch, neustarts, zeit) BY <1>3, <2>1 DEF KanalGut, ServerGut
  <2>3. Echt(n, e, buch, neustarts) /\ e.datum > 0 BY <1>1, <1>6, <2>2 DEF Belegtes, Echt
  <2>4. buch[s][n].datum < e.datum BY <1>5, <1>7, <2>3 DEF Vergleich, Belegt
  <2> QED BY <1>4, <1>7, <2>3, <2>4, ErneuertGesetzt
<1> QED BY <1>2, <1>7, Unveraendert

LEMMA SelbstaktErneuert ==
    ASSUME TlnInv, NEW s \in Server, NEW k \in Kanaele, SelbstaktEmpfangen(s, k)
    PROVE  AlleErneuert
<1> DEFINE A == {"Selbstakt"}
           t == Gelesen(s, k)
           n == t.nr
           g == ~Belegt(s, n)
           e == [datum |-> zeit, von |-> s, gesperrt |-> g]
<1>1. Liest(s, k, A) /\ t.art = "Selbstakt" BY DEF SelbstaktEmpfangen, Liest
<1>2. UNCHANGED buch \/ (NeueSekunde(n) /\ Gesetzter(buch', buch, s, n, e))
  BY DEF SelbstaktEmpfangen, Gesetzter, Beantworten
<1>3. t \in Telegramm
  <2> HIDE DEF A, t
  <2> QED BY <1>1, Leser DEF t
<1>4. n \in Nummer BY <1>1, <1>3, TelegrammArt DEF Selbstakt
<1>5. g \in BOOLEAN /\ e = [datum |-> zeit, von |-> s, gesperrt |-> g] BY DEF Belegt
<1> HIDE DEF A, t, n, g, e
<1>6. CASE NeueSekunde(n) /\ Gesetzter(buch', buch, s, n, e)
  <2>1. /\ Gespeichert(s, n, e, Keiner, buch, buch', neustarts, zeit)
        /\ e \in Eintrag /\ e.datum = zeit
    BY <1>4, <1>5, <1>6, NeuHier
  <2>2. buch[s][n].datum < e.datum BY <2>1 DEF Gespeichert
  <2>3. e.von = s BY <1>5
  <2> QED BY <1>4, <1>6, <2>1, <2>2, <2>3, ErneuertGesetzt
<1> QED BY <1>2, <1>6, Unveraendert

LEMMA EintragErneuert ==
    ASSUME TlnInv, NEW s \in Server, NEW n \in Nummer, NEW g \in BOOLEAN, EintragAendern(s, n, g)
    PROVE  AlleErneuert
<1> DEFINE e == [datum |-> zeit, von |-> s, gesperrt |-> g]
<1>1. NeueSekunde(n) /\ Gesetzter(buch', buch, s, n, e)
  BY DEF EintragAendern, EigeneAenderung, Gesetzter
<1>2. e = [datum |-> zeit, von |-> s, gesperrt |-> g] OBVIOUS
<1> HIDE DEF e
<1>3. /\ Gespeichert(s, n, e, Keiner, buch, buch', neustarts, zeit)
      /\ e \in Eintrag /\ e.datum = zeit
  BY <1>1, <1>2, NeuHier
<1>4. buch[s][n].datum < e.datum BY <1>3 DEF Gespeichert
<1>5. e.von = s BY <1>2
<1> QED BY <1>1, <1>3, <1>4, <1>5, ErneuertGesetzt

LEMMA NeustartErneuert ==
    ASSUME TlnInv, NEW s \in Server, Neustart(s)
    PROVE  AlleErneuert
<1>1. /\ buch \in Buecher /\ neustarts \in [Server -> 0 .. MaxNeustarts]
  BY DEF TlnInv, Gut, Werte
<1>2. neustarts'[s] # neustarts[s]
  <2>1. neustarts[s] \in Int BY <1>1
  <2>2. neustarts'[s] = neustarts[s] + 1 BY <1>1 DEF Neustart
  <2> QED BY <2>1, <2>2
<1>3. \A u \in Server : u # s => buch'[u] = buch[u] BY <1>1 DEF Neustart, Buecher
<1>4. ASSUME NEW u \in Server, NEW n \in Nummer PROVE Erneuert(u, n)
  BY <1>2, <1>3 DEF Erneuert
<1> QED BY <1>4 DEF AlleErneuert

LEMMA NextErneuert ==
    ASSUME TlnInv, [TlnNext]_tlnVars
    PROVE  AlleErneuert
<1>1. ASSUME NEW s \in Server, NEW k \in Kanaele, SocketBearbeiten(s, k) PROVE AlleErneuert
  <2>1. CASE AuskunftEmpfangen(s, k) BY <2>1, AuskunftErneuert
  <2>2. CASE SelbstaktEmpfangen(s, k) BY <2>2, SelbstaktErneuert
  <2>3. CASE \/ ListeVerlangt(s, k) \/ QuittungEmpfangen(s, k)
    <3>1. UNCHANGED buch
      BY <2>3 DEF ListeVerlangt, QuittungEmpfangen, DatensatzSenden, Beantworten
    <3> QED BY <3>1, Unveraendert
  <2>4. CASE \/ AnmeldungEmpfangen(s, k) \/ AbfrageEmpfangen(s, k) \/ Unerwartet(s, k)
             \/ EndeEmpfangen(s, k) \/ FehlerEmpfangen(s, k)
    <3>1. UNCHANGED buch
      BY <2>4 DEF AnmeldungEmpfangen, AbfrageEmpfangen, Unerwartet, EndeEmpfangen, FehlerEmpfangen,
                  Beantworten
    <3> QED BY <3>1, Unveraendert
  <2> QED BY <1>1, <2>1, <2>2, <2>3, <2>4 DEF SocketBearbeiten
<1>2. ASSUME NEW s \in Server, NEW k \in Kanaele,
             \/ GegenseiteZu(s, k) \/ SelbstAbbau(s, k)
             \/ VerbindungBricht(s, k) \/ Zeitueberschreitung(s, k) \/ FremdSendet(s, k)
      PROVE  AlleErneuert
  <2>1. UNCHANGED buch
    BY <1>2 DEF GegenseiteZu, SelbstAbbau, VerbindungBricht, Zeitueberschreitung, FremdSendet
  <2> QED BY <2>1, Unveraendert
<1>3. ASSUME NEW s \in Server, NEW t \in Server,
             \/ Annehmen(s, t)
             \/ AktivSyncMeldungKanalOeffnen(s, t) \/ VollAbfrageKanalOeffnen(s, t)
      PROVE  AlleErneuert
  <2>1. UNCHANGED buch
    BY <1>3 DEF Annehmen, AktivSyncMeldungKanalOeffnen, VollAbfrageKanalOeffnen
  <2> QED BY <2>1, Unveraendert
<1>4. ASSUME NEW s \in Server, NEW n \in Nummer, NEW g \in {FALSE, fremde > 0}, EintragAendern(s, n, g)
      PROVE  AlleErneuert
  <2>1. g \in BOOLEAN
    <3> DEFINE b == fremde > 0
    <3>1. b \in BOOLEAN BY DEF b
    <3>2. g \in {FALSE, b} OBVIOUS
    <3> HIDE DEF b
    <3> QED BY <3>1, <3>2
  <2> QED BY <1>4, <2>1, EintragErneuert
<1>5. ASSUME NEW s \in Server, FremdRuft(s) \/ VollAbfrageWirdFaellig(s) PROVE AlleErneuert
  <2>1. UNCHANGED buch BY <1>5 DEF FremdRuft, VollAbfrageWirdFaellig
  <2> QED BY <2>1, Unveraendert
<1>6. CASE Sekunde
  <2>1. UNCHANGED buch BY <1>6 DEF Sekunde
  <2> QED BY <2>1, Unveraendert
<1>7. CASE UNCHANGED tlnVars
  <2>1. UNCHANGED buch BY <1>7 DEF tlnVars
  <2> QED BY <2>1, Unveraendert
<1> QED BY <1>1, <1>2, <1>3, <1>4, <1>5, <1>6, <1>7, NeustartErneuert DEF TlnNext

(* A server replaces an entry only by a newer one, which was made there    *)
(* and then or which another server has by then or had before it was       *)
(* restarted: no telegram and no order of telegrams brings an older state  *)
(* back (TlnHinzufuegen).                                                  *)
THEOREM NurNeuereGilt == TlnSpec => NurNeuere
<1>1. TlnInv /\ [TlnNext]_tlnVars => AlleErneuert BY NextErneuert
<1>2. TlnSpec => [][AlleErneuert]_tlnVars BY <1>1, InvGilt, PTL DEF TlnSpec
<1> QED BY <1>2 DEF NurNeuere, AlleErneuert, Erneuert
=============================================================================
