-------------------------- MODULE CentralexProofs --------------------------
(***************************************************************************)
(* Theorems about Centralex, for every value of its constants: any number  *)
(* of entries, stations and servers, buffers of any size.                  *)
(*                                                                         *)
(* The inductive invariant is IInv.  LinkMitSocket speaks of the state     *)
(* between two passes; LinkPasst says what holds before every block.       *)
(* EinBesitzer needs that the client's socket does not wait to be          *)
(* accepted: otherwise the line could take it as a caller's.               *)
(***************************************************************************)
EXTENDS Centralex, TcpSocketsProofs

LeitungTyp ==
    /\ phase \in L!Phasen /\ mode \in {"Idle", "Originate", "Answer"}
    /\ partner \in Gegenstellen \cup {Niemand}
    /\ belegt \in SUBSET Slots

Klient == {x \in Client : Len(x.buf) <= CxBufMax}

(* The link state fits the handle, before the block p. *)
LinkPasst(x, p) ==
    /\ x.link = "Disconnected" <=> x.handle = NO_SOCKET_USED
    /\ x.handle = NO_SOCKET_USED => x.buf = << >>
    /\ x.link = "StopPending" => p = "Aufbau"

(* The socket of x is not the line's, and leads to the server. *)
Besitz(x, t, b) ==
    x.handle # NO_SOCKET_USED =>
        /\ x.handle \notin b
        /\ t[x.handle].peer = x.server
        /\ t[x.handle].st # "Ready2Use"

IInv ==
    /\ NetzOK /\ LeitungTyp
    /\ cx \in Klient /\ pc \in Bloecke
    /\ LinkPasst(cx, pc)
    /\ Neuvergabe \/ Besitz(cx, tcp, belegt)

(* y has the socket of x, and leads to the same server. *)
GleicherSocket(y, x) == y \in Klient /\ y.handle = x.handle /\ y.server = x.server

(* x has no socket. *)
Frei(x) ==
    /\ x \in Klient /\ x.handle = NO_SOCKET_USED
    /\ x.link = "Disconnected" /\ x.buf = << >>

(***************************************************************************)
(* The helpers.                                                            *)
(***************************************************************************)
LEMMA NoSocketTyp == NO_SOCKET_USED \notin Slots
BY TcpAnnahme DEF NO_SOCKET_USED, Slots

LEMMA EigenesTyp ==
    ASSUME NEW art \in AlleTelegramme \cup {"Anmeldung"}
    PROVE  /\ Eigenes(art) \in
                Seq([art: AlleTelegramme \cup {"Anmeldung"}, von: Gegenstellen \cup {Selbst}])
           /\ Len(Eigenes(art)) = 1 /\ Len(Eigenes(art)) <= CxBufMax
           /\ Eigenes(art) # << >>
BY CentralexAnnahme DEF Eigenes

LEMMA OhneSocketTyp ==
    ASSUME NEW x \in Klient
    PROVE  Frei(OhneSocket(x)) /\ OhneSocket(x).server = x.server
<1> DEFINE S == [art: AlleTelegramme \cup {"Anmeldung"}, von: Gegenstellen \cup {Selbst}]
<1>1. << >> \in Seq(S) /\ Len(<< >>) = 0 OBVIOUS
<1> HIDE DEF S
<1>2. 0 <= CxBufMax BY CentralexAnnahme
<1> QED BY <1>1, <1>2 DEF OhneSocket, Frei, Klient, Client, S, LinkStates

LEMMA AndererServerTyp ==
    ASSUME NEW x \in Klient, NEW y \in AndererServer(x)
    PROVE  y \in Klient /\ y.handle = x.handle /\ y.link = x.link /\ y.buf = x.buf
BY DEF AndererServer, Klient, Client

LEMMA FreiBleibt ==
    ASSUME NEW x, Frei(x), NEW y \in AndererServer(x)
    PROVE  Frei(y)
BY AndererServerTyp DEF Frei

LEMMA FalschGemeldetTyp ==
    ASSUME NEW x \in Klient
    PROVE  FalschGemeldet(x) \in Klient
<1>1. x.falsch < FalschGrenze => x.falsch + 1 \in 0 .. FalschGrenze
  BY CentralexAnnahme DEF Klient, Client
<1> QED BY <1>1 DEF FalschGemeldet, Klient, Client

(* Receiving takes no more than fits the buffer, and nothing without a     *)
(* socket.                                                                 *)
LEMMA NachEmpfangTyp ==
    ASSUME IInv
    PROVE  /\ GleicherSocket(NachEmpfang, cx) /\ NachEmpfang.link = cx.link
           /\ NachEmpfang.falsch = cx.falsch /\ NachEmpfang.enabled = cx.enabled
           /\ cx.handle = NO_SOCKET_USED => NachEmpfang.buf = << >>
           /\ NachEmpfangTcp \in Tabelle
           /\ Fortsetzung(NachEmpfangTcp, tcp)
<1> DEFINE S == [art: AlleTelegramme \cup {"Anmeldung"}, von: Gegenstellen \cup {Selbst}]
           neu == SubSeq(Empfangen, 1, Anzahl)
           rest == SubSeq(Empfangen, Anzahl + 1, Len(Empfangen))
<1>1. cx \in Client /\ Len(cx.buf) <= CxBufMax /\ cx.buf \in Seq(S)
  BY DEF IInv, Klient, Client
<1>2. tcp \in [Slots -> Socket] /\ tcp \in Tabelle BY DEF IInv, NetzOK, Tabelle
<1>3. Empfangen \in Seq(Item) BY <1>1, <1>2 DEF Empfangen, Client, Socket
<1>4. Item \subseteq S BY DEF Item
<1> HIDE DEF S
<1>5. Empfangen \in Seq(S) BY <1>3, <1>4
<1>6. /\ Anzahl \in 0 .. Len(Empfangen) /\ Anzahl <= CxBufMax - Len(cx.buf)
  <2>1. Len(Empfangen) \in Nat /\ Len(cx.buf) \in Nat /\ CxBufMax \in Nat
    BY <1>1, <1>3, CentralexAnnahme, LenProperties
  <2> DEFINE m == Len(Empfangen)
             n == Len(cx.buf)
  <2>2. m \in Nat /\ n \in Nat /\ CxBufMax \in Nat /\ n <= CxBufMax BY <2>1, <1>1
  <2>3. Anzahl = Kleiner(m, CxBufMax - n) BY DEF Anzahl
  <2>4. Kleiner(m, CxBufMax - n) \in 0 .. m /\ Kleiner(m, CxBufMax - n) <= CxBufMax - n
    <3> HIDE DEF m, n
    <3> QED BY <2>2 DEF Kleiner
  <2> QED BY <2>3, <2>4
<1>7. neu \in Seq(S) /\ Len(neu) = Anzahl
  BY <1>5, <1>6, SubSeqProperties
<1>8. rest \in Seq(Item)
  BY <1>3, <1>6, SubSeqProperties
<1> HIDE DEF neu, rest
<1>9. cx.buf \o neu \in Seq(S) /\ Len(cx.buf \o neu) <= CxBufMax
  BY <1>1, <1>6, <1>7, CentralexAnnahme
<1>10. NachEmpfang = [cx EXCEPT !.buf = cx.buf \o neu] BY DEF NachEmpfang, neu
<1>11. NachEmpfang \in Klient BY <1>1, <1>9, <1>10 DEF Klient, Client, S
<1>12. cx.handle = NO_SOCKET_USED => cx.buf \o neu = << >>
  <2> SUFFICES ASSUME cx.handle = NO_SOCKET_USED PROVE cx.buf \o neu = << >>
    OBVIOUS
  <2>1. cx.buf = << >> BY DEF IInv, LinkPasst
  <2>2. Len(neu) = 0 BY <1>7, <1>6 DEF Empfangen
  <2> QED BY <2>1, <2>2, <1>7
<1>13. NachEmpfangTcp \in Tabelle /\ Fortsetzung(NachEmpfangTcp, tcp)
  <2>1. CASE cx.handle = NO_SOCKET_USED
    BY <2>1, <1>2 DEF NachEmpfangTcp, Fortsetzung, Tabelle
  <2>2. CASE cx.handle # NO_SOCKET_USED
    <3>1. cx.handle \in Slots BY <2>2, <1>1 DEF Client
    <3>2. NachEmpfangTcp = [tcp EXCEPT ![cx.handle].rx = rest]
      BY <2>2, <3>1, <1>2 DEF NachEmpfangTcp, rest, Empfangen
    <3>3. Fortsetzung([tcp EXCEPT ![cx.handle].rx = rest], tcp)
      BY <3>1, <1>2, <1>8, RxTyp
    <3> QED BY <3>2, <3>3 DEF Fortsetzung
  <2> QED BY <2>1, <2>2
<1> QED BY <1>1, <1>10, <1>11, <1>12, <1>13 DEF GleicherSocket, Client

(***************************************************************************)
(* The two ways in which a step keeps the invariant.                       *)
(***************************************************************************)
(* The client keeps its socket, and the line does not get it. *)
LEMMA SocketBleibt ==
    ASSUME IInv, NetzOK', Fortsetzung(tcp', tcp), LeitungTyp',
           cx.handle \in belegt' => cx.handle \in belegt,
           GleicherSocket(cx', cx), pc' \in Bloecke, LinkPasst(cx', pc')
    PROVE  IInv'
<1>1. cx'.handle # NO_SOCKET_USED => cx'.handle \in Slots
  BY DEF GleicherSocket, Klient, Client
<1>2. Neuvergabe \/ Besitz(cx', tcp', belegt')
  BY <1>1 DEF IInv, Besitz, GleicherSocket, Fortsetzung
<1> QED BY <1>2 DEF IInv, GleicherSocket

(* The client has no socket afterwards. *)
LEMMA SocketWeg ==
    ASSUME NetzOK', LeitungTyp', Frei(cx'), pc' \in Bloecke
    PROVE  IInv'
BY DEF IInv, Frei, LinkPasst, Besitz

LEMMA Unveraendert ==
    ASSUME IInv, UNCHANGED <<leitung, belegt>>
    PROVE  /\ LeitungTyp' /\ (cx.handle \in belegt' => cx.handle \in belegt)
           /\ cx \in Klient /\ GleicherSocket(cx, cx) /\ Fortsetzung(tcp, tcp)
           /\ UNCHANGED netz => NetzOK'
BY DEF IInv, LeitungTyp, leitung, GleicherSocket, NetzOK, netz, Fortsetzung

(***************************************************************************)
(* The line, the configuration and the network.                            *)
(***************************************************************************)
LEMMA LeitungsSchrittGilt ==
    ASSUME IInv, LeitungsSchritt
    PROVE  IInv'
<1>1. UNCHANGED <<cx, pc>> /\ pc = "Leitung" BY DEF LeitungsSchritt
<1>2. cx \in Klient /\ cx' = cx /\ GleicherSocket(cx', cx) /\ LinkPasst(cx', pc')
      /\ pc' \in Bloecke
  BY <1>1 DEF IInv, GleicherSocket
<1>3. /\ phase' \in L!Phasen /\ mode' \in {"Idle", "Originate", "Answer"}
      /\ partner' \in Gegenstellen \cup {Niemand}
  <2>1. CASE UNCHANGED leitung BY <2>1 DEF IInv, LeitungTyp, leitung
  <2>2. CASE L!Annehmen BY <2>2 DEF L!Annehmen, L!Phasen
  <2>3. CASE L!Anrufen BY <2>3 DEF L!Anrufen, IInv, LeitungTyp
  <2>4. CASE L!Belegen \/ L!Trennen \/ L!Freigeben \/ L!Ruhen \/ L!Ausschalten
    BY <2>4 DEF L!Belegen, L!Trennen, L!Freigeben, L!Ruhen, L!Ausschalten, L!Phasen,
                IInv, LeitungTyp
  <2> QED BY <2>1, <2>2, <2>3, <2>4 DEF LeitungsSchritt
<1>4. ASSUME NEW K \in SUBSET Slots, NEW neu \in Slots, LeitungNimmt(K, neu)
      PROVE  IInv'
  <2>1. neu \in K /\ K \in SUBSET {s \in Slots : tcp[s].st = "Ready2Use"}
    BY <1>4 DEF LeitungNimmt, PortRequest, Wartend
  <2>2. tcp' \in Tabelle /\ Fortsetzung(tcp', tcp)
    BY <1>4, <2>1, AngenommenTyp DEF LeitungNimmt, IInv, NetzOK
  <2>3. NetzOK' BY <1>4, <2>2 DEF LeitungNimmt, IInv, NetzOK
  <2>4. belegt' = belegt \cup {neu} BY <1>4 DEF LeitungNimmt
  <2>5. LeitungTyp' BY <1>3, <2>4 DEF LeitungTyp, IInv
  <2>6. CASE Neuvergabe BY <1>2, <2>3, <2>5, <2>6 DEF IInv, GleicherSocket
  <2>7. CASE ~Neuvergabe
    <3>1. cx.handle # neu BY <2>1, <2>7, NoSocketTyp DEF IInv, Besitz
    <3> QED BY <1>2, <2>2, <2>3, <2>4, <2>5, <3>1, SocketBleibt
  <2> QED BY <2>6, <2>7
<1>5. ASSUME NEW s \in Slots, NEW p \in Gegenstellen, LeitungOeffnet(s, p)
      PROVE  IInv'
  <2>1. tcp' = [tcp EXCEPT ![s] = NeuerSocket("Ready", p)] BY <1>5 DEF LeitungOeffnet
  <2>2. tcp' \in Tabelle BY <2>1, NeuerSocketTyp DEF IInv, NetzOK, SocketStates
  <2>3. NetzOK' BY <1>5, <2>2 DEF LeitungOeffnet, IInv, NetzOK
  <2>4. belegt' = belegt \cup {s} BY <1>5 DEF LeitungOeffnet
  <2>5. LeitungTyp' BY <1>3, <2>4 DEF LeitungTyp, IInv
  <2>6. Neuvergabe \/ s # cx.handle BY <1>5 DEF LeitungOeffnet, FreierEintrag
  <2>7. Neuvergabe \/ Besitz(cx', tcp', belegt')
    <3>1. cx.handle # NO_SOCKET_USED => cx.handle \in Slots
      BY <1>2 DEF Klient, Client
    <3>2. cx.handle \in Slots /\ s # cx.handle => tcp'[cx.handle] = tcp[cx.handle]
      <4>1. tcp \in [Slots -> Socket] BY DEF IInv, NetzOK, Tabelle
      <4> QED BY <2>1, <4>1
    <3> QED BY <1>2, <2>4, <2>6, <3>1, <3>2 DEF IInv, Besitz
  <2> QED BY <1>2, <2>3, <2>5, <2>7 DEF IInv, GleicherSocket
<1>6. ASSUME NEW s \in Slots, LeitungGibt(s) PROVE IInv'
  <2>1. tcp' = CloseTCPSocket(tcp, s) /\ belegt' = belegt \ {s} BY <1>6 DEF LeitungGibt
  <2>2. tcp' \in Tabelle /\ Fortsetzung(tcp', tcp) BY <2>1, CloseTyp DEF IInv, NetzOK
  <2>3. NetzOK' BY <1>6, <2>2 DEF LeitungGibt, IInv, NetzOK
  <2>4. LeitungTyp' BY <1>3, <2>1 DEF LeitungTyp, IInv
  <2> QED BY <1>2, <2>1, <2>2, <2>3, <2>4, SocketBleibt
<1>7. CASE UNCHANGED <<netz, belegt>>
  <2>1. NetzOK' /\ LeitungTyp' /\ Fortsetzung(tcp', tcp)
    BY <1>3, <1>7 DEF netz, IInv, NetzOK, LeitungTyp, Fortsetzung
  <2> QED BY <1>2, <1>7, <2>1, SocketBleibt
<1> QED BY <1>4, <1>5, <1>6, <1>7 DEF LeitungsSchritt

LEMMA KonfigurierenGilt ==
    ASSUME IInv, Konfigurieren
    PROVE  IInv'
<1>1. PICK an \in BOOLEAN : cx' = [cx EXCEPT !.enabled = an, !.falsch = 0]
  BY DEF Konfigurieren
<1>2. UNCHANGED <<netz, leitung, belegt, pc>> BY DEF Konfigurieren
<1>3. cx \in Klient /\ pc \in Bloecke /\ LinkPasst(cx, pc) BY DEF IInv
<1>4. GleicherSocket(cx', cx) /\ LinkPasst(cx', pc)
  <2>1. 0 \in 0 .. FalschGrenze BY CentralexAnnahme
  <2> DEFINE y == [cx EXCEPT !.enabled = an, !.falsch = 0]
  <2>2. y \in Client /\ y.buf = cx.buf /\ y.link = cx.link
        /\ y.handle = cx.handle /\ y.server = cx.server
    BY <1>3, <2>1 DEF Klient, Client
  <2> HIDE DEF y
  <2>3. GleicherSocket(y, cx) /\ LinkPasst(y, pc)
    BY <1>3, <2>2 DEF GleicherSocket, LinkPasst, Klient
  <2> QED BY <1>1, <2>3 DEF y
<1> QED BY <1>2, <1>3, <1>4, Unveraendert, SocketBleibt DEF netz

LEMMA NetzGilt ==
    ASSUME IInv, Netz
    PROVE  IInv'
<1>1. UNCHANGED <<leitung, belegt, cx, pc>> BY DEF Netz
<1>2. LeitungTyp' /\ cx' \in Klient /\ pc' \in Bloecke /\ LinkPasst(cx', pc')
      /\ GleicherSocket(cx', cx) /\ belegt' = belegt
  BY <1>1, Unveraendert DEF IInv
<1>3. ASSUME NEW s \in Slots, NEW p \in Gegenstellen,
             Neuvergabe \/ s # cx.handle, SynEmpfangen(s, p)
      PROVE  IInv'
  <2>1. NetzOK' BY <1>3, SynTyp DEF IInv
  <2>2. tcp' = [tcp EXCEPT ![s] = NeuerSocket("Ready2Use", p)] BY <1>3 DEF SynEmpfangen
  <2>3. cx.handle \in Slots /\ s # cx.handle => tcp'[cx.handle] = tcp[cx.handle]
    <3>1. tcp \in [Slots -> Socket] BY DEF IInv, NetzOK, Tabelle
    <3> QED BY <2>2, <3>1
  <2>4. Neuvergabe \/ Besitz(cx', tcp', belegt')
    <3>1. cx.handle # NO_SOCKET_USED => cx.handle \in Slots BY DEF IInv, Klient, Client
    <3> QED BY <1>1, <1>3, <2>3, <3>1 DEF IInv, Besitz
  <2> QED BY <1>2, <2>1, <2>4 DEF IInv
<1>4. ASSUME cx.handle # NO_SOCKET_USED, NEW art \in Telegramme,
             DatenEmpfangen(cx.handle, art)
      PROVE  IInv'
  <2>1. cx.handle \in Slots BY <1>4 DEF IInv, Klient, Client
  <2>2. NetzOK' /\ Fortsetzung(tcp', tcp) BY <1>4, <2>1, DatenTyp DEF IInv
  <2> QED BY <1>2, <2>2, SocketBleibt
<1>5. ASSUME NEW s \in Slots, FinEmpfangen(s) \/ Zeitueberschreitung(s) \/ SocketFrei(s)
      PROVE  IInv'
  <2>1. NetzOK' /\ Fortsetzung(tcp', tcp) BY <1>5, EndeTyp DEF IInv
  <2> QED BY <1>2, <2>1, SocketBleibt
<1> QED BY <1>3, <1>4, <1>5 DEF Netz

(***************************************************************************)
(* First block.                                                            *)
(***************************************************************************)
(* The telegrams that change the buffer and the state, not the socket. *)
LEMMA VerarbeitetGilt ==
    ASSUME IInv, NEW y, Verarbeitet(y), UNCHANGED <<anrufe, tele, leitung, belegt>>,
           pc = "Leitung", GleicherSocket(y, cx),
           y.link = cx.link \/ (cx.link = "AwaitingConfirmation" /\ y.link = "Connected"),
           cx.handle # NO_SOCKET_USED
    PROVE  IInv'
<1>1. cx' = y /\ tcp' = NachEmpfangTcp /\ pc' = "Verlust" BY DEF Verarbeitet
<1>2. NetzOK' /\ Fortsetzung(tcp', tcp) BY <1>1, NachEmpfangTyp DEF IInv, NetzOK
<1>3. LinkPasst(cx', pc') BY <1>1 DEF IInv, LinkPasst, GleicherSocket
<1> QED BY <1>1, <1>2, <1>3, Unveraendert, SocketBleibt DEF Bloecke

LEMMA EmpfangGilt ==
    ASSUME IInv, Empfang
    PROVE  IInv'
<1> DEFINE x == NachEmpfang
           S == [art: AlleTelegramme \cup {"Anmeldung"}, von: Gegenstellen \cup {Selbst}]
<1>1. /\ GleicherSocket(x, cx) /\ x.link = cx.link
      /\ cx.handle = NO_SOCKET_USED => x.buf = << >>
      /\ NachEmpfangTcp \in Tabelle /\ Fortsetzung(NachEmpfangTcp, tcp)
  BY NachEmpfangTyp
<1>2. x \in Klient /\ x.handle = cx.handle BY <1>1 DEF GleicherSocket
<1>3. UNCHANGED <<anrufe, tele>> /\ pc = "Leitung" /\ (NichtsEmpfangen(x) \/ Telegramm(x))
  BY DEF Empfang
<1> HIDE DEF x
<1>4. x \in Client /\ x.buf \in Seq(S) /\ Len(x.buf) <= CxBufMax
  BY <1>2 DEF Klient, Client
<1>5. CloseTCPSocket(NachEmpfangTcp, x.handle) \in Tabelle BY <1>1, CloseTyp
<1>6. CASE NichtsEmpfangen(x)
  <2>1. cx' = x /\ tcp' = NachEmpfangTcp /\ pc' = "Verlust" /\ UNCHANGED <<leitung, belegt>>
    BY <1>6 DEF NichtsEmpfangen, Verarbeitet
  <2>2. NetzOK' /\ Fortsetzung(tcp', tcp) BY <2>1, <1>1, <1>3 DEF IInv, NetzOK
  <2>3. LinkPasst(cx', pc')
    BY <2>1, <1>1, <1>2, <1>3, <1>6 DEF IInv, LinkPasst, NichtsEmpfangen
  <2> QED BY <2>1, <2>2, <2>3, <1>1, Unveraendert, SocketBleibt DEF Bloecke
<1>7. CASE Telegramm(x)
  <2>1. x.buf # << >> /\ cx.handle # NO_SOCKET_USED BY <1>1, <1>7 DEF Telegramm
  <2>2. Tail(x.buf) \in Seq(S) /\ Len(Tail(x.buf)) <= CxBufMax
    <3> HIDE DEF S
    <3> QED BY <1>4, <2>1, CentralexAnnahme, HeadTailProperties
  <2>3. CASE RufUebergeben(x)
    <3>1. /\ cx' = OhneSocket(x) /\ tcp' = NachEmpfangTcp /\ pc' = "Leitung"
          /\ belegt' = belegt \cup {x.handle}
          /\ phase' = "Kommend" /\ mode' = "Answer" /\ partner' = tcp[x.handle].peer
          /\ CheckSocketState(tcp, x.handle) = "Ready"
      BY <2>3 DEF RufUebergeben
    <3>2. x.handle \in Slots BY <3>1 DEF CheckSocketState
    <3>3. tcp[x.handle].peer \in Gegenstellen \cup {Niemand}
      BY <3>2 DEF IInv, NetzOK, Tabelle, Socket
    <3>4. LeitungTyp' BY <3>1, <3>2, <3>3 DEF LeitungTyp, IInv, L!Phasen
    <3>5. NetzOK' BY <3>1, <1>1, <1>3 DEF IInv, NetzOK
    <3>6. Frei(cx') BY <3>1, <1>2, OhneSocketTyp
    <3> QED BY <3>1, <3>4, <3>5, <3>6, SocketWeg DEF Bloecke
  <2>4. CASE RufOhneSocket(x)
    <3>1. /\ cx' \in AndererServer(OhneSocket(x)) /\ pc' = "Leitung"
          /\ tcp' = CloseTCPSocket(NachEmpfangTcp, x.handle) /\ UNCHANGED belegt
          /\ phase' = "Kommend" /\ mode' = "Answer" /\ partner' \in Gegenstellen \cup {Niemand}
      BY <2>4 DEF RufOhneSocket
    <3>2. LeitungTyp' BY <3>1 DEF LeitungTyp, IInv, L!Phasen
    <3>3. NetzOK' BY <3>1, <1>5, <1>3 DEF IInv, NetzOK
    <3>4. Frei(cx') BY <3>1, <1>2, OhneSocketTyp, FreiBleibt
    <3> QED BY <3>1, <3>2, <3>3, <3>4, SocketWeg DEF Bloecke
  <2>5. CASE ServerEnde(x) /\ UNCHANGED <<leitung, belegt>>
    <3>1. PICK y \in {FalschGemeldet(x), x} : cx' \in AndererServer(OhneSocket(y))
      BY <2>5 DEF ServerEnde
    <3>2. tcp' = CloseTCPSocket(NachEmpfangTcp, x.handle) /\ pc' = "Verlust"
      BY <2>5 DEF ServerEnde
    <3>3. y \in Klient BY <3>1, <1>2, FalschGemeldetTyp
    <3>4. Frei(cx') BY <3>1, <3>3, OhneSocketTyp, FreiBleibt
    <3>5. NetzOK' BY <3>2, <1>5, <1>3 DEF IInv, NetzOK
    <3> QED BY <2>5, <3>2, <3>4, <3>5, Unveraendert, SocketWeg DEF Bloecke
  <2>6. ASSUME NEW y, Verarbeitet(y), UNCHANGED <<leitung, belegt>>,
               y \in Klient, y.handle = x.handle, y.server = x.server,
               y.link = x.link \/ (x.link = "AwaitingConfirmation" /\ y.link = "Connected")
        PROVE  IInv'
    <3>1. GleicherSocket(y, cx) BY <2>6, <1>1 DEF GleicherSocket
    <3> QED BY <2>6, <2>1, <3>1, <1>1, <1>3, VerarbeitetGilt
  <2>7. CASE RufAbweisen(x)
    <3> DEFINE y == [x EXCEPT !.buf = Eigenes("Ende")]
    <3>1. Verarbeitet(y) /\ UNCHANGED <<leitung, belegt>> BY <2>7 DEF RufAbweisen
    <3>2. y \in Klient /\ y.handle = x.handle /\ y.server = x.server /\ y.link = x.link
      BY <1>4, EigenesTyp DEF Klient, Client, AlleTelegramme
    <3> HIDE DEF y
    <3> QED BY <3>1, <3>2, <2>6
  <2>8. CASE Bestaetigung(x) /\ UNCHANGED <<leitung, belegt>>
    <3> DEFINE z == IF x.link = "AwaitingConfirmation" THEN "Connected" ELSE x.link
               y == [x EXCEPT !.link = z, !.falsch = 0, !.buf = Tail(x.buf)]
    <3>1. Verarbeitet(y) /\ UNCHANGED <<leitung, belegt>> BY <2>8 DEF Bestaetigung
    <3>2. z \in LinkStates /\ (z = x.link \/ (x.link = "AwaitingConfirmation" /\ z = "Connected"))
      BY <1>4 DEF Client, LinkStates
    <3>3. 0 \in 0 .. FalschGrenze BY CentralexAnnahme
    <3> HIDE DEF z
    <3>4. y \in Klient /\ y.handle = x.handle /\ y.server = x.server /\ y.link = z
      BY <1>4, <2>2, <3>2, <3>3 DEF Klient, Client
    <3> HIDE DEF y
    <3> QED BY <3>1, <3>2, <3>4, <2>6
  <2>9. CASE Verarbeitet([x EXCEPT !.buf = Tail(@)]) /\ UNCHANGED <<leitung, belegt>>
    <3> DEFINE y == [x EXCEPT !.buf = Tail(@)]
    <3>1. y \in Klient /\ y.handle = x.handle /\ y.server = x.server /\ y.link = x.link
      BY <1>4, <2>2 DEF Klient, Client
    <3> HIDE DEF y
    <3>2. Verarbeitet(y) BY <2>9 DEF y
    <3> QED BY <2>9, <3>1, <3>2, <2>6
  <2>10. CASE Verarbeitet([x EXCEPT !.buf = << >>]) /\ UNCHANGED <<leitung, belegt>>
    <3> DEFINE y == [x EXCEPT !.buf = << >>]
    <3>1. << >> \in Seq(S) /\ Len(<< >>) <= CxBufMax BY CentralexAnnahme
    <3>2. y \in Klient /\ y.handle = x.handle /\ y.server = x.server /\ y.link = x.link
      BY <1>4, <3>1 DEF Klient, Client
    <3> HIDE DEF y
    <3>3. Verarbeitet(y) BY <2>10 DEF y
    <3> QED BY <2>10, <3>2, <3>3, <2>6
  <2> QED BY <1>7, <2>3, <2>4, <2>5, <2>7, <2>8, <2>9, <2>10 DEF Telegramm
<1> QED BY <1>3, <1>6, <1>7

(***************************************************************************)
(* The other blocks.                                                       *)
(***************************************************************************)
(* A step that leaves the table and the line alone. *)
LEMMA NurKlient ==
    ASSUME IInv, UNCHANGED <<netz, leitung, belegt>>, pc' \in Bloecke,
           \/ GleicherSocket(cx', cx) /\ LinkPasst(cx', pc')
           \/ Frei(cx')
    PROVE  IInv'
<1>1. LeitungTyp' /\ NetzOK' /\ Fortsetzung(tcp', tcp)
      /\ (cx.handle \in belegt' => cx.handle \in belegt)
  BY Unveraendert DEF netz
<1> QED BY <1>1, SocketBleibt, SocketWeg

LEMMA VerlustGilt ==
    ASSUME IInv, Verlust \/ Zeitablauf
    PROVE  IInv'
<1>1. UNCHANGED <<netz, leitung, belegt>> /\ cx \in Klient /\ LinkPasst(cx, pc) /\ pc = "Verlust"
  BY DEF Verlust, Zeitablauf, IInv
<1>2. CASE Verlust
  <2>1. pc' \in {"Leitung", "Aufbau"} BY <1>2 DEF Verlust
  <2>2. CASE cx' = cx
    BY <1>1, <2>1, <2>2, NurKlient DEF GleicherSocket, LinkPasst, Bloecke
  <2>3. CASE cx' \in AndererServer(OhneSocket(cx)) \cup {OhneSocket(cx)}
    BY <1>1, <2>1, <2>3, OhneSocketTyp, FreiBleibt, NurKlient DEF Bloecke
  <2> QED BY <1>2, <2>2, <2>3 DEF Verlust, NachTrennung
<1>3. CASE Zeitablauf
  <2>1. cx' = [cx EXCEPT !.link = "StopPending"] /\ pc' = "Aufbau"
        /\ cx.link \in {"Connected", "AwaitingConfirmation"}
    BY <1>3 DEF Zeitablauf
  <2>2. GleicherSocket(cx', cx) /\ LinkPasst(cx', pc')
    BY <1>1, <2>1 DEF GleicherSocket, LinkPasst, Klient, Client, LinkStates
  <2> QED BY <1>1, <2>1, <2>2, NurKlient DEF Bloecke
<1> QED BY <1>2, <1>3

LEMMA AufbauGilt ==
    ASSUME IInv, Trennen \/ KeinAufbau \/ AufbauGelingt \/ AufbauMisslingt
    PROVE  IInv'
<1>1. cx \in Klient /\ cx \in Client /\ LinkPasst(cx, pc) BY DEF IInv, Klient
<1>2. CASE Trennen
  <2>1. /\ cx' = [cx EXCEPT !.link = "Disconnecting", !.buf = Eigenes("Ende")]
        /\ pc' = "Senden" /\ UNCHANGED <<netz, leitung, belegt>>
        /\ cx.link # "Disconnected"
    BY <1>2 DEF Trennen, TrennenNoetig
  <2>2. GleicherSocket(cx', cx) /\ LinkPasst(cx', pc')
    BY <1>1, <2>1, EigenesTyp
    DEF GleicherSocket, LinkPasst, Klient, Client, LinkStates, AlleTelegramme
  <2> QED BY <2>1, <2>2, NurKlient DEF Bloecke
<1>3. CASE KeinAufbau
  <2>1. cx' = cx /\ pc' = "Senden" /\ UNCHANGED <<netz, leitung, belegt>>
        /\ cx.link # "StopPending"
    BY <1>3 DEF KeinAufbau, TrennenNoetig
  <2> QED BY <1>1, <2>1, NurKlient DEF GleicherSocket, LinkPasst, Bloecke
<1>4. CASE AufbauGelingt
  <2>1. PICK s \in Slots :
          /\ FreierEintrag(s)
          /\ tcp' = [tcp EXCEPT ![s] = NeuerSocket("Ready", cx.server)]
          /\ cx' = [cx EXCEPT !.handle = s, !.link = "AwaitingConfirmation",
                              !.buf = Eigenes("Anmeldung")]
    BY <1>4 DEF AufbauGelingt
  <2>2. /\ anrufe > 0 /\ anrufe' = anrufe - 1 /\ pc' = "Senden"
        /\ UNCHANGED <<tele, leitung, belegt>>
    BY <1>4 DEF AufbauGelingt
  <2>3. cx.server \in Gegenstellen BY <1>1, CentralexAnnahme DEF Client
  <2>4. NetzOK'
    <3>1. tcp \in Tabelle /\ anrufe \in Nat /\ tele \in Nat BY DEF IInv, NetzOK
    <3>2. tcp' \in Tabelle BY <2>1, <2>3, <3>1, NeuerSocketTyp DEF SocketStates
    <3> QED BY <2>2, <3>1, <3>2 DEF NetzOK
  <2>5. LeitungTyp' BY <2>2, Unveraendert
  <2>6. /\ cx' \in Klient /\ cx'.handle = s /\ cx'.server = cx.server
        /\ cx'.link = "AwaitingConfirmation"
    BY <1>1, <2>1, EigenesTyp DEF Klient, Client, LinkStates
  <2>7. LinkPasst(cx', pc') BY <2>6, NoSocketTyp DEF LinkPasst
  <2>8. tcp'[s].peer = cx.server /\ tcp'[s].st = "Ready"
    BY <2>1 DEF IInv, NetzOK, Tabelle, NeuerSocket
  <2>9. Neuvergabe \/ Besitz(cx', tcp', belegt')
    BY <2>1, <2>2, <2>6, <2>8 DEF Besitz, FreierEintrag
  <2> QED BY <2>2, <2>4, <2>5, <2>6, <2>7, <2>9 DEF IInv, Bloecke
<1>5. CASE AufbauMisslingt
  <2>1. cx' \in AndererServer(cx) /\ pc' = "Leitung" /\ UNCHANGED <<netz, leitung, belegt>>
        /\ cx.link = "Disconnected"
    BY <1>5 DEF AufbauMisslingt, VerbindenNoetig
  <2>2. Frei(cx) BY <1>1, <2>1 DEF Frei, LinkPasst
  <2> QED BY <2>1, <2>2, FreiBleibt, NurKlient DEF Bloecke
<1> QED BY <1>2, <1>3, <1>4, <1>5

LEMMA SendenGilt ==
    ASSUME IInv, Senden \/ NichtsZuSenden \/ SpaetesSchliessen
    PROVE  IInv'
<1>1. cx \in Klient /\ cx \in Client /\ LinkPasst(cx, pc) /\ tcp \in Tabelle
  BY DEF IInv, Klient, NetzOK
<1>2. CASE Senden
  <2>1. PICK x \in {cx, MitHerzschlag(cx)} : x.buf # << >> /\ (Gesendet(x) \/ Sendefehler(x))
    BY <1>2 DEF Senden
  <2>2. pc = "Senden" /\ pc' = "Leitung" /\ UNCHANGED <<anrufe, tele, leitung, belegt>>
    BY <1>2 DEF Senden
  <2>3. MitHerzschlag(cx) \in Klient /\ MitHerzschlag(cx).handle = cx.handle
        /\ MitHerzschlag(cx).server = cx.server /\ MitHerzschlag(cx).link = cx.link
    BY <1>1, EigenesTyp DEF MitHerzschlag, Klient, Client, AlleTelegramme
  <2>4. x \in Klient /\ x.handle = cx.handle /\ x.server = cx.server /\ x.link = cx.link
    BY <1>1, <2>1, <2>3
  <2>5. CASE Gesendet(x)
    <3>1. cx' = [x EXCEPT !.buf = << >>] /\ tcp' = tcp BY <2>5 DEF Gesendet
    <3> DEFINE S == [art: AlleTelegramme \cup {"Anmeldung"}, von: Gegenstellen \cup {Selbst}]
    <3>2. << >> \in Seq(S) /\ Len(<< >>) <= CxBufMax BY CentralexAnnahme
    <3>3. cx' \in Klient /\ cx'.handle = x.handle /\ cx'.server = x.server /\ cx'.link = x.link
          /\ cx'.buf = << >>
      BY <3>1, <3>2, <2>4 DEF Klient, Client
    <3>4. GleicherSocket(cx', cx) /\ LinkPasst(cx', pc')
      BY <1>1, <2>2, <2>4, <3>3 DEF GleicherSocket, LinkPasst
    <3> QED BY <2>2, <3>1, <3>4, NurKlient DEF netz, Bloecke
  <2>6. CASE Sendefehler(x)
    <3>1. cx' \in AndererServer(OhneSocket(x)) /\ tcp' = CloseTCPSocket(tcp, x.handle)
      BY <2>6 DEF Sendefehler
    <3>2. Frei(cx') BY <3>1, <2>4, OhneSocketTyp, FreiBleibt
    <3>3. NetzOK' BY <2>2, <3>1, <1>1, CloseTyp DEF IInv, NetzOK
    <3> QED BY <2>2, <3>2, <3>3, Unveraendert, SocketWeg DEF Bloecke
  <2> QED BY <2>1, <2>5, <2>6
<1>3. CASE NichtsZuSenden
  <2>1. UNCHANGED <<netz, leitung, belegt, cx>> /\ pc = "Senden" /\ pc' = "Leitung"
    BY <1>3 DEF NichtsZuSenden
  <2> QED BY <1>1, <2>1, NurKlient DEF GleicherSocket, LinkPasst, Bloecke
<1>4. CASE SpaetesSchliessen
  <2>1. tcp' = CloseTCPSocket(tcp, cx.handle) /\ cx' = OhneSocket(cx) /\ pc' = "Leitung"
        /\ UNCHANGED <<anrufe, tele, leitung, belegt>>
    BY <1>4 DEF SpaetesSchliessen
  <2>2. Frei(cx') BY <2>1, <1>1, OhneSocketTyp
  <2>3. NetzOK' BY <2>1, <1>1, CloseTyp DEF IInv, NetzOK
  <2> QED BY <2>1, <2>2, <2>3, Unveraendert, SocketWeg DEF Bloecke
<1> QED BY <1>2, <1>3, <1>4

(***************************************************************************)
(* The theorems.                                                           *)
(***************************************************************************)
LEMMA AnfangGilt == Init => IInv
<1> SUFFICES ASSUME Init PROVE IInv
  OBVIOUS
<1>1. NetzOK
  <2>1. LeererSocket \in Socket /\ LeererSocket.st = "NotUse"
    BY << >> \in Seq(Item) DEF LeererSocket, Socket, SocketStates
  <2> QED BY <2>1, TcpAnnahme DEF Init, TcpInit, NetzOK, Tabelle
<1>2. LeitungTyp BY DEF Init, L!Init, LeitungTyp, L!Phasen
<1>3. Frei(cx)
  <2> DEFINE S == [art: AlleTelegramme \cup {"Anmeldung"}, von: Gegenstellen \cup {Selbst}]
  <2>1. << >> \in Seq(S) /\ Len(<< >>) <= CxBufMax /\ 0 \in 0 .. FalschGrenze
    BY CentralexAnnahme
  <2>2. ErsterServer \in Zentralen BY CentralexAnnahme DEF ErsterServer
  <2> QED BY <2>1, <2>2 DEF Init, Frei, Klient, Client, LinkStates
<1>4. pc \in Bloecke BY DEF Init, Bloecke
<1> QED BY <1>1, <1>2, <1>3, <1>4 DEF IInv, Frei, LinkPasst, Besitz

LEMMA SchrittGilt == IInv /\ [Next]_vars => IInv'
<1> SUFFICES ASSUME IInv, [Next]_vars PROVE IInv'
  OBVIOUS
<1>1. CASE UNCHANGED vars
  <2>1. UNCHANGED <<netz, leitung, belegt, cx, pc>> BY <1>1 DEF vars, netz, leitung
  <2> QED BY <2>1, NurKlient DEF IInv, GleicherSocket
<1>2. CASE CentralexProcess
  BY <1>2, EmpfangGilt, VerlustGilt, AufbauGilt, SendenGilt DEF CentralexProcess
<1> QED BY <1>1, <1>2, LeitungsSchrittGilt, KonfigurierenGilt, NetzGilt DEF Next

LEMMA InvarianteGilt == Spec => []IInv
BY AnfangGilt, SchrittGilt, PTL DEF Spec

(* Every variable keeps its type: the client's buffer never overruns, and  *)
(* the refusals are never counted beyond the limit.                        *)
THEOREM CxTypKorrekt == Spec => []CxTyp
<1>1. IInv => CxTyp
  BY DEF IInv, NetzOK, Tabelle, LeitungTyp, Klient, CxTyp, TcpTyp
<1> QED BY <1>1, InvarianteGilt, PTL

(* Between two passes the client has a socket exactly when it is not       *)
(* disconnected, whatever the server sends and the network loses.          *)
THEOREM LinkMitSocketGilt == Spec => []LinkMitSocket
<1>1. IInv => LinkMitSocket BY DEF IInv, LinkPasst, LinkMitSocket
<1> QED BY <1>1, InvarianteGilt, PTL

(* As long as no entry of the table is given to a new connection while a   *)
(* handle to it exists, the line and the client never own the same entry,  *)
(* and the client's socket leads to the server it has chosen.              *)
THEOREM EinBesitzerGilt ==
    ASSUME Neuvergabe = FALSE
    PROVE  Spec => []EinBesitzer
<1>1. IInv => EinBesitzer BY DEF IInv, Besitz, EinBesitzer
<1> QED BY <1>1, InvarianteGilt, PTL
=============================================================================
