------------------------- MODULE TcpSocketsProofs -------------------------
(***************************************************************************)
(* Lemmas about the socket table, for the proofs about its users: what     *)
(* keeps it well formed, and what a user may rely on for an entry whose    *)
(* handle it holds, whatever the network does to the entry meanwhile.      *)
(***************************************************************************)
EXTENDS TcpSockets, SequenceTheorems, TLAPS

(* A well formed table: an entry in use has a real station at its end. *)
Tabelle == {t \in [Slots -> Socket] :
              \A s \in Slots : t[s].st # "NotUse" => t[s].peer \in Gegenstellen}

NetzOK == tcp \in Tabelle /\ anrufe \in Nat /\ tele \in Nat

(* The table u may follow t without a new connection: every entry keeps    *)
(* its peer, and none waits to be accepted that did not before.            *)
Fortsetzung(u, t) ==
    /\ u \in Tabelle
    /\ \A s \in Slots :
         u[s].peer = t[s].peer /\ (u[s].st = "Ready2Use" => t[s].st = "Ready2Use")

LEMMA FortsetzungTransitiv ==
    ASSUME NEW t, NEW u, NEW v, Fortsetzung(v, u), Fortsetzung(u, t)
    PROVE  Fortsetzung(v, t)
BY DEF Fortsetzung

LEMMA EintragTyp ==
    ASSUME NEW t \in Tabelle, NEW s \in Slots,
           NEW e \in Socket, e.peer \in Gegenstellen
    PROVE  [t EXCEPT ![s] = e] \in Tabelle
BY DEF Tabelle

LEMMA CloseTyp ==
    ASSUME NEW t \in Tabelle, NEW h
    PROVE  CloseTCPSocket(t, h) \in Tabelle /\ Fortsetzung(CloseTCPSocket(t, h), t)
BY DEF CloseTCPSocket, Tabelle, Fortsetzung, Socket, SocketStates

LEMMA AngenommenTyp ==
    ASSUME NEW t \in Tabelle, NEW K \in SUBSET {s \in Slots : t[s].st = "Ready2Use"}
    PROVE  Angenommen(t, K) \in Tabelle /\ Fortsetzung(Angenommen(t, K), t)
BY DEF Angenommen, Tabelle, Fortsetzung, Socket, SocketStates

LEMMA RxTyp ==
    ASSUME NEW t \in Tabelle, NEW s \in Slots, NEW q \in Seq(Item)
    PROVE  Fortsetzung([t EXCEPT ![s].rx = q], t)
BY DEF Tabelle, Fortsetzung, Socket

LEMMA NeuerSocketTyp ==
    ASSUME NEW t \in Tabelle, NEW s, NEW p \in Gegenstellen,
           NEW z \in SocketStates
    PROVE  [t EXCEPT ![s] = NeuerSocket(z, p)] \in Tabelle
<1>1. NeuerSocket(z, p) \in Socket
  BY << >> \in Seq(Item) DEF NeuerSocket, Socket
<1>2. NeuerSocket(z, p).peer = p BY DEF NeuerSocket
<1> HIDE DEF NeuerSocket
<1> QED BY <1>1, <1>2 DEF Tabelle

(* The bound of the telegrams is not overrun. *)
LEMMA VerkehrTyp ==
    ASSUME NetzOK, NEW s \in Slots, NEW art \in Telegramme, DatenEmpfangen(s, art)
    PROVE  tele' \in Nat /\ anrufe' \in Nat
BY DEF DatenEmpfangen, NetzOK

(* What the interrupt does to the table. *)
LEMMA SynTyp ==
    ASSUME NetzOK, NEW s \in Slots, NEW p \in Gegenstellen, SynEmpfangen(s, p)
    PROVE  NetzOK'
<1>1. tcp' \in Tabelle
  BY NeuerSocketTyp DEF SynEmpfangen, NetzOK, SocketStates
<1> QED BY <1>1 DEF SynEmpfangen, NetzOK

LEMMA DatenTyp ==
    ASSUME NetzOK, NEW s \in Slots, NEW art \in Telegramme, DatenEmpfangen(s, art)
    PROVE  NetzOK' /\ Fortsetzung(tcp', tcp)
<1> DEFINE i == [art |-> art, von |-> tcp[s].peer]
           rx == Append(tcp[s].rx, i)
           e == [tcp[s] EXCEPT !.rx = rx, !.offen = (art = "Kopf")]
<1>1. tcp[s] \in Socket BY DEF NetzOK, Tabelle
<1>2. tcp[s].peer \in Gegenstellen BY DEF DatenEmpfangen, NetzOK, Tabelle
<1>3. i \in Item BY <1>2, TcpAnnahme DEF Item
<1> HIDE DEF i
<1>4. rx \in Seq(Item) BY <1>1, <1>3 DEF Socket
<1>5. tcp' = [tcp EXCEPT ![s].rx = rx, ![s].offen = (art = "Kopf")]
  BY DEF DatenEmpfangen, i
<1> HIDE DEF rx
<1>6. tcp' = [tcp EXCEPT ![s] = e] BY <1>5 DEF NetzOK, Tabelle
<1>7. e \in Socket /\ e.peer = tcp[s].peer /\ e.st = tcp[s].st BY <1>1, <1>4 DEF Socket
<1> HIDE DEF e
<1>8. tcp' \in Tabelle BY <1>2, <1>6, <1>7, EintragTyp DEF NetzOK
<1>9. Fortsetzung(tcp', tcp) BY <1>6, <1>7, <1>8 DEF Fortsetzung, NetzOK, Tabelle
<1> QED BY <1>8, <1>9, VerkehrTyp DEF NetzOK

LEMMA EndeTyp ==
    ASSUME NetzOK, NEW s \in Slots,
           FinEmpfangen(s) \/ Zeitueberschreitung(s) \/ SocketFrei(s)
    PROVE  NetzOK' /\ Fortsetzung(tcp', tcp)
<1>1. PICK z \in SocketStates \ {"Ready2Use"} :
        tcp' = [tcp EXCEPT ![s].st = z] /\ tcp[s].st # "NotUse"
  BY DEF FinEmpfangen, Zeitueberschreitung, SocketFrei, SocketStates
<1> DEFINE e == [tcp[s] EXCEPT !.st = z]
<1>2. tcp' = [tcp EXCEPT ![s] = e] BY <1>1
<1>3. e \in Socket /\ e.peer \in Gegenstellen /\ e.peer = tcp[s].peer /\ e.st = z
  BY <1>1 DEF NetzOK, Tabelle, Socket
<1> HIDE DEF e
<1>4. tcp' \in Tabelle BY <1>2, <1>3, EintragTyp DEF NetzOK
<1>5. Fortsetzung(tcp', tcp) BY <1>2, <1>3, <1>4 DEF Fortsetzung, NetzOK, Tabelle
<1> QED BY <1>4, <1>5 DEF NetzOK, FinEmpfangen, Zeitueberschreitung, SocketFrei
=============================================================================
