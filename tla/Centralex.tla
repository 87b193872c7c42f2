----------------------------- MODULE Centralex -----------------------------
(***************************************************************************)
(* The Centralex client (iTelex/Centralex.c): while the line is at rest it *)
(* keeps a connection to a Centralex server, over which the server can     *)
(* hand a call to the line.                                                *)
(*                                                                         *)
(* Composition of three parts over one socket table (TcpSockets): the      *)
(* client, one CentralexProcess in four blocks; the line, as far as        *)
(* Centralex sees it, in the steps of its specification Leitung (which     *)
(* Verbindung implements) and with the table entries it holds; and the     *)
(* network.  pc = "Leitung" is the rest of the main loop; the Ethernet     *)
(* interrupt may come before every block.                                  *)
(*                                                                         *)
(* Abstracted: lengths and contents of the telegrams, the length of the    *)
(* pauses, the order of the configured servers, messages and the log.      *)
(***************************************************************************)
EXTENDS TcpSockets, FiniteSets

CONSTANTS
    Zentralen,    \* the configured servers
    CxBufMax,     \* telegrams that fit CentralexBuffer
    FalschGrenze, \* refusals (wrong PIN) that switch the client off
    Protokolliert, \* the log level is AblaufInfo or higher
    Neuvergabe,   \* see Verbindung: FALSE restricts the histories
    Selbst        \* the station itself, as the author of a telegram

ASSUME CentralexAnnahme ==
    /\ Zentralen \subseteq Gegenstellen /\ Zentralen # {}
    /\ CxBufMax \in Nat \ {0} /\ FalschGrenze \in Nat
    /\ {Protokolliert, Neuvergabe} \subseteq BOOLEAN
    /\ Selbst \notin Gegenstellen \cup {Niemand}

LinkStates ==
    {"Disconnected", "AwaitingConfirmation", "Connected", "StopPending", "Disconnecting"}

Bloecke == {"Leitung", "Verlust", "Aufbau", "Senden"}

(* The static variables of Centralex.c, and FalschGeheimzahlZaehler. *)
Client ==
    [link: LinkStates,                     \* CentralexLinkState
     handle: Slots \cup {NO_SOCKET_USED},  \* CentralexSocketHandle
     buf: Seq([art: AlleTelegramme \cup {"Anmeldung"}, von: Gegenstellen \cup {Selbst}]),
                                           \* CentralexBuffer, received or own
     server: Zentralen,                    \* CentralexServerIndex
     enabled: BOOLEAN,                     \* CentralexEnabled
     falsch: 0 .. FalschGrenze]            \* FalschGeheimzahlZaehler

VARIABLES
    phase, mode, partner,  \* the line, see Leitung
    belegt,                \* the entries to which the line has handles
    cx,                    \* the client
    pc                     \* the block that runs next

leitung == <<phase, mode, partner>>
vars == <<tcp, anrufe, tele, phase, mode, partner, belegt, cx, pc>>

L == INSTANCE Leitung

CxTyp ==
    /\ TcpTyp
    /\ phase \in L!Phasen /\ mode \in {"Idle", "Originate", "Answer"}
    /\ partner \in Gegenstellen \cup {Niemand}
    /\ belegt \subseteq Slots
    /\ cx \in Client /\ Len(cx.buf) <= CxBufMax
    /\ pc \in Bloecke

ErsterServer == CHOOSE z \in Zentralen : TRUE

(* CentralexInitialize, with the client switched on by the configuration. *)
Init ==
    /\ TcpInit
    /\ L!Init
    /\ belegt = {}
    /\ cx = [link |-> "Disconnected", handle |-> NO_SOCKET_USED, buf |-> << >>,
             server |-> ErsterServer, enabled |-> TRUE, falsch |-> 0]
    /\ pc = "Leitung"

(***************************************************************************)
(* The line between two calls of CentralexProcess: the steps of Leitung,   *)
(* with the sockets that its calls take.                                   *)
(***************************************************************************)
FreierEintrag(s) ==
    Getfreesocket(s) /\ (Neuvergabe \/ s \notin belegt \cup {cx.handle})

(* A caller is accepted, for a call or for the busy signal. *)
LeitungNimmt(K, neu) ==
    /\ PortRequest(K, neu)
    /\ tcp' = Angenommen(tcp, K)
    /\ belegt' = belegt \cup {neu}
    /\ UNCHANGED <<anrufe, tele>>

LeitungOeffnet(s, p) ==
    /\ anrufe > 0 /\ FreierEintrag(s)
    /\ tcp' = [tcp EXCEPT ![s] = NeuerSocket("Ready", p)]
    /\ anrufe' = anrufe - 1
    /\ belegt' = belegt \cup {s}
    /\ UNCHANGED tele

LeitungGibt(s) ==
    /\ s \in belegt
    /\ tcp' = CloseTCPSocket(tcp, s)
    /\ belegt' = belegt \ {s}
    /\ UNCHANGED <<anrufe, tele>>

LeitungsSchritt ==
    /\ pc = "Leitung"
    /\ \/ \E K \in SUBSET Slots, neu \in Slots :
            /\ LeitungNimmt(K, neu)
            /\ UNCHANGED leitung \/ (L!Annehmen /\ partner' = tcp[neu].peer)
       \/ \E s \in Slots, p \in Gegenstellen :
            /\ LeitungOeffnet(s, p)
            /\ UNCHANGED leitung \/ (L!Anrufen /\ partner' = p)
       \/ \E s \in Slots : LeitungGibt(s) /\ UNCHANGED leitung
       \/ /\ L!Belegen \/ L!Trennen \/ L!Freigeben \/ L!Ruhen \/ L!Ausschalten
          /\ UNCHANGED <<netz, belegt>>
    /\ UNCHANGED <<cx, pc>>

(* The configuration page is served by another thread of the main loop. *)
Konfigurieren ==
    /\ pc = "Leitung"
    /\ \E an \in BOOLEAN : cx' = [cx EXCEPT !.enabled = an, !.falsch = 0]
    /\ UNCHANGED <<netz, leitung, belegt, pc>>

(***************************************************************************)
(* Helpers of Centralex.c.                                                 *)
(***************************************************************************)
(* SelectNextCentralexServer goes round the configured servers. *)
AndererServer(x) ==
    {[x EXCEPT !.server = z] :
        z \in IF Zentralen = {x.server} THEN Zentralen ELSE Zentralen \ {x.server}}

OhneSocket(x) ==
    [x EXCEPT !.handle = NO_SOCKET_USED, !.link = "Disconnected", !.buf = << >>]

(* Mutant: the limit is noticed one refusal too late. *)
FalschGemeldetZuSpaet(x) ==
    IF x.falsch <= FalschGrenze THEN [x EXCEPT !.falsch = @ + 1]
    ELSE [x EXCEPT !.enabled = FALSE]

(* FalschGeheimzahlWurdeGemeldet *)
FalschGemeldet(x) ==
    IF x.falsch < FalschGrenze THEN [x EXCEPT !.falsch = @ + 1]
    ELSE [x EXCEPT !.enabled = FALSE]

(* A telegram of the station in CentralexBuffer. *)
Eigenes(art) == <<[art |-> art, von |-> Selbst]>>

(* SendCentralexBuffer: sent, or the connection is closed and the next     *)
(* server is chosen.                                                       *)
Gesendet(x) ==
    /\ CheckSocketState(tcp, x.handle) = "Ready"
    /\ cx' = [x EXCEPT !.buf = << >>]
    /\ tcp' = tcp

(* Mutant: the link state is kept when the socket is given up. *)
SendefehlerOhneZustand(x) ==
    /\ cx' \in AndererServer([x EXCEPT !.handle = NO_SOCKET_USED, !.buf = << >>])
    /\ tcp' = CloseTCPSocket(tcp, x.handle)

Sendefehler(x) ==
    /\ cx' \in AndererServer(OhneSocket(x))
    /\ tcp' = CloseTCPSocket(tcp, x.handle)

(***************************************************************************)
(* First block: receive, and evaluate the first telegram of the buffer.    *)
(***************************************************************************)
Kleiner(a, b) == IF a < b THEN a ELSE b

Empfangen == IF cx.handle = NO_SOCKET_USED THEN << >> ELSE tcp[cx.handle].rx

Anzahl == Kleiner(Len(Empfangen), CxBufMax - Len(cx.buf))

NachEmpfang == [cx EXCEPT !.buf = @ \o SubSeq(Empfangen, 1, Anzahl)]

NachEmpfangTcp ==
    IF cx.handle = NO_SOCKET_USED THEN tcp
    ELSE [tcp EXCEPT ![cx.handle].rx = SubSeq(@, Anzahl + 1, Len(@))]

Verarbeitet(neu) == cx' = neu /\ tcp' = NachEmpfangTcp /\ pc' = "Verlust"

NichtsEmpfangen(x) == x.buf = << >> /\ Verarbeitet(x) /\ UNCHANGED <<leitung, belegt>>

Bestaetigung(x) ==
    Verarbeitet([x EXCEPT !.link = IF @ = "AwaitingConfirmation" THEN "Connected" ELSE @,
                          !.falsch = 0, !.buf = Tail(@)])

LeitungFrei == phase = "Ruhe" /\ mode = "Idle"

(* Mutant: the client keeps its handle to the socket. *)
RufUebergebenMitHandle(x) ==
    /\ LeitungFrei
    /\ CheckSocketState(tcp, x.handle) = "Ready"
    /\ cx' = [x EXCEPT !.link = "Disconnected", !.buf = << >>]
    /\ tcp' = NachEmpfangTcp
    /\ belegt' = belegt \cup {x.handle}
    /\ phase' = "Kommend" /\ mode' = "Answer" /\ partner' = tcp[x.handle].peer
    /\ pc' = "Leitung"

(* The call is confirmed and the socket handed to the line. *)
RufUebergeben(x) ==
    /\ LeitungFrei
    /\ CheckSocketState(tcp, x.handle) = "Ready"
    /\ cx' = OhneSocket(x)
    /\ tcp' = NachEmpfangTcp
    /\ belegt' = belegt \cup {x.handle}
    /\ phase' = "Kommend" /\ mode' = "Answer" /\ partner' = tcp[x.handle].peer
    /\ pc' = "Leitung"

(* The confirmation is not sent.  The line is initialised all the same,    *)
(* with the handle NO_SOCKET_USED; its partner is read before the table.   *)
RufOhneSocket(x) ==
    /\ LeitungFrei
    /\ cx' \in AndererServer(OhneSocket(x))
    /\ tcp' = CloseTCPSocket(NachEmpfangTcp, x.handle)
    /\ phase' = "Kommend" /\ mode' = "Answer" /\ partner' \in Gegenstellen \cup {Niemand}
    /\ pc' = "Leitung"
    /\ UNCHANGED belegt

(* The line is not free: the rejection replaces the buffer. *)
RufAbweisen(x) ==
    /\ ~LeitungFrei
    /\ Verarbeitet([x EXCEPT !.buf = Eigenes("Ende")])
    /\ UNCHANGED <<leitung, belegt>>

(* STOP or END.  A STOP counts as a refusal of the PIN; the own rejection   *)
(* is one.                                                                 *)
ServerEnde(x) ==
    /\ \E y \in {FalschGemeldet(x)} \cup (IF x.buf[1].von = Selbst THEN {} ELSE {x}) :
         cx' \in AndererServer(OhneSocket(y))
    /\ tcp' = CloseTCPSocket(NachEmpfangTcp, x.handle)
    /\ pc' = "Verlust"

Telegramm(x) ==
    /\ x.buf # << >>
    /\ CASE x.buf[1].art = "Call" -> RufUebergeben(x) \/ RufOhneSocket(x) \/ RufAbweisen(x)
         [] x.buf[1].art = "Confirm" -> Bestaetigung(x) /\ UNCHANGED <<leitung, belegt>>
         [] x.buf[1].art = "Null" ->
              Verarbeitet([x EXCEPT !.buf = Tail(@)]) /\ UNCHANGED <<leitung, belegt>>
         [] x.buf[1].art = "Ende" -> ServerEnde(x) /\ UNCHANGED <<leitung, belegt>>
         [] OTHER -> Verarbeitet([x EXCEPT !.buf = << >>]) /\ UNCHANGED <<leitung, belegt>>

Empfang ==
    /\ pc = "Leitung"
    /\ LET x == NachEmpfang IN NichtsEmpfangen(x) \/ Telegramm(x)
    /\ UNCHANGED <<anrufe, tele>>

(***************************************************************************)
(* Second block: the server has closed the connection, or says nothing.    *)
(***************************************************************************)
Getrennt == cx.handle # NO_SOCKET_USED /\ CheckSocketState(tcp, cx.handle) = "NotUse"

(* The next server is chosen only if the log is detailed enough. *)
NachTrennung ==
    IF ~Getrennt THEN {cx}
    ELSE IF Protokolliert /\ cx.link # "Disconnecting" THEN AndererServer(OhneSocket(cx))
    ELSE {OhneSocket(cx)}

(* What is left in the buffer waits for the next pass. *)
Verlust ==
    /\ pc = "Verlust"
    /\ cx' \in NachTrennung
    /\ pc' = IF cx'.buf # << >> THEN "Leitung" ELSE "Aufbau"
    /\ UNCHANGED <<netz, leitung, belegt>>

(* No heartbeat for 35 s, no confirmation for 25 s. *)
Zeitablauf ==
    /\ pc = "Verlust" /\ ~Getrennt
    /\ cx.link \in {"Connected", "AwaitingConfirmation"}
    /\ cx' = [cx EXCEPT !.link = "StopPending"]
    /\ pc' = "Aufbau"
    /\ UNCHANGED <<netz, leitung, belegt>>

(***************************************************************************)
(* Third block: the connection is ended or established.                    *)
(***************************************************************************)
(* Mutant: a server that does not answer is not left. *)
TrennenNoetigOhneStop ==
    /\ phase # "Ruhe" \/ ~cx.enabled
    /\ cx.link \notin {"Disconnected", "Disconnecting"}

TrennenNoetig ==
    /\ phase # "Ruhe" \/ ~cx.enabled \/ cx.link = "StopPending"
    /\ cx.link \notin {"Disconnected", "Disconnecting"}

VerbindenNoetig == phase = "Ruhe" /\ cx.enabled /\ cx.link = "Disconnected"

Trennen ==
    /\ pc = "Aufbau" /\ TrennenNoetig
    /\ cx' = [cx EXCEPT !.link = "Disconnecting", !.buf = Eigenes("Ende")]
    /\ pc' = "Senden"
    /\ UNCHANGED <<netz, leitung, belegt>>

(* Nothing to do, or the pause before the next attempt is not over. *)
KeinAufbau ==
    /\ pc = "Aufbau" /\ ~TrennenNoetig
    /\ cx' = cx /\ pc' = "Senden"
    /\ UNCHANGED <<netz, leitung, belegt>>

AufbauGelingt ==
    /\ pc = "Aufbau" /\ VerbindenNoetig
    /\ anrufe > 0
    /\ \E s \in Slots :
         /\ FreierEintrag(s)
         /\ tcp' = [tcp EXCEPT ![s] = NeuerSocket("Ready", cx.server)]
         /\ cx' = [cx EXCEPT !.handle = s, !.link = "AwaitingConfirmation",
                             !.buf = Eigenes("Anmeldung")]
    /\ anrufe' = anrufe - 1
    /\ pc' = "Senden"
    /\ UNCHANGED <<tele, leitung, belegt>>

(* The name is unknown, or the server does not answer. *)
AufbauMisslingt ==
    /\ pc = "Aufbau" /\ VerbindenNoetig
    /\ cx' \in AndererServer(cx)
    /\ pc' = "Leitung"
    /\ UNCHANGED <<netz, leitung, belegt>>

(***************************************************************************)
(* Last block: what is in the buffer is sent, a heartbeat every 15 s; the  *)
(* socket is closed three seconds after the end was sent.                  *)
(***************************************************************************)
MitHerzschlag(x) ==
    IF x.link = "Connected" /\ x.buf = << >> THEN [x EXCEPT !.buf = Eigenes("Null")] ELSE x

Senden ==
    /\ pc = "Senden"
    /\ \E x \in {cx, MitHerzschlag(cx)} : x.buf # << >> /\ (Gesendet(x) \/ Sendefehler(x))
    /\ pc' = "Leitung"
    /\ UNCHANGED <<anrufe, tele, leitung, belegt>>

NichtsZuSenden ==
    /\ pc = "Senden" /\ cx.buf = << >>
    /\ pc' = "Leitung"
    /\ UNCHANGED <<netz, leitung, belegt, cx>>

SpaetesSchliessen ==
    /\ pc = "Senden" /\ cx.buf = << >>
    /\ cx.link = "Disconnecting"
    /\ tcp' = CloseTCPSocket(tcp, cx.handle)
    /\ cx' = OhneSocket(cx)
    /\ pc' = "Leitung"
    /\ UNCHANGED <<anrufe, tele, leitung, belegt>>

CentralexProcess ==
    \/ Empfang \/ Verlust \/ Zeitablauf \/ Trennen \/ KeinAufbau \/ AufbauGelingt
    \/ AufbauMisslingt \/ Senden \/ NichtsZuSenden \/ SpaetesSchliessen

(* The Ethernet interrupt.  What others receive is not read here. *)
Netz ==
    /\ \/ \E s \in Slots, p \in Gegenstellen :
            /\ Neuvergabe \/ s \notin belegt \cup {cx.handle}
            /\ SynEmpfangen(s, p)
       \/ /\ cx.handle # NO_SOCKET_USED
          /\ \E art \in Telegramme : DatenEmpfangen(cx.handle, art)
       \/ \E s \in Slots : FinEmpfangen(s) \/ Zeitueberschreitung(s) \/ SocketFrei(s)
    /\ UNCHANGED <<leitung, belegt, cx, pc>>

Next == LeitungsSchritt \/ Konfigurieren \/ CentralexProcess \/ Netz

Spec == Init /\ [][Next]_vars

(* The main loop goes on.  The time-outs and the late close happen if they *)
(* are possible again and again: the timers are started anew by telegrams, *)
(* of which there are finitely many, and by the steps themselves.          *)
FairSpec ==
    Spec /\ WF_vars(CentralexProcess) /\ SF_vars(Zeitablauf) /\ SF_vars(SpaetesSchliessen)

(***************************************************************************)
(* Properties.                                                             *)
(***************************************************************************)
(* Hazard: the link state and the handle are set at nine places.  Between  *)
(* two passes the client has a socket exactly when it is not disconnected, *)
(* what waits in its buffer belongs to that socket, and no end is left     *)
(* unsent.                                                                 *)
LinkMitSocket ==
    pc = "Leitung" =>
        /\ cx.link = "Disconnected" <=> cx.handle = NO_SOCKET_USED
        /\ cx.link # "StopPending"
        /\ cx.handle = NO_SOCKET_USED => cx.buf = << >>

(* Hazard: the socket of a call changes hands (346-349) while either side  *)
(* may be closing.  An entry of the table has one owner, and the client's  *)
(* socket leads to the server it has chosen.                               *)
EinBesitzer ==
    cx.handle # NO_SOCKET_USED => cx.handle \notin belegt /\ tcp[cx.handle].peer = cx.server

(* Hazard: a server that never confirms, or stops in the middle, must not  *)
(* keep the client waiting: every attempt and every end comes to an end,   *)
(* whatever the network loses.                                             *)
AnmeldungEndet ==
    cx.link \in {"AwaitingConfirmation", "StopPending", "Disconnecting"}
        ~> cx.link \in {"Connected", "Disconnected"}
=============================================================================
