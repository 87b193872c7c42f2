------------------------------- MODULE TcpStrom -------------------------------
(***************************************************************************)
(* The byte stream of one connection in one direction: what tcp.c (net)    *)
(* and fifo.c (buffer) do to the bytes of a caller of PutSocketData on the *)
(* way to a caller of GetSocketData.  The receiver is tcp.c.  The sender   *)
(* is either tcp.c too, as between two stations, which sends one packet    *)
(* and waits for its confirmation, or any other partner, which has several *)
(* packets on the way.  The connection is ready for use and stays so until *)
(* the sender gives up.                                                    *)
(*                                                                         *)
(* Packets may be lost, repeated and overtake each other: a packet, once   *)
(* sent, may arrive at any later time, any number of times or never.       *)
(*                                                                         *)
(* A byte is its place in the stream.  Sequence numbers begin at 0 and do  *)
(* not wrap.  There is always a free countdown timer: without one an       *)
(* attempt fails with its numbers moved on (tcp.c 972, 978), so that the   *)
(* next one sends the same bytes as new ones.                              *)
(***************************************************************************)
EXTENDS Integers, Sequences

CONSTANTS
    MAX_RECIVEBUFFER_LENGHT, \* the receive FIFO
    MAX_TCP_Datalenght,      \* the largest packet
    MAX_TCP_RETRANSMISSIONS, \* attempts
    StAbsender,              \* \subseteq {"tcp", "fremd"}
    StTelegramme,            \* how much a caller of PutSocketData may send
    StSegmente,              \* how much any other partner puts into a packet
    StLesen,                 \* buffers of the callers of GetSocketData
    StMaxBytes               \* bound: the length of the stream

ASSUME StAnnahme ==
    /\ {MAX_RECIVEBUFFER_LENGHT, MAX_TCP_Datalenght, MAX_TCP_RETRANSMISSIONS} \subseteq Nat \ {0}
    /\ StAbsender \subseteq {"tcp", "fremd"}
    /\ StTelegramme \subseteq Nat \ {0} /\ StSegmente \subseteq Nat \ {0} /\ StLesen \subseteq Nat \ {0}
    /\ StMaxBytes \in Nat

Platz == 0 .. MAX_RECIVEBUFFER_LENGHT - 1

VARIABLES
    stSender, \* art; lauf of PutSocketData_RPE; seq: SequenceNumber; von, laenge: the
              \* bytes of the packet; bis: the end of the call; zaehler:
              \* TransmissionCounter; sendet: SendetBytes # 0; bestaetigt: bytes
              \* of which the sender thinks that they have arrived; fenster
    stFifo,   \* FIFO_Table[fifo]: puffer, readpointer, writepointer, byteinbuffer
    stEmpf,   \* ack: AcknowledgeNumber; unsort: TCP_Unsort; gelesen: ghost, what the
              \* application has got
    stHin,    \* packets with data sent so far
    stHer     \* confirmations sent so far

stVars == <<stSender, stFifo, stEmpf, stHin, stHer>>

(***************************************************************************)
(* fifo.c                                                                  *)
(***************************************************************************)
Restsize == MAX_RECIVEBUFFER_LENGHT - stFifo.byteinbuffer

(* A pointer after n bytes: the fast copy leaves it before the end, the    *)
(* copy byte by byte turns it round when it reaches the end.               *)
\* (Mutant: <=.)
WeiterZuSpaet(p, n) == IF p + n <= MAX_RECIVEBUFFER_LENGHT THEN p + n ELSE p + n - MAX_RECIVEBUFFER_LENGHT

Weiter(p, n) == IF p + n < MAX_RECIVEBUFFER_LENGHT THEN p + n ELSE p + n - MAX_RECIVEBUFFER_LENGHT

(* How far place k is ahead of pointer p. *)
Abstand(k, p) == IF k >= p THEN k - p ELSE k - p + MAX_RECIVEBUFFER_LENGHT

(* Mutant: the fast copy forgets to count. *)
Put_BlockOhneZaehlen(f, von, n) ==
    IF MAX_RECIVEBUFFER_LENGHT - f.byteinbuffer < n THEN f
    ELSE [puffer |-> [k \in Platz |-> IF Abstand(k, f.writepointer) < n
                                      THEN von + Abstand(k, f.writepointer) ELSE f.puffer[k]],
          readpointer |-> f.readpointer,
          writepointer |-> Weiter(f.writepointer, n),
          byteinbuffer |-> IF f.writepointer + n < MAX_RECIVEBUFFER_LENGHT THEN f.byteinbuffer ELSE f.byteinbuffer + n]

Put_Block_in_FIFO(f, von, n) ==
    IF MAX_RECIVEBUFFER_LENGHT - f.byteinbuffer < n THEN f
    ELSE [puffer |-> [k \in Platz |-> IF Abstand(k, f.writepointer) < n
                                      THEN von + Abstand(k, f.writepointer) ELSE f.puffer[k]],
          readpointer |-> f.readpointer,
          writepointer |-> Weiter(f.writepointer, n),
          byteinbuffer |-> f.byteinbuffer + n]

Get_Block_from_FIFO(f, n) == [f EXCEPT !.readpointer = Weiter(@, n), !.byteinbuffer = @ - n]

(* The next n bytes to be read. *)
Inhalt(f, n) == [i \in 1 .. n |-> f.puffer[Weiter(f.readpointer, i - 1)]]

(***************************************************************************)
(* The receiver: tcp(), a packet with data.                                *)
(***************************************************************************)
KeinPaket == [seq |-> 0, von |-> 0, laenge |-> 0]
Bestaetigung(n, f) == [ack |-> n, fenster |-> MAX_RECIVEBUFFER_LENGHT - f.byteinbuffer]

(* A number of the wrong byte order: not one that the sender waits for. *)
Verdreht == -1

(* In order.  What was put aside is added, if it comes next; the number    *)
(* confirmed then is reckoned with the length of the packet just come.     *)
\* (Mutant: any packet that fits.)
InFolgeOhnePruefung(p) ==
    LET f == Put_Block_in_FIFO(stFifo, p.von, p.laenge)
    IN  /\ stFifo' = f
        /\ stEmpf' = [stEmpf EXCEPT !.ack = p.seq + p.laenge, !.unsort = KeinPaket]
        /\ stHer' = stHer \cup {Bestaetigung(p.seq + p.laenge, f)}

InFolge(p) ==
    LET f == Put_Block_in_FIFO(stFifo, p.von, p.laenge)
        u == stEmpf.unsort
        passt == u.laenge # 0 /\ u.seq = p.seq + p.laenge
        g == IF passt THEN Put_Block_in_FIFO(f, u.von, u.laenge) ELSE f
        ack == IF passt THEN u.seq + p.laenge ELSE p.seq + p.laenge
    IN  /\ stEmpf.ack = p.seq
        /\ stFifo' = g
        /\ stEmpf' = [stEmpf EXCEPT !.ack = ack, !.unsort = KeinPaket]
        /\ stHer' = stHer \cup {Bestaetigung(p.seq + p.laenge, f), Bestaetigung(ack, g)}

(* Come before: confirmed with a number out of the packet as it is. *)
Alt(p) ==
    /\ stEmpf.ack > p.seq
    /\ stHer' = stHer \cup {Bestaetigung(Verdreht, stFifo)}
    /\ UNCHANGED <<stFifo, stEmpf>>

(* Too early: put aside, if nothing is. *)
Verfrueht(p) ==
    /\ stEmpf.ack < p.seq
    /\ stEmpf' = [stEmpf EXCEPT !.unsort = IF @.laenge = 0 THEN p ELSE @]
    /\ UNCHANGED <<stFifo, stHer>>

(* A packet that does not fit is dropped without a word. *)
PaketKommt == \E p \in stHin :
    /\ p.laenge <= Restsize
    /\ InFolge(p) \/ Alt(p) \/ Verfrueht(p)
    /\ UNCHANGED <<stSender, stHin>>

(* There is one TCP_Unsort for all connections: packets of another one     *)
(* clear it, or take it.                                                   *)
AndereVerbindung ==
    /\ stEmpf.unsort # KeinPaket
    /\ stEmpf' = [stEmpf EXCEPT !.unsort = KeinPaket]
    /\ UNCHANGED <<stSender, stFifo, stHin, stHer>>

(* GetSocketData with a buffer of b bytes, GetByteFromSocketData with 1:   *)
(* a packet without data tells the partner of the room there is.           *)
GetSocketData(b) ==
    LET n == IF stFifo.byteinbuffer > b THEN b ELSE stFifo.byteinbuffer
        f == Get_Block_from_FIFO(stFifo, n)
    IN  /\ n > 0
        /\ stFifo' = f
        /\ stEmpf' = [stEmpf EXCEPT !.gelesen = @ \o Inhalt(stFifo, n)]
        /\ stHer' = IF f.byteinbuffer < MAX_RECIVEBUFFER_LENGHT \div 2
                    THEN stHer \cup {Bestaetigung(stEmpf.ack, f)} ELSE stHer
        /\ UNCHANGED <<stSender, stHin>>

(* Data of its own, or any other sign of life, confirm the stream too. *)
Lebenszeichen ==
    /\ stHer' = stHer \cup {Bestaetigung(stEmpf.ack, stFifo)}
    /\ UNCHANGED <<stSender, stFifo, stEmpf, stHin>>

(***************************************************************************)
(* tcp.c as sender.                                                        *)
(***************************************************************************)

(* SendData_RPE: the packet that begins at byte von, for the zaehler-th    *)
(* time.                                                                   *)
SendData(s, von, zaehler) ==
    LET n == IF s.bis - von < MAX_TCP_Datalenght THEN s.bis - von ELSE MAX_TCP_Datalenght
    IN  /\ stHin' = stHin \cup {[seq |-> s.seq, von |-> von, laenge |-> n]}
        /\ stSender' = [s EXCEPT !.lauf = "Wartet", !.von = von, !.laenge = n, !.zaehler = zaehler,
                                 !.seq = @ + n, !.sendet = TRUE]
        /\ UNCHANGED <<stFifo, stEmpf, stHer>>

PutSocketData(n) ==
    /\ stSender.art = "tcp" /\ stSender.lauf = "Ruhe"
    /\ stSender.bis + n <= StMaxBytes
    /\ SendData([stSender EXCEPT !.bis = @ + n], stSender.bis, 0)

(* The wait ends; that the time is over is seen first, even if the         *)
(* confirmation has come.                                                  *)
ZeitUm ==
    /\ stSender.lauf = "Wartet"
    /\ stSender' = [stSender EXCEPT !.lauf = "Erneut", !.zaehler = @ + 1, !.seq = @ - stSender.laenge]
    /\ UNCHANGED <<stFifo, stEmpf, stHin, stHer>>

(* (Between the two the confirmation may come: it is not recognised.) *)
Wiederholen ==
    /\ stSender.lauf = "Erneut" /\ stSender.zaehler < MAX_TCP_RETRANSMISSIONS
    /\ SendData(stSender, stSender.von, stSender.zaehler)

(* Every attempt was in vain.  If another full packet follows, that is     *)
(* forgotten; else the connection is closed and the caller told.           *)
Aufgeben ==
    /\ stSender.lauf = "Erneut" /\ stSender.zaehler = MAX_TCP_RETRANSMISSIONS
    /\ IF stSender.bis - stSender.von >= 2 * MAX_TCP_Datalenght
       THEN SendData(stSender, stSender.von + stSender.laenge, 0)
       ELSE /\ stSender' = [stSender EXCEPT !.lauf = "Zu"]
            /\ UNCHANGED <<stFifo, stEmpf, stHin, stHer>>

(* Confirmed: the next packet, or the caller is told of the success. *)
\* (Mutant: SendetBytes is not waited for.)
FertigOhneWarten ==
    /\ stSender.lauf = "Wartet"
    /\ IF stSender.von + stSender.laenge < stSender.bis
       THEN SendData(stSender, stSender.von + stSender.laenge, 0)
       ELSE /\ stSender' = [stSender EXCEPT !.lauf = "Ruhe", !.bestaetigt = stSender.bis]
            /\ UNCHANGED <<stFifo, stEmpf, stHin, stHer>>

Fertig ==
    /\ stSender.lauf = "Wartet" /\ ~stSender.sendet
    /\ IF stSender.von + stSender.laenge < stSender.bis
       THEN SendData(stSender, stSender.von + stSender.laenge, 0)
       ELSE /\ stSender' = [stSender EXCEPT !.lauf = "Ruhe", !.bestaetigt = stSender.bis]
            /\ UNCHANGED <<stFifo, stEmpf, stHin, stHer>>

(* tcp(), a confirmation: only the number waited for counts. *)
AckKommt == \E q \in stHer :
    /\ stSender.art = "tcp" /\ stSender.lauf # "Zu"
    /\ stSender.sendet /\ q.ack = stSender.seq
    /\ stSender' = [stSender EXCEPT !.sendet = FALSE]
    /\ UNCHANGED <<stFifo, stEmpf, stHin, stHer>>

(***************************************************************************)
(* Any other partner: packets as the window allows, and again.             *)
(***************************************************************************)
PartnerSendet(n) ==
    /\ stSender.art = "fremd"
    /\ stSender.seq + n <= StMaxBytes /\ stSender.seq + n <= stSender.bestaetigt + stSender.fenster
    /\ stHin' = stHin \cup {[seq |-> stSender.seq, von |-> stSender.seq, laenge |-> n]}
    /\ stSender' = [stSender EXCEPT !.seq = @ + n]
    /\ UNCHANGED <<stFifo, stEmpf, stHer>>

PartnerWiederholt(n) ==
    /\ stSender.art = "fremd" /\ stSender.bestaetigt + n <= stSender.seq
    /\ stHin' = stHin \cup {[seq |-> stSender.bestaetigt, von |-> stSender.bestaetigt, laenge |-> n]}
    /\ UNCHANGED <<stSender, stFifo, stEmpf, stHer>>

PartnerAck == \E q \in stHer :
    /\ stSender.art = "fremd" /\ q.ack >= stSender.bestaetigt /\ q.ack <= stSender.seq
    /\ stSender' = [stSender EXCEPT !.bestaetigt = q.ack, !.fenster = q.fenster]
    /\ UNCHANGED <<stFifo, stEmpf, stHin, stHer>>

(***************************************************************************)
StInit ==
    /\ stSender \in [art : StAbsender, lauf : {"Ruhe"}, seq : {0}, von : {0}, laenge : {0}, bis : {0},
                     zaehler : {0}, sendet : {FALSE}, bestaetigt : {0}, fenster : {MAX_RECIVEBUFFER_LENGHT}]
    /\ stFifo = [puffer |-> [k \in Platz |-> 0], readpointer |-> 0, writepointer |-> 0, byteinbuffer |-> 0]
    /\ stEmpf = [ack |-> 0, unsort |-> KeinPaket, gelesen |-> << >>]
    /\ stHin = {} /\ stHer = {}

StNext ==
    \/ PaketKommt
    \/ AndereVerbindung
    \/ \E b \in StLesen : GetSocketData(b)
    \/ Lebenszeichen
    \/ \E n \in StTelegramme : PutSocketData(n)
    \/ ZeitUm
    \/ Wiederholen
    \/ Aufgeben
    \/ Fertig
    \/ AckKommt
    \/ \E n \in StSegmente : PartnerSendet(n)
    \/ \E n \in StSegmente : PartnerWiederholt(n)
    \/ PartnerAck

StSpec == StInit /\ [][StNext]_stVars

(***************************************************************************)
(* Properties.                                                             *)
(***************************************************************************)
Paket == [seq : Nat, von : Nat, laenge : Nat]

(* Types: the pointers of the FIFO (fifo.c) stay inside its buffer.        *)
StTyp ==
    /\ stSender \in [art : StAbsender, lauf : {"Ruhe", "Wartet", "Erneut", "Zu"}, seq : Nat, von : Nat,
                     laenge : Nat, bis : Nat, zaehler : 0 .. MAX_TCP_RETRANSMISSIONS, sendet : BOOLEAN,
                     bestaetigt : Nat, fenster : Nat]
    /\ stFifo \in [puffer : [Platz -> Nat], readpointer : Platz, writepointer : Platz,
                   byteinbuffer : 0 .. MAX_RECIVEBUFFER_LENGHT]
    /\ stEmpf \in [ack : Nat, unsort : Paket, gelesen : Seq(Nat)]
    /\ stHin \subseteq Paket
    /\ stHer \subseteq [ack : Nat \cup {Verdreht}, fenster : Nat]

(* The three numbers that fifo.c keeps of a buffer agree: the write        *)
(* pointer is byteinbuffer places ahead of the read pointer, whatever was  *)
(* copied fast, byte by byte, or refused.                                  *)
RingPasst == stFifo.writepointer = Weiter(stFifo.readpointer, stFifo.byteinbuffer)

(* What the application has read, and what it will read, are the bytes of  *)
(* the stream, each once and in order, whatever was lost, repeated or      *)
(* overtaken (tcp.c, in the comment at 301: "damit sie nicht verloren      *)
(* gehen").                                                                *)
StromTreu ==
    LET alles == stEmpf.gelesen \o Inhalt(stFifo, stFifo.byteinbuffer)
    IN  \A i \in DOMAIN alles : alles[i] = i - 1

(* No byte is thought to have arrived, by a caller of PutSocketData that   *)
(* was told of success or by another sender, that is not in the receiver's *)
(* FIFO.                                                                   *)
ErfolgHeisstDa == stSender.bestaetigt <= Len(stEmpf.gelesen) + stFifo.byteinbuffer
===============================================================================
