---------------------------- MODULE TcpSockets ----------------------------
(***************************************************************************)
(* The socket table of system/net/tcp.c as the i-Telex thread sees it.     *)
(*                                                                         *)
(* The table has MAX_TCP_CONNECTIONS entries.  The Ethernet interrupt      *)
(* changes them (SYN, data, FIN, ACK, the one second timeout handler); the *)
(* main loop polls them through CheckPortRequest, CheckSocketState,        *)
(* GetSocketData, PutSocketData, Connect2IP and CloseTCPSocket.  A socket  *)
(* handle is an index, so nothing tells two connections apart that used    *)
(* one entry after the other.                                              *)
(*                                                                         *)
(* Abstracted: sequence numbers, windows, MAC addresses and the contents   *)
(* of segments.  A telegram is its kind, with the partner who really sent  *)
(* it as a ghost tag.  The counters anrufe and tele bound what the network *)
(* still sends.                                                            *)
(***************************************************************************)
EXTENDS Integers, Sequences

CONSTANTS
    MAX_TCP_CONNECTIONS,  \* entries of TCP_sockettable
    Gegenstellen,         \* the remote stations (their IP addresses)
    Telegramme,           \* the kinds of telegram the remote stations send
    MaxRx,                \* telegrams that fit the receive FIFO of an entry
    MaxAnrufe,            \* bound: connections that still come about
    MaxTele               \* bound: telegrams the network still delivers

CONSTANT Niemand          \* SourceIP 0: no partner

(* A block of data is its head and its rest.  "Ende" is ENDE or STOP.       *)
(* "Confirm" and "Call" come from a Centralex server only.                 *)
AlleTelegramme ==
    {"Null", "Durchwahl", "Kopf", "Rest", "Ende", "Quitt", "Version", "Ascii",
     "Confirm", "Call"}

ASSUME TcpAnnahme ==
    /\ MAX_TCP_CONNECTIONS \in Nat \ {0}
    /\ Telegramme \subseteq AlleTelegramme
    /\ Niemand \notin Gegenstellen
    /\ MaxRx \in Nat \ {0} /\ MaxAnrufe \in Nat /\ MaxTele \in Nat

Slots == 0 .. MAX_TCP_CONNECTIONS - 1

(* NO_SOCKET_USED and SOCKET_ERROR are both -1. *)
NO_SOCKET_USED == -1

(* "Ready2Use" also stands for the handshake states before it: neither the *)
(* poll nor a send or close by the main loop touches such an entry.        *)
SocketStates == {"NotUse", "Ready2Use", "Ready", "Wait2FinAck", "Wait2Fin"}

Item == [art: AlleTelegramme, von: Gegenstellen]

Socket == [st: SocketStates, peer: Gegenstellen \cup {Niemand},
           rx: Seq(Item), offen: BOOLEAN]

VARIABLES
    tcp,     \* TCP_sockettable: state, SourceIP, receive FIFO; offen is a
             \* ghost: the partner has sent the head of a block, not its rest
    anrufe,  \* connections that may still come about, in either direction
    tele     \* telegrams the network may still deliver

netz == <<tcp, anrufe, tele>>

TcpTyp ==
    /\ tcp \in [Slots -> Socket]
    /\ anrufe \in Nat
    /\ tele \in Nat

LeererSocket == [st |-> "NotUse", peer |-> Niemand, rx |-> << >>, offen |-> FALSE]

(* RegisterSocket and Connect2IP overwrite the whole entry, the FIFO is flushed. *)
NeuerSocket(zustand, p) == [st |-> zustand, peer |-> p, rx |-> << >>, offen |-> FALSE]

TcpInit ==
    /\ tcp = [s \in Slots |-> LeererSocket]
    /\ anrufe = MaxAnrufe
    /\ tele = MaxTele

(* Getfreesocket: the lowest entry that is SOCKET_NOT_USE. *)
Getfreesocket(s) ==
    /\ tcp[s].st = "NotUse"
    /\ \A t \in Slots : tcp[t].st = "NotUse" => s <= t

(***************************************************************************)
(* The interrupt side.                                                     *)
(***************************************************************************)

(* A SYN takes an entry and the handshake completes. *)
SynEmpfangen(s, p) ==
    /\ anrufe > 0
    /\ Getfreesocket(s)
    /\ tcp' = [tcp EXCEPT ![s] = NeuerSocket("Ready2Use", p)]
    /\ anrufe' = anrufe - 1
    /\ UNCHANGED tele

(* A segment is copied to the FIFO of the entry, whatever the main loop    *)
(* does with it later.  After the head of a block comes its rest, which    *)
(* costs nothing of the bound tele: the partner began it.                  *)
DatenEmpfangen(s, art) ==
    /\ tcp[s].st \in {"Ready2Use", "Ready", "Wait2FinAck"}
    /\ Len(tcp[s].rx) < MaxRx
    /\ tcp[s].offen <=> art = "Rest"
    /\ art # "Rest" => tele > 0
    /\ tele' = IF art = "Rest" THEN tele ELSE tele - 1
    /\ tcp' = [tcp EXCEPT ![s].rx = Append(@, [art |-> art, von |-> tcp[s].peer]),
                          ![s].offen = (art = "Kopf")]
    /\ UNCHANGED anrufe

(* The partner closes: answered in SOCKET_READY only. *)
FinEmpfangen(s) ==
    /\ tcp[s].st = "Ready"
    /\ tcp' = [tcp EXCEPT ![s].st = "Wait2Fin"]
    /\ UNCHANGED <<anrufe, tele>>

(* TCPTimeOutHandler: ten seconds before the timeout of a silent partner it *)
(* sends a FIN of its own.                                                  *)
Zeitueberschreitung(s) ==
    /\ tcp[s].st \in {"Ready2Use", "Ready"}
    /\ tcp' = [tcp EXCEPT ![s].st = "Wait2FinAck"]
    /\ UNCHANGED <<anrufe, tele>>

(* The closing handshake ends, by the partner's answer or by the timeout.  *)
(* The entry is free at once; SourceIP and FIFO stay as they are.          *)
SocketFrei(s) ==
    /\ tcp[s].st \in {"Wait2Fin", "Wait2FinAck"}
    /\ tcp' = [tcp EXCEPT ![s].st = "NotUse"]
    /\ UNCHANGED <<anrufe, tele>>

(***************************************************************************)
(* What the main loop calls.  Operators on the table t; -1 is tolerated.   *)
(***************************************************************************)

(* Entries CheckPortRequest may find. *)
Wartend == {s \in Slots : tcp[s].st = "Ready2Use"}

(* CheckPortRequest: every entry of the scan that has a smaller time left  *)
(* than those before it becomes SOCKET_READY, only the last is returned.   *)
(* With the times left to the network, that is any non-empty set K.        *)
PortRequest(K, neu) ==
    /\ K \in SUBSET Wartend
    /\ neu \in K
    /\ \A k \in K : k <= neu

Angenommen(t, K) == [s \in Slots |-> IF s \in K THEN [t[s] EXCEPT !.st = "Ready"] ELSE t[s]]

CheckSocketState(t, h) == IF h \in Slots THEN t[h].st ELSE "Fehler"

(* CloseTCPSocket acts on SOCKET_READY only; it waits for the handshake or *)
(* its timeout and leaves the entry free either way.                       *)
CloseTCPSocket(t, h) ==
    IF h \in Slots /\ t[h].st = "Ready" THEN [t EXCEPT ![h].st = "NotUse"] ELSE t
=============================================================================
