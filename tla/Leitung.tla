------------------------------ MODULE Leitung ------------------------------
(***************************************************************************)
(* What a telex line promises, without sockets, buffers and timers: the    *)
(* abstract specification that Verbindung implements.                      *)
(*                                                                         *)
(* A line is in one phase: at rest, seized by its own terminal ("Gehend"), *)
(* taken by a caller ("Kommend"), printing a message of its own ("Eigen"), *)
(* being released ("Abbau") or switched off ("Aus").  It has at most one   *)
(* partner.  A loss of the connection that is repaired is not visible.     *)
(***************************************************************************)
CONSTANTS Gegenstellen, Niemand

VARIABLES
    phase,    \* what the line is used for
    mode,     \* "Idle", or who made the call: "Originate", "Answer"
    partner   \* the station at the other end, Niemand without a call

leitung == <<phase, mode, partner>>

Phasen == {"Ruhe", "Gehend", "Kommend", "Eigen", "Abbau", "Aus"}

Init == phase = "Ruhe" /\ mode = "Idle" /\ partner = Niemand

(* The own terminal takes the line at rest, or the station does to print.  *)
Belegen ==
    /\ phase = "Ruhe" /\ phase' \in {"Gehend", "Eigen"}
    /\ UNCHANGED <<mode, partner>>

(* A caller takes the line: at rest only. *)
Annehmen ==
    /\ phase = "Ruhe" /\ mode = "Idle"
    /\ phase' = "Kommend" /\ mode' = "Answer" /\ partner' \in Gegenstellen

(* The terminal that has seized the line calls, again if a call has ended. *)
Anrufen ==
    /\ phase = "Gehend" /\ mode = "Idle"
    /\ mode' = "Originate" /\ partner' \in Gegenstellen
    /\ UNCHANGED phase

(* A call ends for the network, in whatever phase. *)
Trennen ==
    /\ mode # "Idle"
    /\ mode' = "Idle" /\ partner' = Niemand
    /\ UNCHANGED phase

(* The line is released; its call may go on for a while. *)
Freigeben ==
    /\ phase # "Abbau" /\ phase' = "Abbau"
    /\ UNCHANGED <<mode, partner>>

(* A released line comes to rest when its call has ended. *)
Ruhen ==
    /\ phase = "Abbau" /\ mode = "Idle" /\ phase' = "Ruhe"
    /\ UNCHANGED <<mode, partner>>

Ausschalten ==
    /\ phase = "Ruhe" /\ phase' = "Aus"
    /\ UNCHANGED <<mode, partner>>

Next == Belegen \/ Annehmen \/ Anrufen \/ Trennen \/ Freigeben \/ Ruhen \/ Ausschalten

Spec == Init /\ [][Next]_leitung
=============================================================================
