-------------------------------- MODULE MCWege --------------------------------
(***************************************************************************)
(* Parts that share no state, each checked by itself in one run: clients   *)
(* of the subscriber servers, the way of a character through two stations, *)
(* the serial converter.  The initial state says which one it is.          *)
(***************************************************************************)
EXTENDS TlnServer, Zeichenweg, Umsetzer, TLC

CONSTANTS s1, s2, n1, n2,
          Teile      \* which parts

VARIABLE teil
wegeVars == <<teil, tlnVars, zwVars, umVars>>

MCLokale == {<<s1, n2>>}
MCLage(a, b, eb, ab) == [tippt |-> [A |-> a, B |-> b], eigene |-> [A |-> 0, B |-> eb], abrisse |-> ab]
MCLagen == {MCLage(4, 0, 0, 0), MCLage(1, 0, 1, 0), MCLage(2, 0, 0, 1), MCLage(1, 1, 0, 0)}
MCUmZeichen == [hier |-> 2, dort |-> 1]

WegeInit ==
    /\ teil \in Teile
    /\ TlnInit /\ fremde = MaxFremd /\ aenderungen = MaxAenderungen /\ \A s \in Server : ~vollErfolg[s]
    /\ UmInit
    /\ ZwInit /\ (teil # "Weg" => zwLage = CHOOSE l \in MCLagen : TRUE)

WegeNext ==
    \/ teil = "Server"    /\ TlnNext /\ UNCHANGED <<teil, zwVars, umVars>>
    \/ teil = "Weg"       /\ ZwNext  /\ UNCHANGED <<teil, tlnVars, umVars>>
    \/ teil = "Umsetzer"  /\ UmNext  /\ UNCHANGED <<teil, tlnVars, zwVars>>

WegeSpec == WegeInit /\ [][WegeNext]_wegeVars

(* Every variable of these components keeps its range: no buffer of the    *)
(* way overruns (3214 to 3250) and no counter of the converter (1093 to    *)
(* 1187) leaves the bits it counts.                                        *)
WegeTyp == ZwTyp /\ UmTyp
=============================================================================
