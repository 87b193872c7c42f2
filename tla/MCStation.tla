------------------------------ MODULE MCStation ------------------------------
(***************************************************************************)
(* What a station does beside its calls, each part by itself in one run:   *)
(* it reports its address and calls itself; the file system under whatever *)
(* is asked of it; the log on top of the file system.  The initial state   *)
(* says which part it is.                                                  *)
(***************************************************************************)
EXTENDS DynIP, Protokoll

CONSTANTS Teile \* which parts

VARIABLE teil
stationVars == <<teil, diVars, prVars>>

StationInit ==
    /\ teil \in Teile
    /\ DiInit /\ (teil # "Adresse" => diNetz.pin)
    /\ PrInit

StationNext ==
    \/ teil = "Adresse"   /\ DiNext /\ UNCHANGED <<teil, prVars>>
    \/ teil = "Datei"     /\ FsNext /\ UNCHANGED <<teil, diVars, pr, prUart, prGesagt, prVerloren>>
    \/ teil = "Protokoll" /\ PrNext /\ UNCHANGED <<teil, diVars>>

(* What the main loop and the network promise concerns the first part.     *)
StationSpec == StationInit /\ [][StationNext]_stationVars /\ DiFair
=============================================================================
