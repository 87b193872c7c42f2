---------------------------- MODULE MCTlnServer ----------------------------
EXTENDS TlnServer
CONSTANTS s1, s2, n1, n2

(* Three situations: disturbances among the servers from the start on; or, *)
(* after the full queries and at the end of the time the bound allows, a   *)
(* station that calls, or two telegrams of stations and no changes.        *)
Ungestoert == zeit = MaxZeit /\ stoerungen = 0 /\ \A s \in Server : vollErfolg[s]

LagenInit ==
    /\ TlnInit
    /\ \/ zeit = 1 /\ aenderungen = MaxAenderungen /\ stoerungen = MaxStoerungen /\ fremde = 0
          /\ \A s \in Server : ~vollErfolg[s]
       \/ Ungestoert /\ aenderungen = MaxAenderungen /\ fremde = 1
       \/ Ungestoert /\ aenderungen = 0 /\ fremde = MaxFremd

LagenSpec == LagenInit /\ [][TlnNext]_tlnVars /\ TlnFairness
=============================================================================
