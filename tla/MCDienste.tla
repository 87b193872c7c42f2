------------------------------ MODULE MCDienste ------------------------------
(***************************************************************************)
(* Components that share no state, each checked by itself in one run: the  *)
(* initial state says which one it is, the others stay as they begin.      *)
(***************************************************************************)
EXTENDS TlnBuch, TcpStrom

CONSTANTS Dienste \* which of them

VARIABLE dienst
dienstVars == <<dienst, tbVars, stVars>>

MCFassung == {[nr |-> x[1], gr |-> x[2], lokal |-> x[3], geloescht |-> x[4]] :
    x \in {<<1, 1, FALSE, TRUE>>, <<1, 2, FALSE, FALSE>>, <<2, 1, FALSE, FALSE>>, <<2, 2, FALSE, FALSE>>,
           <<3, 1, FALSE, FALSE>>, <<3, 2, TRUE, FALSE>>}}

DienstInit ==
    /\ dienst \in Dienste
    /\ TbInit /\ (dienst # "Buch" => tb = << >> /\ tbTeil = "keiner")
    /\ StInit /\ (dienst # "Strom" => stSender.art = "fremd")

DienstNext ==
    \/ dienst = "Buch"  /\ TbNext /\ UNCHANGED <<dienst, stVars>>
    \/ dienst = "Strom" /\ StNext /\ UNCHANGED <<dienst, tbVars>>

DienstSpec == DienstInit /\ [][DienstNext]_dienstVars
=============================================================================
