--------------------------- MODULE MCVerbindung ---------------------------
(* Instances of Verbindung for TLC; the values are in the .cfg files. *)
EXTENDS Verbindung, TLC

(* The callers are interchangeable when none of them can be dialled. *)
Symmetrie == Permutations(Gegenstellen)
=============================================================================
