-------------------------------- MODULE MCSessions --------------------------------
(* Small instances of Sessions for TLC.                                    *)
EXTENDS Sessions, TLC

(* connections and session ids are told apart by nothing but their names   *)
Symmetry == {p @@ q : p \in Permutations(Conns), q \in Permutations(Sids)}
=============================================================================
