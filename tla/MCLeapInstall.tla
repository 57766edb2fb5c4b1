---------------------------- MODULE MCLeapInstall ----------------------------
EXTENDS LeapInstall

(* One announcement, its withdrawal, and a renewal of either. *)
MCTable(n, exp, trans) ==
    [id |-> n, base |-> 1, off |-> 10, updated |-> n, expiry |-> exp,
     trans |-> trans]

MCLeap == [at |-> 2, leap |-> "insert"]

MCObject == {MCTable(1, 4, {MCLeap}), MCTable(2, 5, {})}

MCRenewed == MCObject \cup {MCTable(3, 6, {})}

=============================================================================
