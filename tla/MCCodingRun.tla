---------------------------- MODULE MCCodingRun ----------------------------
(* Small instances of CodingRun for TLC.                                    *)
EXTENDS CodingRun, TLC

CONSTANTS f1, f2, a, b, o1, o2

MCBaseTree == [f \in Files |-> IF f = f1 THEN a ELSE Absent]
MCScopes == {{}, {f2}}
Symmetry == Permutations(Ops)
=============================================================================
