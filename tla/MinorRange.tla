------------------------------ MODULE MinorRange -------------------------------
(* Sets of Python 3 minors, as python_requirement.py's minor_range judges    *)
(* them.                                                                     *)
EXTENDS Integers

MinorScanCeiling == 100

(* The minors are consecutive, and there are some. *)
Contiguous(minors) ==
    minors # {} /\ \A m \in minors : m + 1 \in minors \/ \A n \in minors : n <= m
=============================================================================
