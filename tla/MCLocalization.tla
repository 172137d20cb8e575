--------------------------- MODULE MCLocalization ---------------------------
(* Localization on small instances, with symmetric source texts.           *)
EXTENDS Localization, TLC

Symmetry == Permutations(Hashes)

=============================================================================
