-------------------------- MODULE MCCommandControl --------------------------
(***************************************************************************)
(* Instances of CommandControl for TLC.                                    *)
(***************************************************************************)
EXTENDS CommandRefinement, CommandInvariant, TLC

\* Identifiers are drawn at random by the code and never compared except for
\* equality, and every property treats them alike.
Symmetry ==
  Permutations(Commands) \cup Permutations(Proposals)
    \cup Permutations(Keys) \cup Permutations(Devices)
=============================================================================
