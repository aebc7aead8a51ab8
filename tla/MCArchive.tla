----------------------------- MODULE MCArchive -----------------------------
(* Days of some periods each; the scripts are run, and killed, any number of *)
(* times.                                                                    *)
EXTENDS Archive, TLC

CONSTANTS d1, d2, p1, p2, p3

\* Days are interchangeable, and so are the periods of a day.
ArchiveSymmetry == Permutations(Days) \cup Permutations(Periods)

=============================================================================
