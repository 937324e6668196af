------------------------------ MODULE MCMirror ------------------------------
(* Mirror for TLC. *)
EXTENDS Mirror, TLC

\* Every fault after which the database says of itself what is missing, and files
\* that could not be removed, of which it says nothing.
RecoverableFaults == Faults \ {"document", "tarball", "sequence"}

\* What leaves less in the database than the mirror believes.
SilentFaults == {"crash", "document", "tarball", "sequence", "remove"}
CrashOnly == {"crash"}
DocumentFaults == {"document"}
NoFaults == {}

\* Names are interchangeable; used by safety runs only.
Symmetry == Permutations(Names)

=============================================================================
