----------------------------- MODULE MCDownload -----------------------------
(* Download for TLC. *)
EXTENDS Download

\* The version that follows is shorter.
Blocks(v) == 4 - v

=============================================================================
