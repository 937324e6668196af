---------------------------- MODULE MirrorRound ----------------------------
(***************************************************************************)
(* What one call of MirrorClient.Start (npm/mirror.go) promises to its     *)
(* caller, with the goroutines, channels and the WaitGroup left out:       *)
(* every package of the round is fetched once by some worker and then      *)
(* settled once in the database by the result handler, and the call        *)
(* returns only after the last of them is settled.  WorkerPool implements  *)
(* this specification; Mirror relies on it for its rounds.                 *)
(***************************************************************************)
EXTENDS Naturals, FiniteSets

CONSTANTS
  Packages,      \* the packages the round was started with
  MaxInHand      \* results that can be fetched but not yet settled

VARIABLES
  todo,          \* packages no worker has fetched yet
  inHand,        \* fetched packages whose result is not in the database yet
  settled,       \* packages whose result the handler has written
  returned       \* Start has returned to its caller

vars == <<todo, inHand, settled, returned>>

Init ==
  /\ todo = Packages
  /\ inHand = {}
  /\ settled = {}
  /\ returned = FALSE

\* A worker finishes fetching the document and the tarballs of p.
Fetch(p) ==
  /\ p \in todo
  /\ Cardinality(inHand) < MaxInHand
  /\ todo' = todo \ {p}
  /\ inHand' = inHand \cup {p}
  /\ UNCHANGED <<settled, returned>>

\* The result handler writes the outcome of p to the database.
Settle(p) ==
  /\ p \in inHand
  /\ inHand' = inHand \ {p}
  /\ settled' = settled \cup {p}
  /\ UNCHANGED <<todo, returned>>

\* Start returns: nothing is left to fetch or to settle.
Return ==
  /\ ~ returned
  /\ settled = Packages
  /\ returned' = TRUE
  /\ UNCHANGED <<todo, inHand, settled>>

Next ==
  \/ \E p \in Packages : Fetch(p) \/ Settle(p)
  \/ Return

SafeSpec == Init /\ [][Next]_vars

Spec == SafeSpec /\ WF_vars(Next)

=============================================================================
