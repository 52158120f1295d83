------------------------------ MODULE ConnLimit ------------------------------
(***************************************************************************)
(* What Limit.Connections of a rule promises, with no loops, tokens or     *)
(* generations: how connections come to be served and stop being served.   *)
(***************************************************************************)
EXTENDS Integers, FiniteSets

CONSTANTS
  Conn,      \* connections
  Limit      \* how many a relay serves at once, 0 for any number

VARIABLES
  served,    \* being served
  kept,      \* over, but their handlers never said so
  over       \* over, or turned away

lvars == <<served, kept, over>>

Init == served = {} /\ kept = {} /\ over = {}

Room == Limit > 0 => Cardinality(served \cup kept) < Limit

Take(c) ==
  /\ c \notin served \cup kept \cup over
  /\ Room
  /\ served' = served \cup {c}
  /\ UNCHANGED <<kept, over>>

Finish(c) ==
  /\ c \in served
  /\ served' = served \ {c}
  /\ \/ over' = over \cup {c} /\ UNCHANGED kept
     \/ kept' = kept \cup {c} /\ UNCHANGED over

(* A listener that is closed takes with it whatever waits for it.          *)
TurnAway ==
  /\ over' \in SUBSET Conn /\ over \subseteq over'
  /\ over' \cap (served \cup kept) = {}
  /\ UNCHANGED <<served, kept>>

Next == TurnAway \/ \E c \in Conn : Take(c) \/ Finish(c)

Spec == Init /\ [][Next]_lvars
=============================================================================
