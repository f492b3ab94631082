------------------------------ MODULE EventLog ------------------------------
(***************************************************************************)
(* What the event stream of a household promises: events are numbered in   *)
(* the order of their publication, and whoever has received one receives   *)
(* the next ones one after the other, repetitions aside.  A member who is  *)
(* excused may skip events; nobody receives what was not published.        *)
(***************************************************************************)
EXTENDS Integers

CONSTANT Members

VARIABLES
  published,  \* the number of events published
  top,        \* the newest event each member has received, 0 for none
  excused     \* the members whom something was kept from

vars == <<published, top, excused>>

Init == published = 0 /\ top = [m \in Members |-> 0] /\ excused = {}

Publish == published' = published + 1 /\ UNCHANGED top

(* The first event may be any, the next one is the one after.              *)
Receive(m) ==
  /\ \E e \in 1..published :
       /\ e = top[m] + 1 \/ top[m] = 0 \/ (m \in excused /\ e > top[m])
       /\ top' = [top EXCEPT ![m] = e]
  /\ UNCHANGED published

Next ==
  /\ Publish \/ (\E m \in Members : Receive(m)) \/ UNCHANGED <<published, top>>
  /\ excused \subseteq excused'

Spec == Init /\ [][Next]_vars
=============================================================================
