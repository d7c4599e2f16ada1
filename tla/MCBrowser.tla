------------------------------ MODULE MCBrowser ------------------------------
(* Small instances of Browser for TLC. *)
EXTENDS Browser

CONSTANTS c1, c2

IdsTwo == {c1, c2}
FirstOne == {c1}
Two == 1..2
One == 1..1

\* Two machines of one connection have the same name.
VmsTwo == 1..2
HomesTwo == [v \in VmsTwo |-> c1]
NamesTwo == [v \in VmsTwo |-> 1]
RanksTwo == [v \in VmsTwo |-> v]
=============================================================================
