------------------------------- MODULE Player -------------------------------
(***************************************************************************)
(* The Player value type (player.hpp): a signed byte that names a side, an *)
(* empty cell or "nothing yet".                                            *)
(***************************************************************************)
EXTENDS Integers

invalid == -2
agent   == -1
vacant  == 0
human   == 1

Sides   == {agent, human}
Players == {invalid, agent, vacant, human}

\* Negation swaps the two sides; the code only calls it on a side.
opponent(p) == -p

\* value & 1: the lowest bit is set for the two sides and for nothing else.
occupied(p) == p % 2 = 1
=============================================================================
