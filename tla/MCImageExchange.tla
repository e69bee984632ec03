-------------------------- MODULE MCImageExchange --------------------------
(* A small image for TLC: two bytes "in", one byte "out".                    *)
EXTENDS ImageExchange

CONSTANTS c1, c2
MCBothCallers == {c1, c2}

\* <<0, 2>> crosses the end of "out".
MCTwoWindows == {<<0, 2>>, <<0, 1>>}
=============================================================================
