---------------------------- MODULE MCEsiPoller ----------------------------
(* Values of EsiPoller's constants for TLC. *)
EXTENDS EsiPoller, TLC

CONSTANTS u1, u2, ch1, ch2, co1, co2, co3, al1, al2, t1, t2, t3, t4

\* Two corporations in two alliances, and one in none.
Rows   == [c \in Corp |-> CASE c = co1 -> [ticker |-> t1, alliance |-> al1]
                            [] c = co2 -> [ticker |-> t2, alliance |-> al2]
                            [] OTHER   -> [ticker |-> t3, alliance |-> None]]
AllInCo1 == [ch \in Char |-> co1]
=============================================================================
