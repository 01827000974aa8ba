----------------------------- MODULE MCAuthFlow -----------------------------
(* Values of AuthFlow's constants for TLC. *)
EXTENDS AuthHistory, TLC

CONSTANTS u1, u2, ch1, ch2, co1, co2, al

\* ch1 is in a corporation of an alliance, ch2 in one without.
OneCorp   == [c \in {ch1} |-> co1]
TwoCorps  == [c \in {ch1, ch2} |-> IF c = ch1 THEN co1 ELSE co2]
Alliances == [c \in {co1, co2} |-> IF c = co1 THEN al ELSE None]
=============================================================================
