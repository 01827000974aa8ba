---------------------------- MODULE AuthHistory ----------------------------
(***************************************************************************)
(* AuthFlow with a history variable: whom each code has linked so far.     *)
(* The tables do not say it: user_character_map has no column for the      *)
(* code, and loses its rows when a user leaves.                            *)
(***************************************************************************)
EXTENDS AuthFlow

VARIABLE linkedBy

hvars == <<vars, linkedBy>>

HInit == Init /\ linkedBy = [k \in Code |-> {}]

\* The sender whose InsertUserCharacterMap made a row in this step.
Record ==
  linkedBy' = [k \in Code |-> linkedBy[k] \cup
    {u \in User : /\ <<u, k[1]>> \in linked' \ linked
                  /\ \E b \in Bot : /\ bot[b].pc = "link" /\ bot[b] # bot'[b]
                                    /\ bot[b].u = u /\ bot[b].k = k}]

HSpec == HInit /\ [][Next /\ Record]_hvars

HFairSpec == HSpec /\ Fairness

\* "Auth code already used" (internal/auth/auth.go:147): a code that has linked
\* somebody gets no further confirmation past GetAuthCode, whatever fails or
\* crashes in between and also when the link, the character and the code are
\* gone again.  A code may link two users all the same: two whose
\* confirmations had both read it as unused before either marked it.
SpentOnceLinked == \A k \in Code : linkedBy[k] # {} => codes[k] \in {"used", "gone"}
=============================================================================
