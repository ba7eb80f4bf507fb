-------------------------- MODULE MCAdvisoryText --------------------------
EXTENDS AdvisoryText

Spec == Init /\ [][Next]_textVars
=============================================================================
