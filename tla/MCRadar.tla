------------------------------- MODULE MCRadar -------------------------------
\* Instances of Radar for TLC.
EXTENDS Radar, TLC
=============================================================================
