---------------------------- MODULE MCCastApps ----------------------------
EXTENDS CastApps

CONSTANTS s1, s2, s3, w1, w2

TwoStarters == {w1, w2, "ui", "tray"}
AllPrograms == {"winui", "gtk", "cli"}
\* The GTK and command-line programs act on an up-to-date window only.
ClicksAhead == [p \in AllPrograms |-> IF p = "winui" THEN 1 ELSE 0]
Symmetric == Permutations(Sessions) \cup Permutations(Starters)
=============================================================================
