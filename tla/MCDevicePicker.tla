-------------------------- MODULE MCDevicePicker --------------------------
EXTENDS DevicePicker

CONSTANTS t1, t2, a1, a2, c1, unnamed

\* Every TV keeps its address.
FixedLeases == [tv \in TVs |-> IF tv = t1 THEN {a1} ELSE {a2}]
\* TVs that report their own id, and ones that may report another one or none.
OwnIds == [tv \in TVs |-> {tv}]
Clouds == {c1, unnamed}
ManyIds == [tv \in TVs |-> {tv} \cup Clouds]
SubnetScan == {"subnet", "scan"}
Windows == {<<"gtk", FALSE>>, <<"winui", FALSE>>}
CommandLine == {<<"cli", TRUE>>}
OneSaved == {[id |-> t1, ip |-> a1]}

\* A TV that is off is one that leaves queries unanswered, so that the WinUI
\* window, whose instance is the largest, needs none to be switched off.
MCInit == Init /\ (Win => On = TVs)
MCSpec == MCInit /\ [][Next]_vars
StaysOn == Win => UNCHANGED where
=============================================================================
