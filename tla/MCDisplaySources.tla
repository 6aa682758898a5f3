--------------------------- MODULE MCDisplaySources ---------------------------
EXTENDS DisplaySources, TLC

CONSTANTS left, middle, right

TwoOutputs == <<left, right>>
ThreeOutputs == <<left, middle, right>>
MiddleShared == {[kind |-> "monitor", id |-> 2, damage |-> TRUE]}

Plain == [override_redirect |-> FALSE, viewable |-> TRUE, tiny |-> FALSE, chrome |-> FALSE,
          titled |-> TRUE, managed |-> TRUE, normal |-> TRUE]
SomeWindows == {Plain, [Plain EXCEPT !.chrome = TRUE], [Plain EXCEPT !.titled = FALSE]}

TwoSizes == [size : {1, 2}, place : {0}]
OneSize == [size : {1}, place : {0, 1}]

\* A monitor with and without XDamage, a window without.
MostSetups ==
  {[kind |-> "monitor", id |-> 1, damage |-> d] : d \in BOOLEAN}
  \cup {[kind |-> "window", id |-> 1, damage |-> FALSE]}
AllSetups == MostSetups \cup {[kind |-> "window", id |-> 1, damage |-> TRUE]}

\* A Wayland desktop, one where X11 is forced, and no desktop at all.
ThreeDesktops ==
  {[wayland |-> TRUE, x11 |-> TRUE, forced |-> f] : f \in BOOLEAN}
  \cup {[wayland |-> FALSE, x11 |-> FALSE, forced |-> FALSE]}
\* Freezing is left to a monitor without XDamage.
FreezeOne == {[kind |-> "monitor", id |-> 1, damage |-> FALSE]}
\* What a capturer does not look at has one value.  A test's substitute is left
\* to that monitor too, when X11 cannot capture it.
MCInit ==
  /\ Init
  /\ backend # "x11" => setup \in FreezeOne /\ geometry = [size |-> 1, place |-> 0]
  /\ backend = "x11" /\ testing => setup \in FreezeOne
  /\ backend # "portal" => token = None
MCSpec == MCInit /\ [][Next]_vars
=============================================================================
