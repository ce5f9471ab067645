--------------------------- MODULE MCLevelEditor ---------------------------
EXTENDS LevelEditor

\* Place 1 is whole, 2 is not.
MCRounded == [p \in Places |-> 1]

MCSaved ==
  {[settings |-> "long", placed |-> [s \in Shelves |-> << >>],
    waves |-> <<[at |-> 2, enemies |-> <<1>>]>>],
   [settings |-> "long",
    placed |-> [s \in Shelves |-> IF s \in RecordedShelves THEN << >> ELSE <<2>>],
    waves |-> << >>]}
=============================================================================
