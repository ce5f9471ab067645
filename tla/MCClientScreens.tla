--------------------------- MODULE MCClientScreens ---------------------------
\* One page beside the account, lobby and game screens.
EXTENDS ClientScreens

MCPages == {"leaderboard"}
=============================================================================
