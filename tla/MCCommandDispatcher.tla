------------------------- MODULE MCCommandDispatcher -------------------------
\* Values of CommandDispatcher's constants for TLC.
EXTENDS CommandDispatcher

CONSTANTS gold, mode  \* a cell of game.state, and the mode store's

MCCells == {gold, mode}
MCCanonical == {gold}
MCFacts == ModeFacts \cup PlainFacts
=============================================================================
