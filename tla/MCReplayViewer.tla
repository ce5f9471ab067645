--------------------------- MODULE MCReplayViewer ---------------------------
\* Two files, three games of which the first may have two frames, and the ends of the slider.
EXTENDS ReplayViewer

MCKeys == {"none", "A", "B", "left"}
=============================================================================
