--------------------------- MODULE MCReplayFilter ---------------------------
EXTENDS ReplayFilter

\* Nonces around each boundary of the code's own numbers: the window (20), the
\* width (32), the clearing threshold (51) and what follows them.
EdgeNonces == {0, 1, 19, 20, 21, 31, 32, 40, 41, 51, 52, 53, 72}

=============================================================================
