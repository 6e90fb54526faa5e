----------------------------- MODULE MCSession -----------------------------
EXTENDS Session, TLC

CONSTANTS p1, p2

\* Two processes that may migrate at once, one of which may also remove the file.
TwoProcs == p1 :> {"up", "seed", "create"} @@ p2 :> {"up", "fresh", "reset"}
=============================================================================
