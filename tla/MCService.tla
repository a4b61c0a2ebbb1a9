------------------------------ MODULE MCService ------------------------------
EXTENDS Service, TLC

CONSTANTS c1, c2

\* One consumer wants a response every tick, the other every fourth.
FastAndSlow == c1 :> 1 @@ c2 :> 4
=============================================================================
