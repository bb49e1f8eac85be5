----------------------------- MODULE MC_DemoMain -----------------------------
EXTENDS DemoMain

\* Fades of four steps instead of a thousand: the loop tests, the turn
\* from one loop to the next and the counters' wrap-around are all reached.
MC_Full == 3

\* Enough bits to hold Full; a counter that wraps still wraps.
MC_CounterWidth == 2

\* A build that reloads msTicks on every pass of while(msTicks).
MC_LoadReloads == {FALSE}

====
