-------------------------- MODULE MCBrowserSession --------------------------
\* BrowserSession for TLC: a GitHub friend and a Google friend share a browser.
EXTENDS BrowserSession, TLC

CONSTANTS alice, bob, f1, f2, upload, browse
MCProvider == alice :> "github" @@ bob :> "google"
MCGoal == f1 :> upload @@ f2 :> browse
Bounds == listed # {}
\* One request at a time, and nobody is removed: what is refused then is no race.
InOrder == listed = Friends /\ \A t, u \in Tabs : t = u \/ wire[t] = Quiet \/ wire[u] = Quiet
Symmetry == Permutations(Tabs) \cup Permutations(Tokens)
=============================================================================
