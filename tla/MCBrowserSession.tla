-------------------------- MODULE MCBrowserSession --------------------------
\* BrowserSession for TLC: users are interchangeable, and so are projects.
EXTENDS BrowserSession, TLC

Symmetry == Permutations(Users) \cup Permutations(Projects)
=============================================================================
