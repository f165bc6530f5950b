-------------------------------- MODULE MCSignIn --------------------------------
\* Instances of SignIn for TLC.
EXTENDS SignIn, TLC

\* Everything but the roles is interchangeable.
SignInSymmetry == Permutations(Tabs) \cup Permutations(Ids)
                  \cup Permutations(Accounts) \cup Permutations(Emails)
===============================================================================
