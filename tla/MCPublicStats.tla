---------------------------- MODULE MCPublicStats ----------------------------
EXTENDS PublicStats

CONSTANT g1

Available(n, new) == [kind |-> "available", guild |-> g1, members |-> n, new |-> new]
Removed == [kind |-> "removed", guild |-> g1, members |-> 0, new |-> FALSE]

\* The bot was there before, is removed, and added again; or the guild has
\* another member and keeps the bot.
Script == <<{Available(1, FALSE)}, {Removed, Available(2, FALSE)}, {Available(3, TRUE)}>>
=============================================================================
