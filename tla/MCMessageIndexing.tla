------------------------- MODULE MCMessageIndexing -------------------------
EXTENDS MessageIndexing

CONSTANTS c1, c2, a1, a2

Message(channel, author, at) ==
  [channel |-> channel, author |-> author, at |-> at, bot |-> FALSE]

\* Two a day: before the scope on another channel, on the day in its middle,
\* from a bot on its last day and, on that day still, after it.
MixedMessages ==
  {Message(c2, a1, 0), Message(c1, a1, 2), Message(c1, a2, 3),
   [Message(c2, a2, 4) EXCEPT !.bot = TRUE], Message(c1, a1, 5)}

OldMessages == {m \in MixedMessages : m.at \in {0, 2}}
=============================================================================
