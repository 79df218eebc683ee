------------------------- MODULE MCMemberAnalytics -------------------------
EXTENDS MemberAnalytics

CONSTANTS m1, c1

Happens(kind, at) == [kind |-> kind, member |-> m1, channel |-> c1, at |-> at]

\* Day 0, the week after and the month after; half a day apart on day 0.
MixedEvents ==
  {Happens("joinWithRole", 0), Happens("join", 16),
   Happens("message", 1), Happens("reaction", 16), Happens("leave", 16),
   Happens("voiceLeave", 16), Happens("voiceLeave", 62)}

Joins == {Happens("join", 0), Happens("roles", 1), Happens("join", 16)}

Messages == {Happens("join", 0), Happens("message", 0), Happens("botMessage", 0)}
=============================================================================
