---------------------------- MODULE MCMemberRebuild ----------------------------
EXTENDS MemberRebuild

CONSTANTS m1, c1

Happens(kind, at) == [kind |-> kind, member |-> m1, channel |-> c1, at |-> at]

\* The week before the member joined.
Earlier == Happens("missedMessage", 1)

\* As it joined.
First == Happens("message", 16)
Missed == Happens("missedMessage", 16)

\* The week after, in the job's days or not.
Again == Happens("missedMessage", 30)
Later(kind) == Happens(kind, 32)

RebuiltEvents ==
  {Earlier, First, Missed, Again}
  \union {Later(kind) : kind \in {"reaction", "roles", "voiceJoin", "voiceLeave"}}

\* A first message that a job moves to before the join, and a return that it
\* finds; returns that it does not look at; two workers beside it.
FewTogether ==
  {<<Earlier, First, Again>>,
   <<Missed, Later("reaction")>>, <<Earlier, Later("voiceLeave")>>,
   <<Missed, Later("roles"), Later("voiceJoin")>>}

JoinedOnDay8 == m1 :> 16
=============================================================================
