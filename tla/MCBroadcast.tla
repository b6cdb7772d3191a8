---------------------------- MODULE MCBroadcast ----------------------------
EXTENDS Broadcast, TLC

CONSTANTS c1, c2

\* One connection, or two in one bucket.
OneConn   == (c1 :> 0)
Together  == (c1 :> 0 @@ c2 :> 0)

Color(v) == [key |-> "color", value |-> v]
Colors   == {Color("red"), Color("blue")}

ToAll       == NoPara
ToIds       == [NoPara EXCEPT !.ids = {c1}, !.receivers = {1}]
ToReceivers == [NoPara EXCEPT !.receivers = {1}]
ToTags      == [NoPara EXCEPT !.tags = {"t"}]
ToProps     == [NoPara EXCEPT !.props = {Color("red")}]
AnyPara     == {ToAll, ToIds, ToReceivers, ToTags, ToProps}
TagParas    == {ToTags}
AllPara     == {ToAll}

\* For messages that name no connection, and connections of one bucket.  Used for
\* safety only.
Symmetry == Permutations(Conns) \cup Permutations(Callers)

=============================================================================
