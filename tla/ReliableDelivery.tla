---------------------------- MODULE ReliableDelivery ----------------------------
(***************************************************************************)
(* What the core promises about what a user reads: the outputs of a        *)
(* conversation in the order in which they were stored, each from its      *)
(* first part to its last without a gap.  A part may be repeated, but only *)
(* the latest one and only before anything newer of the conversation; an   *)
(* output may be withdrawn only if it is a waiting message, and nothing is *)
(* closed that was not read to the end.                                    *)
(***************************************************************************)
EXTENDS Naturals, Sequences

CONSTANTS
    Conversations,
    Largest         \* the most parts an output can have

VARIABLES
    posted,   \* the outputs, in the order of their storage
    shown     \* the <<output, part>> pairs the user reads

reading == <<posted, shown>>

Post == [conv: Conversations, size: 1..Largest, waiting: BOOLEAN, open: BOOLEAN]

HasRead(i, p) == \E n \in DOMAIN shown : shown[n] = <<i, p>>
WhollyRead(i) == \A p \in 1..posted[i].size : HasRead(i, p)
Unread(i)     == \A p \in 1..posted[i].size : ~HasRead(i, p)

SameConversation(i, k) == posted[i].conv = posted[k].conv

\* The user reads part p of output i, for the first time or again.
MayRead(i, p) ==
    /\ \A q \in 1..(p - 1) : HasRead(i, q)
    /\ \A q \in (p + 1)..posted[i].size : ~HasRead(i, q)
    /\ \A k \in DOMAIN posted : SameConversation(i, k) =>
          /\ k < i => WhollyRead(k) \/ ~posted[k].open
          /\ k > i => Unread(k)

Withdrawn(W) == [i \in DOMAIN posted |->
    IF i \in W THEN [posted[i] EXCEPT !.open = FALSE] ELSE posted[i]]

\* An output is added at the end, and waiting messages it replaces are withdrawn.
Store ==
    /\ \E new \in Post, W \in SUBSET {i \in DOMAIN posted : posted[i].waiting} :
          posted' = Append(Withdrawn(W), new)
    /\ UNCHANGED shown

\* A part is read; the output may close with its last part.
Read ==
    \E i \in DOMAIN posted : \E p \in 1..posted[i].size :
       /\ MayRead(i, p)
       /\ shown' = Append(shown, <<i, p>>)
       /\ \/ UNCHANGED posted
          \/ p = posted[i].size /\ posted' = Withdrawn({i})

Init == posted = <<>> /\ shown = <<>>

Next == Store \/ Read

Spec == Init /\ [][Next]_reading
=============================================================================
