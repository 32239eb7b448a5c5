-------------------------- MODULE MCPanelUserList --------------------------
(***************************************************************************)
(* Four-bit integers: the queries hold plain pages, numbers beyond an int, *)
(* and products and sums that leave it.                                    *)
(***************************************************************************)
EXTENDS PanelUserList

MCQueries == {[size |-> 2, start |-> 1], [limit |-> 2, offset |-> 0, page |-> 2],
              [size |-> 4, page |-> 3], [size |-> 7, start |-> 9, offset |-> 1]}

CONSTANTS u1, u2, u3, u4, u5

MCUsers == {u1, u2, u3, u4, u5}

\* Users have no names of their own: every list is one of these but for them.
MCPanels == {SubSeq(<<u1, u2, u3, u4, u5>>, 1, n) : n \in 3..4}

UserSymmetry == Permutations(MCUsers)

=============================================================================
