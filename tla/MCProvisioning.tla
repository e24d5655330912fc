--------------------------- MODULE MCProvisioning ---------------------------
(***************************************************************************)
(* Two nodes, two disks, two claims.  The pod p1 uses both claims, as the  *)
(* first and as the second volume.                                         *)
(***************************************************************************)
EXTENDS Provisioning, TLC

CONSTANTS n1, n2, u1, u2, c1, c2, p1, p2

\* Both disks in one node, or one in each: nodes are interchangeable.
OneOrTwoNodes == {(u1 :> n1) @@ (u2 :> n1), (u1 :> n1) @@ (u2 :> n2)}
OneNode == {u1 :> n1}

OnePod == p1 :> <<c1, c2>>

PodPerClaim == (p1 :> <<c1>>) @@ (p2 :> <<c2>>)

\* The first claim may have no annotation, the second may be for either disk.
AskAny == (c1 :> {u1, NoUUID}) @@ (c2 :> {u1, u2})
AskFirst == (c1 :> {u1}) @@ (c2 :> {u1})
=============================================================================
