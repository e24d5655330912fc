---------------------------- MODULE MCNodeScanner ----------------------------
(***************************************************************************)
(* Two disks and three kernel names: enough for a disk to come back under  *)
(* another name while its dead mount keeps the old one, next to a second   *)
(* disk.  One run has a third disk and name, for the disk that hosts "/".   *)
(* Contents and sizes are chosen per run.                                  *)
(***************************************************************************)
EXTENDS NodeScanner, TLC

CONSTANTS d1, d2, d3, u1, u2, u3, u4, u5

Ours(u) == [uuid |-> u, kind |-> "ours"]
Ext4(u) == [uuid |-> u, kind |-> "ext4"]
Other(u) == [uuid |-> u, kind |-> "other"]

BothDisks(a, b) == (d1 :> a) @@ (d2 :> b)

\* Every pair of contents that scan() treats differently.
ManyContents ==
    {BothDisks(Blank, Blank), BothDisks(Ours(u1), Blank),
     BothDisks(Ours(u1), Ours(u2)), BothDisks(Blank, Ext4(u2)),
     BothDisks(Parts, Other(u2))}

\* For a run in which d1 cannot be formatted.
OneUnformattable ==
    {BothDisks(Blank, Ours(u2)), BothDisks(Blank, Blank),
     BothDisks(Ours(u1), Blank), BothDisks(Ours(u1), Ours(u2))}

RawAndOurs == {BothDisks(Blank, Ours(u2)), BothDisks(Blank, Blank)}

\* Next to two disks a partition of the disk that hosts "/", with our label.
NextToRoot ==
    {BothDisks(Ours(u1), Ours(u2)) @@ (d3 :> Ours(u3)),
     BothDisks(Ext4(u1), Blank) @@ (d3 :> Ours(u3))}

\* The minimum is 10; a filesystem loses one unit to its metadata.
Large == [d \in Disks |-> 20]
LargeFs == [d \in Disks |-> IF d = d1 THEN 10 ELSE 19]
Borderline == BothDisks(10, 20)
BorderlineFs == BothDisks(9, 19)
=============================================================================
