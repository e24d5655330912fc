---------------------------- MODULE MCDeviceTree ----------------------------
(***************************************************************************)
(* A disk with two partitions, one with one, an array and an encrypted     *)
(* device that may be on any of them.                                      *)
(***************************************************************************)
EXTENDS DeviceTree, TLC

CONSTANTS sda, sda1, sda2, sdb, sdb1, md0, crypt0

TwoDisks == <<sda, sdb>>

Types == (sda :> "disk") @@ (sda1 :> "part") @@ (sda2 :> "part") @@
         (sdb :> "disk") @@ (sdb1 :> "part") @@ (md0 :> "raid1") @@ (crypt0 :> "crypt")

Partitions == [n \in Names |-> CASE n = sda -> <<sda1, sda2>> [] n = sdb -> <<sdb1>>
                                 [] OTHER -> <<>>]

MayBeRoot == [n \in Names |-> n \in {sda1, sda2, md0, crypt0}]
=============================================================================
