---------------------------- MODULE MCDiscovery ----------------------------
(* Discovery for TLC: a pool of two members, one of them beside a plain filesystem
   on a partitioned drive, a LUKS container that was ext4 before beside a damaged XFS,
   and a bcachefs that is locked. *)
EXTENDS Discovery, SequencesExt

Volume(fs, is, marks, says, sound, locked) ==
    [fs |-> fs, is |-> is, marks |-> marks, says |-> says, sound |-> sound, locked |-> locked]

PoolMember == Volume("pool", "btrfs", {"btrfs"}, 2, TRUE, FALSE)
Plain == Volume("plain", "ext4", {"ext4"}, 1, TRUE, FALSE)
Secret == Volume("secret", "luks", {"luks", "ext4"}, 1, TRUE, FALSE)
Damaged == Volume("damaged", "xfs", {"xfs"}, 1, FALSE, FALSE)
Vault == Volume("vault", "bcachefs", {"bcachefs"}, 1, TRUE, TRUE)
Drive(volumes) == [parted |-> Len(volumes) > 1, volumes |-> volumes]

Ordered == <<Drive(<<Plain, PoolMember>>), Drive(<<PoolMember>>), Drive(<<Secret, Damaged>>), Drive(<<Vault>>)>>
MCDrives == ToSet(Ordered)

MCSlots == 1..3

\* At the start the drives are in the order they are listed in.
MCStarts ==
    LET put == {f \in [MCSlots -> 0..Len(Ordered)] :
                  \A s, t \in MCSlots : s < t /\ f[s] # 0 /\ f[t] # 0 => f[s] < f[t]}
    IN  {[s \in MCSlots |-> IF f[s] = 0 THEN NoDrive ELSE Ordered[f[s]]] : f \in put}

\* A whitelist that leaves out the second partition of the third drive.
MCAllowed == MCSlots \X (0..2) \ {<<3, 2>>}

=============================================================================
