---------------------------- MODULE DurableFile ----------------------------
(***************************************************************************)
(* A file written by atomicWrite (src/updater/io.ts): write a temporary    *)
(* file, fsync it, rename it over the target, fsync the directory.         *)
(*                                                                         *)
(* vis  is what a process that opens the path reads.                       *)
(* disk is the set of contents the path may have after a power loss.  A    *)
(*      rename whose directory fsync failed is visible, but the disk may   *)
(*      still hold an older content.                                       *)
(***************************************************************************)

File(S) == [vis : S, disk : SUBSET S]

\* A completed atomicWrite: the directory fsync leaves one possible content.
Written(v) == [vis |-> v, disk |-> {v}]

\* An atomicWrite that threw: before the rename nothing happened, after the
\* rename the new content is visible and may or may not be on disk.
FailedWrites(f, v) == {f, [vis |-> v, disk |-> f.disk \union {v}]}

\* What the path holds after the machine lost power and came back.
AfterPowerLoss(f) == {Written(v) : v \in f.disk}
=============================================================================
