---------------------------- MODULE MCTaskControl ----------------------------
(* Small instances of TaskControl for TLC.                                 *)
EXTENDS TaskControl, TLC

CONSTANTS c1, c2

\* Two check-task requests served by two processes, or one.
Apart    == (c1 :> 1) @@ (c2 :> 2)
One      == (c1 :> 1)
NoThread == <<>>

\* Files differ in name only; NoRow names a key, but no row that exists does.
FilesAlike == Permutations(FileKeys)
=============================================================================
