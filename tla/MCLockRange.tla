----------------------------- MODULE MCLockRange -----------------------------
(* A small instance of LockRange on three bytes. *)
EXTENDS LockRange

\* [0,2) and [1,3) overlap, [2,3) touches the first and lies in the second.
Ranges_ == {<<0, 2>>, <<1, 2>>, <<2, 1>>}
=============================================================================
