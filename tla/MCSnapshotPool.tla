--------------------------- MODULE MCSnapshotPool ---------------------------
(* Instances of SnapshotPool for TLC. *)
EXTENDS SnapshotPool

CONSTANTS d1, d2

Take(d) == [op |-> "take", dir |-> d]
From(d, s) == [op |-> "restore", dir |-> d, snap |-> s]
Delete(s) == [op |-> "delete", snap |-> s]
Edit(d) == [op |-> "edit", dir |-> d]
Put(d) == [op |-> "put", dir |-> d]
Aging == [op |-> "age"]
Collect == [op |-> "collect"]

MCWorkloads == {
    \* Two captures of one directory that a jail writes, and a delete.
    <<Put(d1), Put(d1), Take(d1), Edit(d1), Take(d1), Delete(1)>>,
    \* A snapshot in two workspaces, one of which edits it and is captured again.
    <<Put(d1), Take(d1), From(d2, 1), Edit(d2), Take(d2), From(d1, 1)>>,
    \* A restore beside a delete and a collection.
    <<Put(d1), Put(d1), Take(d1), From(d2, 1), Delete(1), Collect>>,
    \* A restore over a directory that has gained a file.
    <<Put(d1), Take(d1), Put(d1), From(d1, 1)>>,
    \* More rows than a page of the store holds.
    <<Put(d1), Take(d1), Take(d1), Take(d1), Aging>> }
=============================================================================
