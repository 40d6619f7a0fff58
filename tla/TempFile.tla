------------------------------ MODULE TempFile ------------------------------
(***************************************************************************)
(* The file system as seen by the savers of this repository: each writes   *)
(* <path>.tmp and renames it over <path>.  A name refers to an inode, and  *)
(* a program keeps writing to the inode it opened whatever happens to the  *)
(* name, so two savers of one path share the temporary inode.              *)
(*                                                                         *)
(* fs is [content: [Inodes -> ...], path: SUBSET Inodes, tmp: SUBSET       *)
(* Inodes]; path and tmp hold at most one inode, none if there is no file. *)
(***************************************************************************)

NoFiles(Inodes, empty) ==
    [content |-> [i \in Inodes |-> empty], path |-> {}, tmp |-> {}]

\* The inodes that opening the temporary name for writing may end up with.
TmpInodes(fs, unused) == IF fs.tmp = {} THEN unused ELSE fs.tmp

\* The file is created, or the one that is there is truncated.
OpenTmp(fs, i, empty) == [fs EXCEPT !.tmp = {i}, !.content[i] = empty]

WriteInode(fs, i, text) == [fs EXCEPT !.content[i] = text]

CanRename(fs) == fs.tmp # {}

RenameTmp(fs) == [fs EXCEPT !.path = fs.tmp, !.tmp = {}]
=============================================================================
