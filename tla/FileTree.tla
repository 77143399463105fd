------------------------------ MODULE FileTree ------------------------------
(***************************************************************************)
(* A small file system as the data handler sees it through std::filesystem *)
(* and std::fstream: every path holds nothing, a directory or a file.      *)
(***************************************************************************)
EXTENDS Naturals, SequencesExt

CONSTANTS Paths,       \* the paths requests name
          Parent,      \* Paths -> the directory a path lies in, or Top
          Top,         \* the working directory, which always exists
          Blocks,      \* what files are made of
          Absent,      \* at a path that does not exist
          Directory    \* at a path that is a directory

Contents == Seq(Blocks)

\* Directories lie in Top: the trees of these models have two levels.
ParentAssumption ==
    /\ Top \notin Paths
    /\ Parent \in [Paths -> Paths \union {Top}]
    /\ \A p \in Paths : Parent[p] # Top => Parent[p] # p /\ Parent[Parent[p]] = Top
NodesAssumption == Absent # Directory /\ Contents \intersect {Absent, Directory} = {}
ASSUME FileTreeAssumption == ParentAssumption /\ NodesAssumption

Nodes == Contents \union {Absent, Directory}

IsFile(files, p) == files[p] \notin {Absent, Directory}
Below(p) == {p} \union {q \in Paths : Parent[q] = p}

\* create_directories(p.parent_path()): when it can succeed, and what it leaves.
CanMakeParent(files, p) == Parent[p] # Top => ~IsFile(files, Parent[p])
WithParent(files, p) ==
    [q \in Paths |-> IF q = Parent[p] THEN Directory ELSE files[q]]

\* An fstream can be opened for writing at p.
CanOpen(files, p) ==
    /\ files[p] # Directory
    /\ Parent[p] # Top => files[Parent[p]] = Directory

Old(files, p) == IF IsFile(files, p) THEN files[p] ELSE <<>>

\* What a write of data that fails half way may leave of it.
Parts(data) == {SubSeq(data, 1, n) : n \in 0..(Len(data) - 1)}
=============================================================================
