------------------------------ MODULE MCFileTree ------------------------------
(* Trees of directories d, d/e and files f, g beside a file o, and calls   *)
(* on them.                                                                   *)
EXTENDS FileTree

Names == {<<>>, <<"o">>, <<"d">>, <<"d", "g">>, <<"d", "e">>, <<"d", "e", "f">>}

Tree(dirs, files) ==
  [p \in Names |-> IF p \in dirs \cup {<<>>} THEN Dir
                          ELSE IF p \in files THEN File(p) ELSE None]

d == <<"d">>
e == <<"d", "e">>

SomeTrees ==
  { Tree({}, {<<"o">>}),
    Tree({d}, {<<"o">>, e}),
    Tree({d, e}, {<<"o">>, <<"d", "g">>}),
    Tree({d, e}, {<<"o">>, <<"d", "e", "f">>, <<"d", "g">>}) }

EachCall ==
  << [op |-> "mkdir", path |-> e], [op |-> "mkdir", path |-> <<"o">>],
     [op |-> "rmdir", path |-> d], [op |-> "rmdir", path |-> e],
     [op |-> "createDirectory", path |-> e],
     [op |-> "deleteFiles", path |-> d],
     [op |-> "deleteDirectory", path |-> d],
     [op |-> "moveFile", path |-> <<"o">>, tar |-> <<"d", "e", "f">>],
     [op |-> "moveFile", path |-> <<"d", "g">>, tar |-> <<"d", "e", "f">>],
     [op |-> "moveFile", path |-> <<"d", "g">>, tar |-> <<"o">>] >>

\* Three of these: which process makes which of them makes no difference.
SomeCalls ==
  {<<EachCall[i], EachCall[j], EachCall[k]>> :
     <<i, j, k>> \in {t \in (1 .. 10) \X (1 .. 10) \X (1 .. 10) : t[1] <= t[2] /\ t[2] <= t[3]}}
=============================================================================
