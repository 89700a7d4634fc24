----------------------------- MODULE MCOctopus ------------------------------
(* Small instances of Octopus. *)
EXTENDS OctopusData

CONSTANTS nodeA, nodeB, cl1, cl2, cl3

Op(op, p, x) == [op |-> op, path |-> p, arg |-> x]

(* Names: /d on the second server, its files and the root on the first. *)
D == <<"d">>
F == <<"d", "f">>
G == <<"d", "g">>
NamesPath == {Root, D, F, G}
NamesSlot == {<<nodeA, 0>>, <<nodeA, 1>>, <<nodeB, 0>>}
NamesSlotOf == (Root :> <<nodeA, 0>>) @@ (D :> <<nodeB, 0>>) @@ (F :> <<nodeA, 1>>) @@ (G :> <<nodeA, 1>>)
SharedCq == (cl1 :> 1) @@ (cl2 :> 2) @@ (cl3 :> 1)
NamesWorkload ==
  (cl1 :> <<{Op("mkdir", D, <<>>)}, {Op("open", F, <<>>)}>>) @@
  (cl2 :> <<{Op("mknod", F, <<>>), Op("mknod", G, <<>>)}, {Op("delete", F, <<>>), Op("delete", D, <<>>)}>>) @@
  (cl3 :> <<{Op("list", D, <<>>)}>>)

(* Files: /f, /h and /k share a lock word of the server of the root, /g is   *)
(* on the other server.  Both clients change the directory and write blocks. *)
(* The hash table of a server is full with three paths.                      *)
FileF == <<"f">>
FileG == <<"g">>
FileH == <<"h">>
FileK == <<"k">>
FilesPath == {Root, FileF, FileG, FileH, FileK}
FilesSlotOf ==
  (Root :> <<nodeA, 0>>) @@ (FileG :> <<nodeB, 0>>) @@
  (FileF :> <<nodeA, 1>>) @@ (FileH :> <<nodeA, 1>>) @@ (FileK :> <<nodeA, 1>>)
OwnCq == (cl1 :> 1) @@ (cl2 :> 2)
FilesWorkload ==
  (cl1 :> <<{Op("mknod", FileF, <<>>)},
            {Op("write", FileF, [off |-> 0, size |-> 3])},
            {Op("write", FileF, [off |-> 3, size |-> 2])},
            {Op("rename", FileF, FileG)},
            {Op("delete", FileG, <<>>), Op("read", FileG, [off |-> 1, size |-> 4])}>>) @@
  (cl2 :> <<{Op("mknod", FileH, <<>>), Op("read", FileF, [off |-> 1, size |-> 4]),
             Op("read", FileF, [off |-> 1, size |-> 0])},
            {Op("write", FileH, [off |-> 0, size |-> 1]), Op("write", FileH, [off |-> 1, size |-> 4])},
            {Op("delete", FileH, <<>>), Op("write", FileH, [off |-> 2, size |-> 2]),
             Op("mknod", FileK, <<>>)}>>)
=============================================================================
