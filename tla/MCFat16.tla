------------------------------ MODULE MCFat16 ------------------------------
(***************************************************************************)
(* A small image: sectors of 8 bytes, entries of 4, two sectors to a       *)
(* cluster, stems of two characters and extensions of one. The root        *)
(* directory is full and has no end mark. The file A.X occupies clusters 2 *)
(* and 5, the directory D clusters 3 and 6 with its end mark in the middle *)
(* of the second, the file B cluster 4, the directory E all of cluster 7.  *)
(***************************************************************************)
EXTENDS Fat16Mount, TLC

De(kind, stem, ext, start, size) ==
  [kind |-> kind, stem |-> stem, ext |-> ext, start |-> start, size |-> size]

Skip == De("skip", <<"A", " ">>, <<"X">>, 2, 3)
End == De("end", <<" ", " ">>, <<" ">>, 0, 0)
Dot == De("dir", <<".", " ">>, <<" ">>, 3, 0)
DotDot == De("dir", <<".", ".">>, <<" ">>, 0, 0)

Sector(s) == [k \in 0 .. Len(s) - 1 |-> s[k + 1]]
Bytes(file, first, last) == [k \in 0 .. 7 |-> IF first + k <= last THEN <<file, first + k>>
                                                                  ELSE <<"slack", k>>]
MCDisk ==
  << Sector(<<65528, 65535, 5, 6>>), Sector(<<65535, 65528, 65535, 65535>>),    \* FAT
     Sector(<<65528, 65535, 5, 6>>), Sector(<<65535, 65528, 65535, 65535>>),    \* its copy
     Sector(<<Skip, De("file", <<"A", " ">>, <<"X">>, 2, 20)>>),                \* root
     Sector(<<Skip, De("dir", <<"D", " ">>, <<" ">>, 3, 0)>>),
     Bytes("A.X", 1, 20), Bytes("A.X", 9, 20),                                  \* 2
     Sector(<<Dot, DotDot>>),                                                   \* 3
     Sector(<<Skip, De("file", <<"B", " ">>, <<" ">>, 4, 5)>>),
     Bytes("B", 1, 5), Bytes("B", 9, 5),                                        \* 4
     Bytes("A.X", 17, 20), Bytes("A.X", 25, 20),                                \* 5
     Sector(<<De("dir", <<"E", " ">>, <<" ">>, 7, 0),                           \* 6
              De("file", <<"A", "B">>, <<"X">>, 0, 0)>>),
     Sector(<<End, De("file", <<"B", "B">>, <<" ">>, 4, 5)>>),
     Sector(<<Dot, DotDot>>),                                                   \* 7
     Sector(<<Skip, De("file", <<"A", " ">>, <<"X">>, 0, 0)>>) >>

FileNode(content) == [dir |-> FALSE, content |-> content]
DirNode(start, names, children) ==
  [dir |-> TRUE, start |-> start, names |-> names, children |-> children]

AX == <<"A", ".", "X">>
ABX == <<"A", "B", ".", "X">>

MCTree ==
  "/"       :> DirNode(0, <<AX, <<"D">>>>, AX :> "/A.X" @@ <<"D">> :> "/D") @@
  "/A.X"    :> FileNode([k \in 1 .. 20 |-> <<"A.X", k>>]) @@
  "/D"      :> DirNode(3, Dots \o <<<<"B">>, <<"E">>, ABX>>,
                       <<"B">> :> "/D/B" @@ <<"E">> :> "/D/E" @@ ABX :> "/D/AB.X") @@
  "/D/B"    :> FileNode([k \in 1 .. 5 |-> <<"B", k>>]) @@
  "/D/E"    :> DirNode(7, Dots \o <<AX>>, AX :> "/D/E/A.X") @@
  "/D/AB.X" :> FileNode(<<>>) @@
  "/D/E/A.X" :> FileNode(<<>>)

MCNames == {<<"a", ".", "X">>, <<"d">>, <<"B">>, <<"E">>, ABX, <<"B", "B">>}

MCCaseFold ==
  "a" :> "a" @@ "A" :> "a" @@ "B" :> "b" @@ "d" :> "d" @@ "D" :> "d" @@
  "E" :> "e" @@ "X" :> "x" @@ "." :> "."
=============================================================================
