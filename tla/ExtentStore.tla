---------------------------- MODULE ExtentStore -----------------------------
(***************************************************************************)
(* What the file system of the raid promises, without disks, entries,      *)
(* processes or crashes: a set of named extents of blocks.  One step adds  *)
(* one file to the right of all the others, gives one file another end     *)
(* that no other file is in the way of, or removes files.                  *)
(***************************************************************************)
EXTENDS Integers

VARIABLE files   \* records with a name, a startBlock and an endBlock

Apart(f, g) == f.endBlock <= g.startBlock \/ g.endBlock <= f.startBlock

Init == files = {}

Add == \E f \in files' \ files :
          /\ files' = files \cup {f}
          /\ f.startBlock <= f.endBlock
          /\ \A g \in files : g.name # f.name /\ g.endBlock <= f.startBlock

Resize == \E f \in files, g \in files' :
          /\ files' = (files \ {f}) \cup {g}
          /\ g.name = f.name
          /\ g.startBlock = f.startBlock
          /\ g.startBlock <= g.endBlock
          /\ \A h \in files \ {f} : Apart(h, g)

Remove == files' \subseteq files

Next == Add \/ Resize \/ Remove

Spec == Init /\ [][Next]_files

\* The extents of two files have no block in common.
FilesApart == \A f, g \in files : f # g => Apart(f, g)

\* A name stands for one file.
OneFilePerName == \A f, g \in files : f.name = g.name => f = g
=============================================================================
