----------------------------- MODULE BlockStore -----------------------------
(***************************************************************************)
(* What copying files into the raid promises, without commands, queues,    *)
(* buffers or completions: while a file is being copied, any sectors that  *)
(* belong to it may get the content they should have, and nothing else on  *)
(* the disks ever changes.                                                 *)
(***************************************************************************)
CONSTANTS
    Files,      \* the files that may be copied
    NoFile,     \* the owner when no file is being copied
    Wanted(_)   \* the content a file should have: a function on its sectors

VARIABLES
    sectors,    \* what every sector holds
    owner       \* the file that is being copied

Begin(f) == owner = NoFile /\ owner' = f /\ UNCHANGED sectors

End == owner' = NoFile /\ UNCHANGED sectors

Put ==
    /\ owner # NoFile
    /\ \A p \in DOMAIN sectors :
         sectors'[p] # sectors[p] =>
           p \in DOMAIN Wanted(owner) /\ sectors'[p] = Wanted(owner)[p]
    /\ DOMAIN sectors' = DOMAIN sectors
    /\ UNCHANGED owner

Next == End \/ Put \/ \E f \in Files : Begin(f)

Spec == owner = NoFile /\ [][Next]_<<sectors, owner>>
=============================================================================
