----------------------------- MODULE ChainReads -----------------------------
(***************************************************************************)
(* The calls of BlockHashes and of BlockProofs on one changing chain; each *)
(* behaviour is about one kind of call.                                    *)
(***************************************************************************)
EXTENDS BlockHashes, BlockProofs

vars == <<chainVars, hashVars, proofVars>>

Init == ChainInit /\ HashesInit /\ ProofsInit

\* What has ended is no longer followed.
Ended == IF kind = "hashes" THEN Len(fetched) = 2 ELSE result # None

Next ==
    /\ ~Ended
    /\ \/ ChainNext /\ UNCHANGED <<hashVars, proofVars>>
       \/ HashesNext /\ UNCHANGED proofVars
       \/ ProofsNext /\ UNCHANGED hashVars

Spec == Init /\ [][Next]_vars
=============================================================================
