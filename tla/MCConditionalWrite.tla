------------------------ MODULE MCConditionalWrite ------------------------
(* Small limits for ConditionalWrite.  As in the code, Graph's chunk is      *)
(* larger than its single-request limit and Dropbox's is much smaller.       *)
EXTENDS ConditionalWrite, TLC

Limits == ("graph" :> 1) @@ ("dropbox" :> 3)
Chunks == ("graph" :> 3) @@ ("dropbox" :> 2)
=============================================================================
