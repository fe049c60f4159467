--------------------------- MODULE MCDropboxLock ---------------------------
(* Small instances of DropboxLock: which worker calls which adapter. *)
EXTENDS DropboxLock, TLC

\* Every worker is the only one of its process.
OwnAdapter == [w \in Worker |-> w]

\* Two scheduler threads of service "a" share its adapter; "b" is another
\* service.
SharedAdapter == ("a1" :> "a") @@ ("a2" :> "a") @@ ("b1" :> "b")
=============================================================================
