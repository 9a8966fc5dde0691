------------------------------ MODULE MCBuffer ------------------------------
(***************************************************************************)
(* A small instance of Buffer for TLC: two cells, a message that ends in   *)
(* the zero a new account is filled with, and one that does not parse.     *)
(***************************************************************************)
EXTENDS Buffer, Claims

Act(tag, a, n) == [tag |-> tag, address |-> a, value |-> n, accounts |-> 0]
Close == Act("CloseMultisig", DEFAULT, 0)

BufferGenesis == {[owners |-> <<1>>, threshold |-> 1, config_authority |-> 2]}
Sent == <<Act("ChangeThreshold", DEFAULT, 1)>>
BufferMessages == {Sent, <<Close>>}
BufferActions == {Act("SetPermission", 1, VOTE), Close}

CompiledContents == [c \in {<<1, 0>>} |-> Sent]
CommittedContents == {<<1, 0>>, <<1, 1>>}
BlankHashes == {<<1, 1>>}

\* Bound: a behaviour is not followed past a proposal written as a multisig.
NoneMisread == misread = {}
=============================================================================
