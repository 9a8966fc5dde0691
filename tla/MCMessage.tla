----------------------------- MODULE MCMessage -----------------------------
(***************************************************************************)
(* The compiled message with cells of eight values and two tables.         *)
(***************************************************************************)
EXTENDS CompiledMessage

Ix(program, accounts, data) ==
    [program_id_index |-> program, account_indexes |-> accounts, data |-> data]
Via(key, writable, readonly) ==
    [account_key |-> key, writable_indexes |-> writable, readonly_indexes |-> readonly]

\* All four groups and two tables, one index of which may not be filled yet;
\* the second program comes from a table, and may turn out to be this one.
Everything ==
    [num_signers |-> 2, num_writable_signers |-> 1, num_writable_non_signers |-> 1,
     account_keys |-> <<1, 2, 3, 5>>,
     instructions |-> <<Ix(3, <<0, 1, 2, 4, 6>>, <<1>>), Ix(7, <<5>>, <<>>)>>,
     lookups |-> <<Via(6, <<0>>, <<1>>), Via(7, <<0>>, <<0>>)>>]

\* More accounts than one call takes.
Crowded == [Everything EXCEPT !.instructions = <<Ix(3, <<0, 1, 2, 3, 0, 1>>, <<>>)>>, !.lookups = <<>>]

\* As many indexes as a cell has values: the count is written as zero.
TooLong == [Crowded EXCEPT !.instructions = <<Ix(3, <<0, 0, 0, 0, 0, 0, 0, 0>>, <<>>)>>]

\* Writable non-signers past the keys, and an index past the loaded accounts.
Overdrawn == [Transfer(1, 3, 1) EXCEPT !.num_writable_non_signers = 3]
OutOfRange == [Transfer(1, 3, 1) EXCEPT !.instructions[1].account_indexes = <<0, 3>>]

MCClientMessages ==
    {Transfer(1, 3, 4), ConfigActionMessage(2, <<3>>), Everything, Crowded, TooLong,
     Overdrawn, OutOfRange}
=============================================================================
