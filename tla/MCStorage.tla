----------------------------- MODULE MCStorage -----------------------------
(***************************************************************************)
(* A small instance of Storage for TLC: addresses of two cells and bitmap  *)
(* cells of two bits, so that lists, shifts and bitmaps cross cells.       *)
(***************************************************************************)
EXTENDS Storage

Act(tag, a, n) == [tag |-> tag, address |-> a, value |-> n]

StorageGenesis == {[owners |-> <<1, 5, 8>>, threshold |-> 2]}
StorageActions ==
    {Act("AddOwner", a, 0) : a \in Address}
        \cup {Act("RemoveOwner", a, 0) : a \in Address}
        \cup {Act("SetPermission", a, mask) : a \in {1, 8}, mask \in {0, INITIATE, ALL + 1}}
        \cup {Act("ChangeThreshold", DEFAULT, n) : n \in 0..1}
StoredMessage == <<3, 1>>
=============================================================================
