----------------------------- MODULE AppendStore -----------------------------
(***************************************************************************)
(* What a caller of `mutateJsonStore` may rely on when everybody appends   *)
(* through it: the store takes one entry at a time and forgets none.       *)
(***************************************************************************)
CONSTANT Entries
VARIABLE contents

Init == contents = {}

Append(e) == contents' = contents \cup {e}

Next == \E e \in Entries : Append(e)

Spec == Init /\ [][Next]_contents
=============================================================================
