----------------------------- MODULE ReadyLists -----------------------------
(***************************************************************************)
(* Insertion into and removal from the middle of a list (std::list insert  *)
(* and erase with an iterator).                                            *)
(***************************************************************************)
EXTENDS Integers, Sequences

\* e becomes the i-th element.
insert(list, i, e) ==
  [k \in 1 .. Len(list) + 1 |->
     IF k < i THEN list[k] ELSE IF k = i THEN e ELSE list[k - 1]]

erase(list, i) ==
  [k \in 1 .. Len(list) - 1 |-> IF k < i THEN list[k] ELSE list[k + 1]]
=============================================================================
