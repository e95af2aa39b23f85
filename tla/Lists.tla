------------------------------- MODULE Lists --------------------------------
(***************************************************************************)
(* The std::list and std::queue members of the library hold pointers to    *)
(* tile buffers or views: what matters of them is who is in, and in which  *)
(* order.                                                                  *)
(***************************************************************************)
EXTENDS Integers, Sequences

(* The members of a list, and a list that names none of them twice.        *)
Elems(q) == {q[i] : i \in 1..Len(q)}
NoRepeat(q) == \A i, j \in 1..Len(q) : q[i] = q[j] => i = j
=============================================================================
