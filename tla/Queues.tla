------------------------------- MODULE Queues -------------------------------
(* Sequences as the std::queue of a thread pool. *)
EXTENDS Naturals, Sequences

Queued(x, s) == \E i \in 1 .. Len(s) : s[i] = x
Distinct(s) == \A i, j \in 1 .. Len(s) : s[i] = s[j] => i = j
=============================================================================
