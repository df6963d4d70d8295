------------------------------ MODULE Allocator ------------------------------
(***************************************************************************)
(* What the kernel heap promises to its callers, without blocks, headers   *)
(* or lists: a set of live buffers, each a run of bytes nobody else holds. *)
(* An allocation may fail at any time; a success is always a buffer of at  *)
(* least the requested length, aligned to 16 bytes, inside the heap and    *)
(* apart from every live buffer.                                           *)
(***************************************************************************)
EXTENDS Integers

CONSTANTS Lo, Hi,      \* the heap occupies the bytes Lo .. Hi - 1
          Requests     \* the sizes callers ask for

Aligned == {x \in Lo .. Hi : x % 16 = 0}

VARIABLE live          \* pointer handed out -> bytes the caller asked for

Apart(p, n, q, m) == p + n <= q \/ q + m <= p

(* n bytes at p can be handed out beside the buffers of `held`. *)
Available(held, p, n) ==
  /\ p + n <= Hi
  /\ \A q \in DOMAIN held : Apart(p, n, q, held[q])

With(held, p, n) == [q \in DOMAIN held \cup {p} |-> IF q = p THEN n ELSE held[q]]
Without(held, p) == [q \in DOMAIN held \ {p} |-> held[q]]

Init == live = [p \in {} |-> 0]

Alloc == \E n \in Requests, p \in Aligned :
           /\ n > 0
           /\ p \notin DOMAIN live
           /\ Available(live, p, n)
           /\ live' = With(live, p, n)

Free == \E p \in DOMAIN live : live' = Without(live, p)

(* A buffer grows or shrinks, in place or by moving. *)
Resize == \E n \in Requests, p \in DOMAIN live, q \in Aligned :
            /\ n > 0
            /\ q = p \/ q \notin DOMAIN live
            /\ Available(Without(live, p), q, n)
            /\ live' = With(Without(live, p), q, n)

Next == Alloc \/ Free \/ Resize

Spec == Init /\ [][Next]_live
=============================================================================
