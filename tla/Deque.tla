------------------------------- MODULE Deque -------------------------------
(***************************************************************************)
(* quash, deque.h: the functions that IMPLEMENT_DEQUE and                  *)
(* IMPLEMENT_DEQUE_MEMORY_POOL generate, which differ in where the buffer  *)
(* comes from only.  A ring of cap slots holds at most cap - 1 elements; a *)
(* push that finds no room moves them into a buffer of twice the slots.    *)
(*                                                                         *)
(* size_t wraps, but back - front + cap and front + cap - 1 are taken      *)
(* modulo cap from a number that is not negative; the model adds first.    *)
(* An action is one call.  A failed assert, abort() or exit() ends the     *)
(* program.                                                                *)
(***************************************************************************)
EXTENDS Integers, Sequences

CONSTANTS DequeElements,  \* what a deque holds
          InitCaps,       \* bound: the capacities asked for
          MaxLength       \* bound: elements in the deque

ASSUME DequeAssumption ==
    /\ InitCaps \subseteq Nat
    /\ MaxLength \in Nat

Unset == 0              \* a slot not written to, and no result

VARIABLES deq,      \* the structure: data, cap, front, back
          state,    \* "none" while data is NULL, "valid", "aborted", "exhausted"
          outcome   \* the last call and what it was given, returned or passed on

dequeVars == <<deq, state, outcome>>

Destroyed == [data |-> <<>>, cap |-> 0, front |-> 0, back |-> 0]

DequeInit == deq = Destroyed /\ state = "none" /\ outcome = <<"none", Unset>>

Buffer(slots) == [i \in 0 .. slots - 1 |-> Unset]

is_empty(d) == d.front = d.back
length(d) == (d.back + d.cap - d.front) % d.cap

\* The elements from front on, as apply and the copying loops visit them.
Items(d) ==
    IF d.cap = 0 THEN <<>>
    ELSE [i \in 1 .. length(d) |-> d.data[(d.front + i - 1) % d.cap]]

\* The buffer with the first n elements moved to its beginning.
Moved(d, n, cap) ==
    [data |-> [i \in 0 .. cap - 1 |->
                  IF i < n THEN d.data[(d.front + i) % d.cap] ELSE Unset],
     cap |-> cap, front |-> 0, back |-> n]

reallign(d) == IF d.front # 0 THEN Moved(d, length(d), d.cap) ELSE d

on_push(d) ==
    IF d.front = (d.back + 1) % d.cap THEN Moved(d, d.cap - 1, 2 * d.cap) ELSE d

-----------------------------------------------------------------------------

\* A buffer of init_cap slots, also when init_cap is 0 and cap becomes 1.
new(init_cap) ==
    /\ state = "none" /\ state' = "valid"
    /\ deq' = [data |-> Buffer(init_cap), cap |-> IF init_cap > 0 THEN init_cap ELSE 1,
               front |-> 0, back |-> 0]
    /\ outcome' = <<"new", Unset>>

Close(call, result) ==
    /\ state = "valid" /\ state' = "none"
    /\ deq' = Destroyed
    /\ outcome' = <<call, result>>

\* The destructor, where there is one, gets every element; without data it returns.
destroy == Close("destroy", Items(deq))

as_array ==
    LET d == reallign(deq)
    IN  Close("as_array", [i \in 1 .. length(d) |-> d.data[i - 1]])

Answer(d, call, result) ==
    /\ state = "valid"
    /\ deq' = d
    /\ outcome' = <<call, result>>
    /\ UNCHANGED state

\* Mutant of push_front: the slot is written to before front moves.
PushFrontWritesFirst(e) ==
    LET d == on_push(deq)
    IN  Answer([d EXCEPT !.front = (d.front + d.cap - 1) % d.cap, !.data[d.front] = e],
               "push_front", e)

push_front(e) ==
    LET d == on_push(deq)
        f == (d.front + d.cap - 1) % d.cap
    IN  Answer([d EXCEPT !.front = f, !.data[f] = e], "push_front", e)

\* Mutant of push_back: back is not wrapped.
PushBackNoWrap(e) ==
    LET d == on_push(deq)
    IN  Answer([d EXCEPT !.data[d.back] = e, !.back = d.back + 1], "push_back", e)

push_back(e) ==
    LET d == on_push(deq)
    IN  Answer([d EXCEPT !.data[d.back] = e, !.back = (d.back + 1) % d.cap],
               "push_back", e)

last(d) == (d.back + d.cap - 1) % d.cap

AtFront ==
    /\ ~is_empty(deq)
    /\ \/ Answer([deq EXCEPT !.front = (deq.front + 1) % deq.cap],
                 "pop_front", deq.data[deq.front])
       \/ Answer(deq, "peek_front", deq.data[deq.front])
       \/ \E e \in DequeElements :
             Answer([deq EXCEPT !.data[deq.front] = e], "update_front", e)

AtBack ==
    /\ ~is_empty(deq)
    /\ \/ Answer([deq EXCEPT !.back = last(deq)], "pop_back", deq.data[last(deq)])
       \/ Answer(deq, "peek_back", deq.data[last(deq)])
       \/ \E e \in DequeElements :
             Answer([deq EXCEPT !.data[last(deq)] = e], "update_back", e)

Whole ==
    \/ Answer([deq EXCEPT !.front = 0, !.back = 0], "empty", Unset)
    \/ Answer(deq, "length", length(deq))
    \/ Answer(deq, "apply", Items(deq))

\* The assertions of every call but new and destroy, and the test of on_pop.
Abort ==
    /\ state = "none" \/ (state = "valid" /\ is_empty(deq))
    /\ state' = "aborted"
    /\ UNCHANGED <<deq, outcome>>

\* malloc fails: in new, in a push that finds no room, in an as_array that realligns.
OutOfMemory ==
    /\ \/ state = "none"
       \/ state = "valid" /\ deq.front = (deq.back + 1) % deq.cap
       \/ state = "valid" /\ deq.front # 0
    /\ state' = "exhausted"
    /\ UNCHANGED <<deq, outcome>>

Bounded == state = "valid" /\ length(deq) < MaxLength

Ended == state \in {"aborted", "exhausted"} /\ UNCHANGED dequeVars

DequeNext ==
    \/ \E n \in InitCaps : new(n)
    \/ destroy \/ as_array
    \/ \E e \in DequeElements : Bounded /\ (push_front(e) \/ push_back(e))
    \/ AtFront \/ AtBack \/ Whole
    \/ Abort \/ OutOfMemory \/ Ended

DequeSpec == DequeInit /\ [][DequeNext]_dequeVars

-----------------------------------------------------------------------------

\* Indices stay inside the ring and, but for an empty buffer of capacity 1 that no
\* call touches before it grows, the buffer has as many slots as the capacity says.
DequeTypeOK ==
    /\ state \in {"none", "valid", "aborted", "exhausted"}
    /\ deq = [data |-> deq.data, cap |-> deq.cap, front |-> deq.front, back |-> deq.back]
    /\ deq.cap \in Nat
    /\ deq.cap = 0 => deq = Destroyed
    /\ deq.cap > 0 =>
         /\ deq.front \in 0 .. deq.cap - 1
         /\ deq.back \in 0 .. deq.cap - 1
         /\ \/ deq.data \in [0 .. deq.cap - 1 -> DequeElements \cup {Unset}]
            \/ deq.data = Buffer(0) /\ deq.cap = 1
    /\ state = "none" => deq.cap = 0
    /\ state = "valid" => deq.cap > 0

\* Whatever the order of the calls, and wherever the ring wraps or grows, the deque
\* is the sequence its users think it is, to the last result.
Sequence == INSTANCE DoubleEndedQueue
                WITH Elements <- DequeElements, Nothing <- Unset,
                     items <- Items(deq), out <- outcome
ImplementsDeque == Sequence!Spec

=============================================================================
