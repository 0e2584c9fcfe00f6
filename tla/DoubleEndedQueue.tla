-------------------------- MODULE DoubleEndedQueue --------------------------
(***************************************************************************)
(* What quash's deque.h promises its users: a sequence that is pushed,     *)
(* popped, read and updated at both ends.  A pop, peek or update of an     *)
(* empty deque, and any use of one that was not made, aborts the program;  *)
(* running out of memory ends it too.                                      *)
(***************************************************************************)
EXTENDS Naturals, Sequences

CONSTANTS Elements, Nothing

VARIABLES items,     \* front first
          state,     \* "none" before and after the deque's life, "valid", or how the
                     \* program ended: "aborted", "exhausted"
          out        \* the last call and what it was given, returned or passed on

vars == <<items, state, out>>

Front(s) == SubSeq(s, 1, Len(s) - 1)
Back(s) == s[Len(s)]

Init == items = <<>> /\ state = "none" /\ out = <<"none", Nothing>>

New ==
    /\ state = "none" /\ state' = "valid"
    /\ items' = <<>>
    /\ out' = <<"new", Nothing>>

\* The elements go to the destructor, or to the caller as an array, in order.
Close ==
    /\ state = "valid" /\ state' = "none"
    /\ out' \in {<<"destroy", items>>, <<"as_array", items>>}
    /\ items' = <<>>

Become(s, call, result) ==
    /\ state = "valid"
    /\ items' = s
    /\ out' = <<call, result>>
    /\ UNCHANGED state

Push(e) ==
    \/ Become(<<e>> \o items, "push_front", e)
    \/ Become(Append(items, e), "push_back", e)

AtFront ==
    /\ items # <<>>
    /\ \/ Become(Tail(items), "pop_front", Head(items))
       \/ Become(items, "peek_front", Head(items))
       \/ \E e \in Elements : Become(<<e>> \o Tail(items), "update_front", e)

AtBack ==
    /\ items # <<>>
    /\ \/ Become(Front(items), "pop_back", Back(items))
       \/ Become(items, "peek_back", Back(items))
       \/ \E e \in Elements : Become(Append(Front(items), e), "update_back", e)

Whole ==
    \/ Become(<<>>, "empty", Nothing)
    \/ Become(items, "length", Len(items))
    \/ Become(items, "apply", items)

Abort ==
    /\ state = "none" \/ (state = "valid" /\ items = <<>>)
    /\ state' = "aborted"
    /\ UNCHANGED <<items, out>>

OutOfMemory ==
    /\ state \in {"none", "valid"}
    /\ state' = "exhausted"
    /\ UNCHANGED <<items, out>>

Next ==
    \/ New \/ Close \/ AtFront \/ AtBack \/ Whole
    \/ Abort \/ OutOfMemory
    \/ \E e \in Elements : Push(e)

Spec == Init /\ [][Next]_vars
=============================================================================
