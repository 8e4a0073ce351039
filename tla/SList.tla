------------------------------- MODULE SList --------------------------------
(***************************************************************************)
(* base::slist (base/slist.hpp), a list of nodes with a count, a head and  *)
(* a tail pointer.  A list is a record:                                    *)
(*   items  what is linked from _head on                                   *)
(*   tail   where _tail points: "null", at the "last" of the items, or at  *)
(*          a node that is not linked from _head ("stray")                 *)
(*   count  _count                                                         *)
(***************************************************************************)
EXTENDS Naturals, Sequences

EmptyList == [items |-> <<>>, tail |-> "null", count |-> 0]

Lists(S) == [items : Seq(S), tail : {"null", "last", "stray"}, count : Nat]

\* The list is what its users take it for, the sequence of its items.
IsSequence(l) ==
  /\ l.count = Len(l.items)
  /\ l.tail = IF l.items = <<>> THEN "null" ELSE "last"

\* push_back of every member of s.
Pushed(l, s) ==
  LET linked == l.tail = "last" \/ l.items = <<>>
  IN  IF s = <<>> THEN l
      ELSE [items |-> IF linked THEN l.items \o s ELSE l.items,
            tail  |-> IF linked THEN "last" ELSE "stray",
            count |-> l.count + Len(s)]

push_back(l, x) == Pushed(l, <<x>>)

\* front() reads through _head.
HasFront(l) == l.items # <<>>
front(l) == Head(l.items)

pop_frontTailKept(l) ==  \* mutant: _tail is left at the node deleted
  IF l.items = <<>> THEN l
  ELSE [items |-> Tail(l.items), tail |-> l.tail, count |-> l.count - 1]
pop_front(l) ==
  IF l.items = <<>> THEN l
  ELSE [items |-> Tail(l.items),
        tail  |-> IF l.tail = "last" /\ Len(l.items) = 1 THEN "null" ELSE l.tail,
        count |-> l.count - 1]

\* join(): all of o goes to the end of l; _tail becomes that of o.
join(l, o) ==
  [items |-> CASE l.tail = "last"  -> l.items \o o.items
               [] l.tail = "stray" -> l.items
               [] l.tail = "null"  -> o.items,
   tail  |-> IF l.tail = "stray" /\ o.tail = "last" THEN "stray" ELSE o.tail,
   count |-> l.count + o.count]
=============================================================================
