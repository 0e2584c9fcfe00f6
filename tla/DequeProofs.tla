---------------------------- MODULE DequeProofs ----------------------------
(***************************************************************************)
(* The deque of deque.h is the sequence its users think it is, for every   *)
(* capacity and every number of elements.                                  *)
(***************************************************************************)
EXTENDS Deque, SequenceTheorems, TLAPS

USE DequeAssumption

\* What a slot of the array can hold.
Values == DequeElements \cup {Unset}

\* A structure a call may work on.
Ring(d) ==
    /\ d = [data |-> d.data, cap |-> d.cap, front |-> d.front, back |-> d.back]
    /\ d.cap \in Nat /\ d.cap > 0
    /\ d.front \in 0 .. d.cap - 1
    /\ d.back \in 0 .. d.cap - 1
    /\ d.cap > 1 => d.data \in [0 .. d.cap - 1 -> Values]

\* The ring without the modulus: the slot after and before b, how far back is from
\* front, and the slot of the i-th element, from 1.
Following(b, c) == IF b + 1 < c THEN b + 1 ELSE 0
\* The slot before b, how far it is from f to b, and the slot of the element i, round an
\* array of c slots.
Previous(b, c) == IF b > 0 THEN b - 1 ELSE c - 1
Distance(f, b, c) == IF f <= b THEN b - f ELSE b - f + c
Place(f, i, c) == IF f + i - 1 < c THEN f + i - 1 ELSE f + i - 1 - c

\* The slot of the element i of d.
Slot(d, i) == Place(d.front, i, d.cap)

-----------------------------------------------------------------------------

\* The modulus of a number below twice the divisor.
LEMMA ModTwice ==
    ASSUME NEW n \in Nat, n > 0, NEW x \in 0 .. 2 * n - 1
    PROVE  x % n = IF x < n THEN x ELSE x - n
<1>1. CASE x < n  BY <1>1
<1>2. CASE x >= n  BY <1>2
<1> QED  BY <1>1, <1>2

\* The slots after and before a slot of the ring.
LEMMA NextSlot ==
    ASSUME NEW n \in Nat, n > 0, NEW b \in 0 .. n - 1
    PROVE  (b + 1) % n = Following(b, n)
<1>1. CASE b + 1 < n  BY <1>1 DEF Following
<1>2. CASE b + 1 >= n
  <2>1. b + 1 = n  BY <1>2
  <2> QED  BY <2>1 DEF Following
<1> QED  BY <1>1, <1>2

\* The remainder that deque_push_front computes is the slot before.
LEMMA PreviousSlot ==
    ASSUME NEW n \in Nat, n > 0, NEW b \in 0 .. n - 1
    PROVE  (b + n - 1) % n = Previous(b, n)
<1> DEFINE x == b + n - 1
<1>1. x \in 0 .. 2 * n - 1  OBVIOUS
<1> HIDE DEF x
<1>2. x % n = IF x < n THEN x ELSE x - n  BY <1>1, ModTwice
<1> QED  BY <1>1, <1>2 DEF x, Previous

\* Moving back on or front back by one slot makes the distance one longer, as long
\* as a slot stays free.
LEMMA Lengthening ==
    ASSUME NEW c \in Nat, NEW f \in 0 .. c - 1, NEW b \in 0 .. c - 1,
           Distance(f, b, c) + 1 < c
    PROVE  /\ Distance(f, Following(b, c), c) = Distance(f, b, c) + 1
           /\ Distance(Previous(f, c), b, c) = Distance(f, b, c) + 1
  BY DEF Distance, Following, Previous

\* Moving them the other way makes it one shorter, unless they met.
LEMMA Shortening ==
    ASSUME NEW c \in Nat, NEW f \in 0 .. c - 1, NEW b \in 0 .. c - 1, f # b
    PROVE  /\ Distance(f, Previous(b, c), c) = Distance(f, b, c) - 1
           /\ Distance(Following(f, c), b, c) = Distance(f, b, c) - 1
  BY DEF Distance, Following, Previous

\* Neighbouring slots, and back as the slot behind the last element.
LEMMA InRing ==
    ASSUME NEW c \in Nat, NEW b \in 0 .. c - 1
    PROVE  Following(b, c) \in 0 .. c - 1 /\ Previous(b, c) \in 0 .. c - 1
  BY DEF Following, Previous

\* The elements lie in slots of their own, none of them at the back.
LEMMA Places ==
    ASSUME NEW c \in Nat, NEW f \in 0 .. c - 1, NEW b \in 0 .. c - 1,
           NEW i \in 1 .. Distance(f, b, c)
    PROVE  /\ Place(f, i, c) \in 0 .. c - 1
           /\ Place(f, i, c) # b
           /\ Distance(f, b, c) + 1 < c => Place(f, i, c) # Previous(f, c)
           /\ Place(f, i, c) = f <=> i = 1
           /\ Place(f, i, c) = Previous(b, c) <=> i = Distance(f, b, c)
  BY DEF Distance, Previous, Place

\* How an element is numbered after a push or a pop at either end.
LEMMA PlacesMove ==
    ASSUME NEW c \in Nat, NEW f \in 0 .. c - 1, NEW b \in 0 .. c - 1
    PROVE  /\ Place(f, 1, c) = f
           /\ Place(f, Distance(f, b, c) + 1, c) = b
           /\ \A i \in 1 .. c - 1 : /\ Place(Previous(f, c), i + 1, c) = Place(f, i, c)
                                    /\ Place(Following(f, c), i, c) = Place(f, i + 1, c)
  BY DEF Distance, Following, Previous, Place

\* length() is the distance from front to back, around the ring.
LEMMA LengthIs ==
    ASSUME NEW d, Ring(d)
    PROVE  /\ d.cap \in Nat /\ d.cap > 0
           /\ d.front \in 0 .. d.cap - 1 /\ d.back \in 0 .. d.cap - 1
           /\ length(d) \in Nat /\ length(d) < d.cap
           /\ length(d) = Distance(d.front, d.back, d.cap)
           /\ is_empty(d) <=> d.front = d.back
           /\ is_empty(d) <=> length(d) = 0
<1> DEFINE n == d.cap
           f == d.front
           b == d.back
           x == b + n - f
<1>1. n \in Nat /\ n > 0 /\ f \in 0 .. n - 1 /\ b \in 0 .. n - 1  BY DEF Ring
<1>2. length(d) = x % n  BY DEF length
<1>3. is_empty(d) <=> f = b  BY DEF is_empty
<1> HIDE DEF n, f, b
<1>4. x \in 0 .. 2 * n - 1  BY <1>1
<1> HIDE DEF x
<1>5. x % n = IF x < n THEN x ELSE x - n  BY <1>1, <1>4, ModTwice
<1>6. length(d) = Distance(f, b, n)  BY <1>1, <1>2, <1>5 DEF x, Distance
<1>7. length(d) \in Nat /\ length(d) < n /\ (f = b <=> length(d) = 0)
  BY <1>1, <1>6 DEF Distance
<1> QED  BY <1>1, <1>3, <1>6, <1>7 DEF n, f, b

\* What Items is, slot by slot.
LEMMA ItemsAre ==
    ASSUME NEW d, Ring(d)
    PROVE  /\ Items(d) \in Seq(Values)
           /\ Len(Items(d)) = length(d)
           /\ \A i \in 1 .. length(d) : /\ Items(d)[i] = d.data[Slot(d, i)]
                                        /\ Slot(d, i) \in 0 .. d.cap - 1
<1> DEFINE n == length(d)
<1>1. n \in Nat /\ n < d.cap /\ d.cap \in Nat /\ d.front \in 0 .. d.cap - 1  BY LengthIs
<1>2. ASSUME NEW i \in 1 .. n
      PROVE  /\ Slot(d, i) \in 0 .. d.cap - 1
             /\ (d.front + i - 1) % d.cap = Slot(d, i)
             /\ d.data[Slot(d, i)] \in Values
  <2> DEFINE x == d.front + i - 1
             c == d.cap
  <2>1. x \in 0 .. 2 * c - 1 /\ c \in Nat /\ c > 1  BY <1>1
  <2> HIDE DEF x, c
  <2>2. x % c = IF x < c THEN x ELSE x - c  BY <2>1, ModTwice
  <2>3. (IF x < c THEN x ELSE x - c) \in 0 .. c - 1  BY <2>1
  <2>4. Slot(d, i) = Place(d.front, i, d.cap)  BY DEF Slot
  <2>6. Place(d.front, i, d.cap) = IF x < c THEN x ELSE x - c  BY <1>1 DEF Place, x, c
  <2>5. d.data \in [0 .. c - 1 -> Values]  BY <2>1 DEF Ring, c
  <2> QED  BY <2>2, <2>3, <2>4, <2>5, <2>6 DEF x, c
<1>3. Items(d) = [i \in 1 .. n |-> d.data[(d.front + i - 1) % d.cap]]
  BY <1>1 DEF Items
<1>4. \A i \in 1 .. n : d.data[(d.front + i - 1) % d.cap] \in Values  BY <1>2
<1> HIDE DEF n
<1>5. Items(d) \in [1 .. n -> Values]  BY <1>3, <1>4
<1>6. Items(d) \in Seq(Values) /\ Len(Items(d)) = n  BY <1>1, <1>5
<1>7. \A i \in 1 .. n : Items(d)[i] = d.data[Slot(d, i)]  BY <1>2, <1>3
<1> QED  BY <1>2, <1>6, <1>7 DEF n

\* A sequence that agrees with a ring element by element is its contents.
LEMMA SameItems ==
    ASSUME NEW d, Ring(d), NEW s \in Seq(Values), Len(s) = length(d),
           \A i \in 1 .. length(d) : s[i] = d.data[Slot(d, i)]
    PROVE  Items(d) = s
<1>1. \A i \in 1 .. Len(Items(d)) : Items(d)[i] = s[i]  BY ItemsAre
<1> QED  BY <1>1, ItemsAre, SeqEqual

\* The copying loops of __reallign and __on_push keep the contents.
LEMMA MovedKeeps ==
    ASSUME NEW d, Ring(d), NEW cap \in Nat, cap > length(d),
           NEW m, m = Moved(d, length(d), cap)
    PROVE  /\ Ring(m) /\ length(m) = length(d) /\ Items(m) = Items(d)
           /\ m.cap = cap /\ m.front = 0 /\ m.data \in [0 .. cap - 1 -> Values]
<1> DEFINE n == length(d)
<1>1. n \in Nat /\ n < d.cap /\ d.cap \in Nat /\ d.front \in 0 .. d.cap - 1  BY LengthIs
<1>2. ASSUME NEW i \in 0 .. n - 1
      PROVE  d.data[(d.front + i) % d.cap] = Items(d)[i + 1]
             /\ Items(d)[i + 1] \in Values
  <2>1. i + 1 \in 1 .. n /\ d.front + i = d.front + (i + 1) - 1  BY <1>1
  <2>2. Items(d) = [j \in 1 .. n |-> d.data[(d.front + j - 1) % d.cap]]
    BY <1>1 DEF Items
  <2>3. Items(d)[i + 1] = d.data[(d.front + i) % d.cap]  BY <2>1, <2>2
  <2>4. Items(d)[i + 1] \in Values  BY <2>1, ItemsAre, ElementOfSeq
  <2> QED  BY <2>3, <2>4
<1>3. /\ m.cap = cap /\ m.front = 0 /\ m.back = n
      /\ m.data = [i \in 0 .. cap - 1 |->
                     IF i < n THEN d.data[(d.front + i) % d.cap] ELSE Unset]
      /\ m = [data |-> m.data, cap |-> m.cap, front |-> m.front, back |-> m.back]
  BY DEF Moved
<1> HIDE DEF n
<1>4. m.data \in [0 .. cap - 1 -> Values]
  <2>1. \A i \in 0 .. cap - 1 :
           (IF i < n THEN d.data[(d.front + i) % d.cap] ELSE Unset) \in Values
    BY <1>1, <1>2 DEF Values
  <2> QED  BY <1>3, <2>1
<1>5. n < cap  BY DEF n
<1>6. Ring(m)  BY <1>1, <1>3, <1>4, <1>5 DEF Ring
<1>7. length(m) = n  BY <1>1, <1>3, <1>6, LengthIs DEF Distance
<1>8. ASSUME NEW i \in 1 .. n PROVE Items(d)[i] = m.data[Slot(m, i)]
  <2>1. i - 1 \in 0 .. n - 1 /\ i - 1 \in 0 .. cap - 1 /\ i = (i - 1) + 1  BY <1>1, <1>5
  <2>2. Slot(m, i) = i - 1  BY <1>1, <1>3, <1>5 DEF Slot, Place
  <2>3. m.data[i - 1] = d.data[(d.front + (i - 1)) % d.cap]  BY <1>1, <1>3, <2>1
  <2>4. d.data[(d.front + (i - 1)) % d.cap] = Items(d)[i]  BY <2>1, <1>2
  <2> QED  BY <2>2, <2>3, <2>4
<1>9. Items(d) \in Seq(Values) /\ Len(Items(d)) = length(m)
  BY <1>7, ItemsAre DEF n
<1>10. Items(m) = Items(d)  BY <1>6, <1>7, <1>8, <1>9, SameItems
<1> QED  BY <1>3, <1>4, <1>6, <1>7, <1>10 DEF n

\* After __on_push there is room for one more element, and nothing else changed.
LEMMA RoomForOne ==
    ASSUME NEW d, Ring(d), NEW r, r = on_push(d)
    PROVE  Ring(r) /\ Items(r) = Items(d) /\ length(r) + 1 < r.cap
<1> DEFINE c == d.cap
           f == d.front
           b == d.back
<1>1. c \in Nat /\ c > 0 /\ f \in 0 .. c - 1 /\ b \in 0 .. c - 1
      /\ length(d) = Distance(f, b, c)  BY LengthIs
<1>2. (b + 1) % c = Following(b, c)  BY <1>1, NextSlot
<1>3. CASE f = (b + 1) % c
  <2> HIDE DEF c, f, b
  <2>1. length(d) = c - 1  BY <1>1, <1>2, <1>3 DEF Following, Distance
  <2>2. 2 * c \in Nat /\ 2 * c > length(d)  BY <1>1, <2>1
  <2>3. r = Moved(d, length(d), 2 * c)  BY <1>3, <2>1 DEF on_push, c, f, b
  <2>4. r.cap = 2 * c /\ Ring(r) /\ length(r) = length(d) /\ Items(r) = Items(d)
    BY <2>2, <2>3, MovedKeeps
  <2>5. length(r) + 1 < r.cap  BY <1>1, <2>1, <2>4
  <2> QED  BY <2>4, <2>5
<1>4. CASE f # (b + 1) % c
  <2>1. r = d  BY <1>4 DEF on_push
  <2> HIDE DEF c, f, b
  <2>2. length(d) + 1 < c  BY <1>1, <1>2, <1>4 DEF Following, Distance
  <2> QED  BY <2>1, <2>2 DEF c
<1> QED  BY <1>3, <1>4

-----------------------------------------------------------------------------
(* What each call does to the contents *)

\* push_back, when there is room.
LEMMA PushedBack ==
    ASSUME NEW d, Ring(d), length(d) + 1 < d.cap, NEW e \in Values,
           NEW z, z = [d EXCEPT !.data[d.back] = e, !.back = (d.back + 1) % d.cap]
    PROVE  Ring(z) /\ Items(z) = Append(Items(d), e)
<1> DEFINE c == d.cap
           f == d.front
           b == d.back
           n == length(d)
           s == Append(Items(d), e)
<1>1. c \in Nat /\ c > 1 /\ f \in 0 .. c - 1 /\ b \in 0 .. c - 1
      /\ n \in Nat /\ n = Distance(f, b, c) /\ n + 1 < c  BY LengthIs
<1>2. /\ z.data = [d.data EXCEPT ![b] = e] /\ z.cap = c /\ z.front = f
      /\ z.back = (b + 1) % c
      /\ z = [data |-> z.data, cap |-> z.cap, front |-> z.front, back |-> z.back]
  BY DEF Ring
<1>3. z.back = Following(b, c)  BY <1>1, <1>2, NextSlot
<1>4. d.data \in [0 .. c - 1 -> Values]  BY <1>1 DEF Ring
<1>5. /\ Items(d) \in Seq(Values) /\ Len(Items(d)) = n
      /\ \A i \in 1 .. n : Items(d)[i] = d.data[Place(f, i, c)]
  BY ItemsAre DEF Slot
<1> HIDE DEF c, f, b, n
<1>6. Ring(z)  BY <1>1, <1>2, <1>3, <1>4, InRing DEF Ring
<1>7. length(z) = n + 1  BY <1>1, <1>2, <1>3, <1>6, LengthIs, Lengthening
<1>8. s \in Seq(Values) /\ Len(s) = length(z)  BY <1>5, <1>7
<1>9. ASSUME NEW i \in 1 .. n + 1 PROVE s[i] = z.data[Place(f, i, c)]
  <2>1. CASE i = n + 1
    <3>1. s[i] = e  BY <1>5, <2>1
    <3>2. Place(f, i, c) = b  BY <1>1, <2>1, PlacesMove
    <3> QED  BY <1>1, <1>2, <1>4, <3>1, <3>2
  <2>2. CASE i # n + 1
    <3>1. i \in 1 .. n  BY <1>1, <2>2
    <3>2. s[i] = d.data[Place(f, i, c)]  BY <1>5, <3>1
    <3>3. Place(f, i, c) \in 0 .. c - 1 /\ Place(f, i, c) # b  BY <1>1, <3>1, Places
    <3> QED  BY <1>2, <1>4, <3>2, <3>3
  <2> QED  BY <2>1, <2>2
<1>10. \A i \in 1 .. length(z) : s[i] = z.data[Slot(z, i)]  BY <1>2, <1>7, <1>9 DEF Slot
<1> HIDE DEF s
<1>11. Items(z) = s  BY <1>6, <1>8, <1>10, SameItems
<1> QED  BY <1>6, <1>11 DEF s

\* push_front, when there is room.
LEMMA PushedFront ==
    ASSUME NEW d, Ring(d), length(d) + 1 < d.cap, NEW e \in Values,
           NEW x, x = (d.front + d.cap - 1) % d.cap,
           NEW z, z = [d EXCEPT !.front = x, !.data[x] = e]
    PROVE  Ring(z) /\ Items(z) = <<e>> \o Items(d)
<1> DEFINE c == d.cap
           f == d.front
           b == d.back
           n == length(d)
           s == <<e>> \o Items(d)
<1>1. c \in Nat /\ c > 1 /\ f \in 0 .. c - 1 /\ b \in 0 .. c - 1
      /\ n \in Nat /\ n = Distance(f, b, c) /\ n + 1 < c  BY LengthIs
<1>2. /\ z.data = [d.data EXCEPT ![x] = e] /\ z.cap = c /\ z.front = x /\ z.back = b
      /\ z = [data |-> z.data, cap |-> z.cap, front |-> z.front, back |-> z.back]
  BY DEF Ring
<1>3. x = Previous(f, c)  BY <1>1, PreviousSlot
<1>4. d.data \in [0 .. c - 1 -> Values]  BY <1>1 DEF Ring
<1>5. /\ Items(d) \in Seq(Values) /\ Len(Items(d)) = n
      /\ \A i \in 1 .. n : Items(d)[i] = d.data[Place(f, i, c)]
  BY ItemsAre DEF Slot
<1>6. <<e>> \in Seq(Values) /\ Len(<<e>>) = 1 /\ <<e>>[1] = e  OBVIOUS
<1> HIDE DEF c, f, b, n
<1>7. x \in 0 .. c - 1  BY <1>1, <1>3, InRing
<1>8. Ring(z)  BY <1>1, <1>2, <1>4, <1>7 DEF Ring
<1>9. length(z) = n + 1  BY <1>1, <1>2, <1>3, <1>8, LengthIs, Lengthening
<1>10. /\ s \in Seq(Values) /\ Len(s) = 1 + n
       /\ \A i \in 1 .. 1 + n : s[i] = IF i <= 1 THEN <<e>>[i] ELSE Items(d)[i - 1]
  BY <1>5, <1>6, ConcatProperties
<1>11. ASSUME NEW i \in 1 .. n + 1 PROVE s[i] = z.data[Place(x, i, c)]
  <2>1. i \in 1 .. 1 + n  BY <1>1
  <2>2. CASE i = 1
    <3>1. Place(x, i, c) = x  BY <1>1, <1>7, <2>2, PlacesMove
    <3>2. s[i] = e  BY <1>6, <1>10, <2>1, <2>2
    <3>3. z.data[x] = e  BY <1>2, <1>4, <1>7
    <3> QED  BY <3>1, <3>2, <3>3
  <2>3. CASE i # 1
    <3>1. i - 1 \in 1 .. n /\ i - 1 \in 1 .. c - 1 /\ (i - 1) + 1 = i  BY <1>1, <2>3
    <3>2. s[i] = d.data[Place(f, i - 1, c)]  BY <1>5, <1>10, <2>1, <2>3, <3>1
    <3>3. Place(x, i, c) = Place(f, i - 1, c)  BY <1>1, <1>3, <3>1, PlacesMove
    <3>4. Place(f, i - 1, c) \in 0 .. c - 1 /\ Place(f, i - 1, c) # x
      BY <1>1, <1>3, <3>1, Places
    <3> QED  BY <1>2, <1>4, <3>2, <3>3, <3>4
  <2> QED  BY <2>2, <2>3
<1>12. \A i \in 1 .. length(z) : s[i] = z.data[Slot(z, i)]
  BY <1>2, <1>9, <1>11 DEF Slot
<1>13. s \in Seq(Values) /\ Len(s) = length(z)  BY <1>1, <1>9, <1>10
<1> HIDE DEF s
<1>14. Items(z) = s  BY <1>8, <1>12, <1>13, SameItems
<1> QED  BY <1>8, <1>14 DEF s

\* A ring that holds something, with what the lemmas on shrinking it use.
LEMMA NotEmpty ==
    ASSUME NEW d, Ring(d), ~is_empty(d)
    PROVE  /\ d.cap \in Nat /\ d.cap > 1
           /\ d.front \in 0 .. d.cap - 1 /\ d.back \in 0 .. d.cap - 1
           /\ d.front # d.back
           /\ length(d) \in Nat /\ length(d) > 0 /\ length(d) < d.cap
           /\ length(d) = Distance(d.front, d.back, d.cap)
           /\ d.data \in [0 .. d.cap - 1 -> Values]
           /\ last(d) = Previous(d.back, d.cap)
           /\ Items(d) # <<>>
<1> DEFINE n == length(d)
<1>1. /\ d.cap \in Nat /\ d.cap > 0
      /\ d.front \in 0 .. d.cap - 1 /\ d.back \in 0 .. d.cap - 1
      /\ n \in Nat /\ n < d.cap /\ n # 0
      /\ n = Distance(d.front, d.back, d.cap) /\ d.front # d.back
  BY LengthIs
<1> HIDE DEF n
<1>2. d.cap > 1 /\ n > 0  BY <1>1
<1>3. d.data \in [0 .. d.cap - 1 -> Values]  BY <1>2 DEF Ring
<1>4. last(d) = Previous(d.back, d.cap)  BY <1>1, PreviousSlot DEF last
<1>5. Len(Items(d)) = n  BY ItemsAre DEF n
<1>6. Items(d) # <<>>  BY <1>2, <1>5
<1> QED  BY <1>1, <1>2, <1>3, <1>4, <1>6 DEF n

\* pop_front.
LEMMA PoppedFront ==
    ASSUME NEW d, Ring(d), ~is_empty(d),
           NEW z, z = [d EXCEPT !.front = (d.front + 1) % d.cap]
    PROVE  /\ Ring(z) /\ Items(z) = Tail(Items(d))
           /\ Head(Items(d)) = d.data[d.front]
<1> DEFINE c == d.cap
           f == d.front
           b == d.back
           n == length(d)
           s == Tail(Items(d))
<1>1. /\ c \in Nat /\ c > 1 /\ f \in 0 .. c - 1 /\ b \in 0 .. c - 1 /\ f # b
      /\ n \in Nat /\ n > 0 /\ n = Distance(f, b, c) /\ n < c
      /\ d.data \in [0 .. c - 1 -> Values]
  BY NotEmpty
<1>2. /\ z.data = d.data /\ z.cap = c /\ z.front = (f + 1) % c /\ z.back = b
      /\ z = [data |-> z.data, cap |-> z.cap, front |-> z.front, back |-> z.back]
  BY DEF Ring
<1>3. z.front = Following(f, c)  BY <1>1, <1>2, NextSlot
<1>4. /\ Items(d) \in Seq(Values) /\ Len(Items(d)) = n /\ Items(d) # <<>>
      /\ \A i \in 1 .. n : Items(d)[i] = d.data[Place(f, i, c)]
  BY ItemsAre, NotEmpty DEF Slot
<1> HIDE DEF c, f, b, n
<1>5. Ring(z)  BY <1>1, <1>2, <1>3, InRing DEF Ring
<1>6. length(z) = n - 1  BY <1>1, <1>2, <1>3, <1>5, LengthIs, Shortening
<1>7. /\ s \in Seq(Values) /\ Len(s) = n - 1 /\ Head(Items(d)) = Items(d)[1]
      /\ \A i \in 1 .. n - 1 : s[i] = Items(d)[i + 1]
  BY <1>4, HeadTailProperties
<1>8. ASSUME NEW i \in 1 .. n - 1 PROVE s[i] = z.data[Place(z.front, i, c)]
  <2>1. i \in 1 .. c - 1 /\ i + 1 \in 1 .. n  BY <1>1
  <2>2. Place(z.front, i, c) = Place(f, i + 1, c)  BY <1>1, <1>3, <2>1, PlacesMove
  <2>3. s[i] = d.data[Place(f, i + 1, c)]  BY <1>4, <1>7, <2>1
  <2> QED  BY <1>2, <2>2, <2>3
<1>9. \A i \in 1 .. length(z) : s[i] = z.data[Slot(z, i)]
  BY <1>2, <1>6, <1>8 DEF Slot
<1>10. Place(f, 1, c) = f  BY <1>1, PlacesMove
<1>11. 1 \in 1 .. n  BY <1>1
<1>12. Head(Items(d)) = d.data[f]  BY <1>4, <1>7, <1>10, <1>11
<1>13. s \in Seq(Values) /\ Len(s) = length(z)  BY <1>6, <1>7
<1> HIDE DEF s
<1>14. Items(z) = s  BY <1>5, <1>9, <1>13, SameItems
<1> QED  BY <1>5, <1>12, <1>14 DEF s, f

\* pop_back.
LEMMA PoppedBack ==
    ASSUME NEW d, Ring(d), ~is_empty(d), NEW z, z = [d EXCEPT !.back = last(d)]
    PROVE  /\ Ring(z) /\ Items(z) = Sequence!Front(Items(d))
           /\ Sequence!Back(Items(d)) = d.data[last(d)]
<1> DEFINE c == d.cap
           f == d.front
           b == d.back
           n == length(d)
           s == Sequence!Front(Items(d))
<1>1. /\ c \in Nat /\ c > 1 /\ f \in 0 .. c - 1 /\ b \in 0 .. c - 1 /\ f # b
      /\ n \in Nat /\ n > 0 /\ n = Distance(f, b, c) /\ n < c
      /\ d.data \in [0 .. c - 1 -> Values] /\ last(d) = Previous(b, c)
  BY NotEmpty
<1>2. /\ z.data = d.data /\ z.cap = c /\ z.front = f /\ z.back = last(d)
      /\ z = [data |-> z.data, cap |-> z.cap, front |-> z.front, back |-> z.back]
  BY DEF Ring
<1>3. /\ Items(d) \in Seq(Values) /\ Len(Items(d)) = n
      /\ \A i \in 1 .. n : Items(d)[i] = d.data[Place(f, i, c)]
  BY ItemsAre DEF Slot
<1> HIDE DEF c, f, b, n
<1>4. Ring(z)  BY <1>1, <1>2, InRing DEF Ring
<1>5. length(z) = n - 1  BY <1>1, <1>2, <1>4, LengthIs, Shortening
<1>6. s = SubSeq(Items(d), 1, n - 1)  BY <1>3 DEF Sequence!Front
<1>7. /\ s \in Seq(Values) /\ Len(s) = n - 1
      /\ \A i \in 1 .. n - 1 : s[i] = Items(d)[i]
  BY <1>1, <1>3, <1>6
<1>8. \A i \in 1 .. length(z) : s[i] = z.data[Slot(z, i)]
  BY <1>1, <1>2, <1>3, <1>5, <1>7 DEF Slot
<1>9. n \in 1 .. n  BY <1>1
<1>10. Place(f, n, c) = last(d)  BY <1>1, <1>9, Places
<1>11. Sequence!Back(Items(d)) = d.data[last(d)]
  BY <1>3, <1>9, <1>10 DEF Sequence!Back
<1>12. s \in Seq(Values) /\ Len(s) = length(z)  BY <1>5, <1>7
<1> HIDE DEF s
<1>13. Items(z) = s  BY <1>4, <1>8, <1>12, SameItems
<1> QED  BY <1>4, <1>11, <1>13 DEF s

\* The updates write one slot, which is that of the k-th element.
LEMMA Updated ==
    ASSUME NEW d, Ring(d), ~is_empty(d), NEW e \in Values,
           NEW k \in 1 .. length(d), NEW x, x = Slot(d, k),
           NEW z, z = [d EXCEPT !.data[x] = e],
           NEW s \in Seq(Values), Len(s) = length(d), s[k] = e,
           \A i \in 1 .. length(d) : i # k => s[i] = Items(d)[i]
    PROVE  Ring(z) /\ Items(z) = s
<1> DEFINE c == d.cap
           f == d.front
           b == d.back
           n == length(d)
<1>1. /\ c \in Nat /\ c > 1 /\ f \in 0 .. c - 1 /\ b \in 0 .. c - 1 /\ f # b
      /\ n \in Nat /\ n > 0 /\ n = Distance(f, b, c) /\ n < c
      /\ d.data \in [0 .. c - 1 -> Values]
  BY NotEmpty
<1>2. /\ z.data = [d.data EXCEPT ![x] = e] /\ z.cap = c /\ z.front = f /\ z.back = b
      /\ z = [data |-> z.data, cap |-> z.cap, front |-> z.front, back |-> z.back]
  BY DEF Ring
<1>3. /\ Items(d) \in Seq(Values) /\ Len(Items(d)) = n
      /\ \A i \in 1 .. n : Items(d)[i] = d.data[Place(f, i, c)]
  BY ItemsAre DEF Slot
<1>4. x = Place(f, k, c) /\ k \in 1 .. n  BY DEF Slot
<1>5. Len(s) = n /\ \A i \in 1 .. n : i # k => s[i] = Items(d)[i]  OBVIOUS
<1> HIDE DEF c, f, b, n
<1>6. \A i \in 1 .. n : Place(f, i, c) \in 0 .. c - 1 /\ (Place(f, i, c) = x <=> i = k)
  <2>1. n < c /\ f \in 0 .. c - 1 /\ c \in Nat /\ n \in Nat  BY <1>1
  <2>2. TAKE i \in 1 .. n
  <2>3. Place(f, i, c) \in 0 .. c - 1  BY <2>1 DEF Place
  <2>4. Place(f, i, c) = Place(f, k, c) <=> i = k  BY <2>1, <1>4 DEF Place
  <2> QED  BY <2>3, <2>4, <1>4
<1>7. Ring(z)  BY <1>1, <1>2 DEF Ring
<1>8. length(z) = n  BY <1>1, <1>2, <1>7, LengthIs
<1>9. ASSUME NEW i \in 1 .. n PROVE s[i] = z.data[Place(f, i, c)]
  <2>1. CASE i = k
    <3>1. x \in 0 .. c - 1  BY <1>4, <1>6
    <3>2. z.data[x] = e  BY <1>1, <1>2, <3>1
    <3> QED  BY <1>4, <2>1, <3>2
  <2>2. CASE i # k
    <3>1. s[i] = d.data[Place(f, i, c)]  BY <1>3, <1>5, <2>2
    <3> QED  BY <1>1, <1>2, <1>6, <2>2, <3>1
  <2> QED  BY <2>1, <2>2
<1>10. \A i \in 1 .. length(z) : s[i] = z.data[Slot(z, i)]  BY <1>2, <1>8, <1>9 DEF Slot
<1> QED  BY <1>5, <1>7, <1>8, <1>10, SameItems

-----------------------------------------------------------------------------
(* Type correctness and refinement *)

\* A deque that is in use is a ring.
LEMMA InUse ==
    ASSUME DequeTypeOK, state = "valid"
    PROVE  Ring(deq)
  BY DEF DequeTypeOK, Ring, Values

\* An empty deque is an empty sequence, and the other way round.
LEMMA EmptyIs ==
    ASSUME NEW d, Ring(d)
    PROVE  is_empty(d) <=> Items(d) = <<>>
<1>1. CASE is_empty(d)
  <2>1. Items(d) \in Seq(Values) /\ Len(Items(d)) = 0  BY <1>1, LengthIs, ItemsAre
  <2> QED  BY <1>1, <2>1
<1>2. CASE ~is_empty(d)  BY <1>2, NotEmpty
<1> QED  BY <1>1, <1>2

\* What a call that hands the deque back keeps.
LEMMA StaysTyped ==
    ASSUME DequeTypeOK, state = "valid", state' = state, Ring(deq'),
           \/ deq'.data \in [0 .. deq'.cap - 1 -> Values]
           \/ deq'.data = deq.data /\ deq'.cap = deq.cap
    PROVE  DequeTypeOK'
  BY DEF DequeTypeOK, Ring, Values, Buffer

\* The call makes or ends the deque.
LEMMA MadeOrEnded ==
    ASSUME DequeTypeOK, (\E n \in InitCaps : new(n)) \/ destroy \/ as_array
    PROVE  DequeTypeOK' /\ (Sequence!New \/ Sequence!Close)
<1>1. ASSUME NEW n \in InitCaps, new(n) PROVE DequeTypeOK' /\ Sequence!New
  <2>1. n \in Nat  BY DEF DequeAssumption
  <2>2. /\ state = "none" /\ state' = "valid" /\ outcome' = <<"new", Unset>>
        /\ deq' = [data |-> Buffer(n), cap |-> IF n > 0 THEN n ELSE 1,
                    front |-> 0, back |-> 0]
    BY <1>1 DEF new
  <2>3. DequeTypeOK'
    <3>1. CASE n > 0
      <4>1. Buffer(n) \in [0 .. n - 1 -> Values]  BY DEF Buffer, Values
      <4> QED  BY <2>1, <2>2, <3>1, <4>1 DEF DequeTypeOK, Values
    <3>2. CASE n = 0  BY <2>2, <3>2 DEF DequeTypeOK
    <3> QED  BY <2>1, <3>1, <3>2
  <2>4. Ring(deq')  BY <2>1, <2>2, <2>3 DEF DequeTypeOK, Ring, Values
  <2>5. is_empty(deq')  BY <2>2 DEF is_empty
  <2>6. Items(deq') = <<>>  BY <2>4, <2>5, EmptyIs
  <2> QED  BY <2>2, <2>3, <2>6 DEF Sequence!New
<1>2. ASSUME NEW call, NEW result, Close(call, result)
      PROVE  /\ DequeTypeOK' /\ Items(deq') = <<>>
             /\ state = "valid" /\ state' = "none" /\ outcome' = <<call, result>>
  <2>1. deq' = Destroyed /\ state = "valid" /\ state' = "none" /\ outcome' = <<call, result>>
    BY <1>2 DEF Close
  <2>2. DequeTypeOK'  BY <2>1 DEF DequeTypeOK, Destroyed
  <2>3. Items(deq') = <<>>  BY <2>1 DEF Items, Destroyed
  <2> QED  BY <2>1, <2>2, <2>3
<1>3. CASE destroy
  <2>1. Close("destroy", Items(deq))  BY <1>3 DEF destroy
  <2> QED  BY <1>2, <2>1 DEF Sequence!Close
<1>4. CASE as_array
  <2> DEFINE d == reallign(deq)
             a == [i \in 1 .. length(d) |-> d.data[i - 1]]
  <2>1. Close("as_array", a)  BY <1>4 DEF as_array
  <2>2. state = "valid"  BY <2>1 DEF Close
  <2>3. Ring(deq)  BY <2>2, InUse
  <2>4. Ring(d) /\ d.front = 0 /\ Items(d) = Items(deq)
    <3>1. CASE deq.front # 0
      <4>1. d = Moved(deq, length(deq), deq.cap)  BY <3>1 DEF reallign
      <4>2. deq.cap \in Nat /\ deq.cap > length(deq)  BY <2>3, LengthIs
      <4> QED  BY <2>3, <4>1, <4>2, MovedKeeps
    <3>2. CASE deq.front = 0  BY <2>3, <3>2 DEF reallign
    <3> QED  BY <3>1, <3>2
  <2> HIDE DEF d
  <2>5. a = Items(d)
    <3>1. /\ length(d) \in Nat /\ length(d) < d.cap /\ d.cap \in Nat  BY <2>4, LengthIs
    <3>2. /\ Items(d) \in Seq(Values) /\ Len(Items(d)) = length(d)
          /\ \A i \in 1 .. length(d) : Items(d)[i] = d.data[Slot(d, i)]
      BY <2>4, ItemsAre
    <3>3. \A i \in 1 .. length(d) : Slot(d, i) = i - 1
      BY <2>4, <3>1 DEF Slot, Place
    <3>4. Items(d) = [i \in 1 .. length(d) |-> Items(d)[i]]
      BY <3>1, <3>2
    <3> QED  BY <3>2, <3>3, <3>4
  <2> HIDE DEF a
  <2> QED  BY <1>2, <2>1, <2>4, <2>5 DEF Sequence!Close
<1> QED  BY <1>1, <1>3, <1>4

\* A push at either end.
LEMMA Pushes ==
    ASSUME DequeTypeOK, NEW e \in DequeElements, push_front(e) \/ push_back(e)
    PROVE  DequeTypeOK' /\ Sequence!Push(e)
<1> DEFINE d == on_push(deq)
           x == (d.front + d.cap - 1) % d.cap
           pf == [d EXCEPT !.front = x, !.data[x] = e]
           pb == [d EXCEPT !.data[d.back] = e, !.back = (d.back + 1) % d.cap]
<1>1. state = "valid" /\ state' = state  BY DEF push_front, push_back, Answer
<1>2. \/ deq' = pf /\ outcome' = <<"push_front", e>>
      \/ deq' = pb /\ outcome' = <<"push_back", e>>
  BY DEF push_front, push_back, Answer
<1>3. Ring(deq)  BY <1>1, InUse
<1> HIDE DEF d
<1>4. Ring(d) /\ Items(d) = Items(deq) /\ length(d) + 1 < d.cap
  BY <1>3, RoomForOne DEF d
<1>5. length(d) \in Nat /\ d.cap \in Nat /\ d.cap > 1  BY <1>4, LengthIs
<1>6. e \in Values  BY DEF Values
<1>7. CASE deq' = pf /\ outcome' = <<"push_front", e>>
  <2> DEFINE z == pf
  <2>1. Ring(z) /\ Items(z) = <<e>> \o Items(d)  BY <1>4, <1>6, PushedFront
  <2>2. z.cap = d.cap  BY <1>4 DEF Ring
  <2> HIDE DEF z
  <2>3. z.data \in [0 .. z.cap - 1 -> Values]  BY <1>5, <2>1, <2>2 DEF Ring
  <2>4. deq' = z  BY <1>7 DEF z
  <2>5. DequeTypeOK'  BY <1>1, <2>1, <2>3, <2>4, StaysTyped
  <2> QED  BY <1>1, <1>4, <1>7, <2>1, <2>4, <2>5 DEF Sequence!Push, Sequence!Become
<1>8. CASE deq' = pb /\ outcome' = <<"push_back", e>>
  <2> DEFINE z == pb
  <2>1. Ring(z) /\ Items(z) = Append(Items(d), e)  BY <1>4, <1>6, PushedBack
  <2>2. z.cap = d.cap  BY <1>4 DEF Ring
  <2> HIDE DEF z
  <2>3. z.data \in [0 .. z.cap - 1 -> Values]  BY <1>5, <2>1, <2>2 DEF Ring
  <2>4. deq' = z  BY <1>8 DEF z
  <2>5. DequeTypeOK'  BY <1>1, <2>1, <2>3, <2>4, StaysTyped
  <2> QED  BY <1>1, <1>4, <1>8, <2>1, <2>4, <2>5 DEF Sequence!Push, Sequence!Become
<1> QED  BY <1>2, <1>7, <1>8

\* A pop, a peek or an update at the front.
LEMMA FrontCalls ==
    ASSUME DequeTypeOK, AtFront
    PROVE  DequeTypeOK' /\ Sequence!AtFront
<1> DEFINE s == Items(deq)
<1>1. state = "valid" /\ state' = state /\ ~is_empty(deq)  BY DEF AtFront, Answer
<1>2. Ring(deq)  BY <1>1, InUse
<1>3. s # <<>> /\ s \in Seq(Values) /\ Len(s) = length(deq)  BY <1>1, <1>2, NotEmpty, ItemsAre
<1>4. Head(s) = deq.data[deq.front]  BY <1>1, <1>2, PoppedFront
<1>5. CASE Answer([deq EXCEPT !.front = (deq.front + 1) % deq.cap],
                  "pop_front", deq.data[deq.front])
  <2> DEFINE z == [deq EXCEPT !.front = (deq.front + 1) % deq.cap]
  <2>1. deq' = z /\ outcome' = <<"pop_front", Head(s)>>  BY <1>4, <1>5 DEF Answer
  <2>2. Ring(z) /\ Items(z) = Tail(s)  BY <1>1, <1>2, PoppedFront
  <2>3. z.data = deq.data /\ z.cap = deq.cap  BY <1>2 DEF Ring
  <2> HIDE DEF z
  <2>4. DequeTypeOK'  BY <1>1, <2>1, <2>2, <2>3, StaysTyped
  <2> QED  BY <1>1, <1>3, <2>1, <2>2, <2>4 DEF Sequence!AtFront, Sequence!Become
<1>6. CASE Answer(deq, "peek_front", deq.data[deq.front])
  <2>1. deq' = deq /\ outcome' = <<"peek_front", Head(s)>>  BY <1>4, <1>6 DEF Answer
  <2>2. DequeTypeOK'  BY <1>1, <2>1 DEF DequeTypeOK
  <2> QED  BY <1>1, <1>3, <2>1, <2>2 DEF Sequence!AtFront, Sequence!Become
<1>7. ASSUME NEW e \in DequeElements, Answer([deq EXCEPT !.data[deq.front] = e], "update_front", e)
      PROVE  DequeTypeOK' /\ Sequence!AtFront
  <2> DEFINE z == [deq EXCEPT !.data[deq.front] = e]
             t == <<e>> \o Tail(s)
             n == length(deq)
  <2>1. deq' = z /\ outcome' = <<"update_front", e>>  BY <1>7 DEF Answer
  <2>2. e \in Values  BY DEF Values
  <2>3. /\ n \in Nat /\ n > 0 /\ deq.cap \in Nat /\ deq.cap > 1
        /\ deq.front \in 0 .. deq.cap - 1 /\ deq.back \in 0 .. deq.cap - 1
    BY <1>1, <1>2, NotEmpty
  <2>4. Slot(deq, 1) = deq.front  BY <2>3, PlacesMove DEF Slot
  <2>5. Items(deq) \in Seq(Values) /\ Len(Items(deq)) = n  BY <1>3
  <2> HIDE DEF s, n
  <2>6. /\ Tail(s) \in Seq(Values) /\ Len(Tail(s)) = n - 1
        /\ \A i \in 1 .. n - 1 : Tail(s)[i] = s[i + 1]
    BY <1>3, <2>5, HeadTailProperties DEF s
  <2>7. <<e>> \in Seq(Values) /\ Len(<<e>>) = 1 /\ <<e>>[1] = e  BY <2>2
  <2>8. /\ t \in Seq(Values) /\ Len(t) = 1 + (n - 1)
        /\ \A i \in 1 .. 1 + (n - 1) : t[i] = IF i <= 1 THEN <<e>>[i] ELSE Tail(s)[i - 1]
    BY <2>3, <2>6, <2>7, ConcatProperties
  <2> HIDE DEF t
  <2>9. Len(t) = n /\ 1 \in 1 .. n /\ t[1] = e  BY <2>3, <2>7, <2>8
  <2>10. ASSUME NEW i \in 1 .. n, i # 1 PROVE t[i] = s[i]
    <3>1. i \in 1 .. 1 + (n - 1) /\ ~(i <= 1) /\ i - 1 \in 1 .. n - 1 /\ (i - 1) + 1 = i
      BY <2>3, <2>10
    <3> QED  BY <2>6, <2>8, <3>1
  <2>11. Ring(z) /\ Items(z) = t
    BY <1>1, <1>2, <2>2, <2>4, <2>8, <2>9, <2>10, Updated DEF n, s
  <2>12. deq.data \in [0 .. deq.cap - 1 -> Values]  BY <1>1, <1>2, NotEmpty
  <2>13. z.cap = deq.cap  BY <1>2 DEF Ring
  <2> HIDE DEF z
  <2>14. z.data \in [0 .. z.cap - 1 -> Values]  BY <2>3, <2>11, <2>13 DEF Ring
  <2>15. DequeTypeOK'  BY <1>1, <2>1, <2>11, <2>14, StaysTyped
  <2> QED  BY <1>1, <1>3, <2>1, <2>11, <2>15 DEF Sequence!AtFront, Sequence!Become, s, t
<1> HIDE DEF s
<1> QED  BY <1>5, <1>6, <1>7 DEF AtFront

\* A pop, a peek or an update at the back.
LEMMA BackCalls ==
    ASSUME DequeTypeOK, AtBack
    PROVE  DequeTypeOK' /\ Sequence!AtBack
<1> DEFINE s == Items(deq)
<1>1. state = "valid" /\ state' = state /\ ~is_empty(deq)  BY DEF AtBack, Answer
<1>2. Ring(deq)  BY <1>1, InUse
<1>3. s # <<>> /\ s \in Seq(Values) /\ Len(s) = length(deq)  BY <1>1, <1>2, NotEmpty, ItemsAre
<1>4. Sequence!Back(s) = deq.data[last(deq)]  BY <1>1, <1>2, PoppedBack
<1>5. CASE Answer([deq EXCEPT !.back = last(deq)], "pop_back", deq.data[last(deq)])
  <2> DEFINE z == [deq EXCEPT !.back = last(deq)]
  <2>1. deq' = z /\ outcome' = <<"pop_back", Sequence!Back(s)>>  BY <1>4, <1>5 DEF Answer
  <2>2. Ring(z) /\ Items(z) = Sequence!Front(s)  BY <1>1, <1>2, PoppedBack
  <2>3. z.data = deq.data /\ z.cap = deq.cap  BY <1>2 DEF Ring
  <2> HIDE DEF z
  <2>4. DequeTypeOK'  BY <1>1, <2>1, <2>2, <2>3, StaysTyped
  <2> QED  BY <1>1, <1>3, <2>1, <2>2, <2>4 DEF Sequence!AtBack, Sequence!Become
<1>6. CASE Answer(deq, "peek_back", deq.data[last(deq)])
  <2>1. deq' = deq /\ outcome' = <<"peek_back", Sequence!Back(s)>>  BY <1>4, <1>6 DEF Answer
  <2>2. DequeTypeOK'  BY <1>1, <2>1 DEF DequeTypeOK
  <2> QED  BY <1>1, <1>3, <2>1, <2>2 DEF Sequence!AtBack, Sequence!Become
<1>7. ASSUME NEW e \in DequeElements, Answer([deq EXCEPT !.data[last(deq)] = e], "update_back", e)
      PROVE  DequeTypeOK' /\ Sequence!AtBack
  <2> DEFINE x == last(deq)
             z == [deq EXCEPT !.data[x] = e]
             t == Append(Sequence!Front(s), e)
             n == length(deq)
  <2>1. deq' = z /\ outcome' = <<"update_back", e>>  BY <1>7 DEF Answer
  <2>2. e \in Values  BY DEF Values
  <2>3. /\ n \in Nat /\ n > 0 /\ deq.cap \in Nat /\ deq.cap > 1
        /\ deq.front \in 0 .. deq.cap - 1 /\ deq.back \in 0 .. deq.cap - 1
        /\ n = Distance(deq.front, deq.back, deq.cap) /\ x = Previous(deq.back, deq.cap)
    BY <1>1, <1>2, NotEmpty
  <2>4. Items(deq) \in Seq(Values) /\ Len(Items(deq)) = n  BY <1>3
  <2> HIDE DEF s, n, x
  <2>5. n \in 1 .. n  BY <2>3
  <2>6. Slot(deq, n) = x  BY <2>3, <2>5, Places DEF Slot
  <2>7. Sequence!Front(s) = SubSeq(s, 1, n - 1)  BY <2>4 DEF Sequence!Front, s
  <2>8. /\ Sequence!Front(s) \in Seq(Values) /\ Len(Sequence!Front(s)) = n - 1
        /\ \A i \in 1 .. n - 1 : Sequence!Front(s)[i] = s[i]
    BY <2>3, <2>4, <2>7 DEF s
  <2>9. /\ t \in Seq(Values) /\ Len(t) = n /\ t[n] = e
        /\ \A i \in 1 .. n - 1 : t[i] = Sequence!Front(s)[i]
    BY <2>2, <2>3, <2>8
  <2> HIDE DEF t
  <2>10. \A i \in 1 .. n : i # n => t[i] = s[i]  BY <2>3, <2>8, <2>9
  <2>11. Ring(z) /\ Items(z) = t
    BY <1>1, <1>2, <2>2, <2>5, <2>6, <2>9, <2>10, Updated DEF n, s
  <2>12. z.cap = deq.cap  BY <1>2 DEF Ring
  <2> HIDE DEF z
  <2>13. z.data \in [0 .. z.cap - 1 -> Values]  BY <2>3, <2>11, <2>12 DEF Ring
  <2>14. DequeTypeOK'  BY <1>1, <2>1, <2>11, <2>13, StaysTyped
  <2> QED  BY <1>1, <1>3, <2>1, <2>11, <2>14 DEF Sequence!AtBack, Sequence!Become, s, t
<1> HIDE DEF s
<1> QED  BY <1>5, <1>6, <1>7 DEF AtBack

\* empty, length and apply.
LEMMA WholeCalls ==
    ASSUME DequeTypeOK, Whole
    PROVE  DequeTypeOK' /\ Sequence!Whole
<1>1. state = "valid" /\ state' = state  BY DEF Whole, Answer
<1>2. Ring(deq)  BY <1>1, InUse
<1>3. Len(Items(deq)) = length(deq)  BY <1>2, ItemsAre
<1>4. CASE Answer([deq EXCEPT !.front = 0, !.back = 0], "empty", Unset)
  <2> DEFINE z == [deq EXCEPT !.front = 0, !.back = 0]
  <2>1. deq' = z /\ outcome' = <<"empty", Unset>>  BY <1>4 DEF Answer
  <2>2. /\ z.data = deq.data /\ z.cap = deq.cap /\ z.front = 0 /\ z.back = 0
        /\ z = [data |-> z.data, cap |-> z.cap, front |-> z.front, back |-> z.back]
    <3>1. deq = [data |-> deq.data, cap |-> deq.cap, front |-> deq.front, back |-> deq.back]
      BY <1>2 DEF Ring
    <3> DEFINE y == [deq EXCEPT !.front = 0]
    <3>2. y = [data |-> deq.data, cap |-> deq.cap, front |-> 0, back |-> deq.back]
      BY <3>1
    <3>3. z = [y EXCEPT !.back = 0]  OBVIOUS
    <3> HIDE DEF y, z
    <3>4. z = [data |-> deq.data, cap |-> deq.cap, front |-> 0, back |-> 0]  BY <3>2, <3>3
    <3> QED  BY <3>4
  <2> HIDE DEF z
  <2>3. Ring(z)  BY <1>2, <2>2 DEF Ring
  <2>4. Items(z) = <<>>  BY <2>2, <2>3, EmptyIs DEF is_empty
  <2>5. DequeTypeOK'  BY <1>1, <2>1, <2>2, <2>3, StaysTyped
  <2> QED  BY <1>1, <2>1, <2>4, <2>5 DEF Sequence!Whole, Sequence!Become
<1>5. CASE Answer(deq, "length", length(deq))
  <2>1. deq' = deq /\ outcome' = <<"length", Len(Items(deq))>>  BY <1>3, <1>5 DEF Answer
  <2>2. DequeTypeOK'  BY <1>1, <2>1 DEF DequeTypeOK
  <2> QED  BY <1>1, <2>1, <2>2 DEF Sequence!Whole, Sequence!Become
<1>6. CASE Answer(deq, "apply", Items(deq))
  <2>1. deq' = deq /\ outcome' = <<"apply", Items(deq)>>  BY <1>6 DEF Answer
  <2>2. DequeTypeOK'  BY <1>1, <2>1 DEF DequeTypeOK
  <2> QED  BY <1>1, <2>1, <2>2 DEF Sequence!Whole, Sequence!Become
<1> QED  BY <1>4, <1>5, <1>6 DEF Whole

\* Every step keeps the type and is a step, or a stutter, of the sequence.
LEMMA Step ==
    ASSUME DequeTypeOK, [DequeNext]_dequeVars
    PROVE  DequeTypeOK' /\ [Sequence!Next]_(Sequence!vars)
<1>1. CASE (\E n \in InitCaps : new(n)) \/ destroy \/ as_array
  BY <1>1, MadeOrEnded DEF Sequence!Next
<1>2. CASE \E e \in DequeElements : Bounded /\ (push_front(e) \/ push_back(e))
  BY <1>2, Pushes DEF Sequence!Next
<1>3. CASE AtFront  BY <1>3, FrontCalls DEF Sequence!Next
<1>4. CASE AtBack  BY <1>4, BackCalls DEF Sequence!Next
<1>5. CASE Whole  BY <1>5, WholeCalls DEF Sequence!Next
<1>6. CASE Abort
  <2>1. /\ state' = "aborted" /\ deq' = deq /\ outcome' = outcome
        /\ state = "none" \/ (state = "valid" /\ is_empty(deq))
    BY <1>6 DEF Abort
  <2>2. state = "valid" => Items(deq) = <<>>  BY <2>1, InUse, EmptyIs
  <2>3. DequeTypeOK'  BY <2>1 DEF DequeTypeOK
  <2> QED  BY <2>1, <2>2, <2>3 DEF Sequence!Next, Sequence!Abort
<1>7. CASE UNCHANGED dequeVars
  <2>1. state' = state /\ deq' = deq /\ outcome' = outcome  BY <1>7 DEF dequeVars
  <2>2. DequeTypeOK'  BY <2>1 DEF DequeTypeOK
  <2> QED  BY <2>1, <2>2 DEF Sequence!vars
<1>8. CASE Ended  BY <1>7, <1>8 DEF Ended
<1>9. CASE OutOfMemory
  <2>1. /\ state' = "exhausted" /\ deq' = deq /\ outcome' = outcome
        /\ state \in {"none", "valid"}
    BY <1>9 DEF OutOfMemory
  <2>2. DequeTypeOK'  BY <2>1 DEF DequeTypeOK
  <2> QED  BY <2>1, <2>2 DEF Sequence!Next, Sequence!OutOfMemory
<1> QED  BY <1>1, <1>2, <1>3, <1>4, <1>5, <1>6, <1>7, <1>8, <1>9 DEF DequeNext

\* The indices stay in the ring and the buffer has the slots cap counts, whatever
\* the capacity asked for and however often the buffer doubled (deque.h:228-252).
THEOREM TypeCorrect == DequeSpec => []DequeTypeOK
<1>1. DequeInit => DequeTypeOK  BY DEF DequeInit, DequeTypeOK, Destroyed
<1>2. DequeTypeOK /\ [DequeNext]_dequeVars => DequeTypeOK'  BY Step
<1> QED  BY <1>1, <1>2, PTL DEF DequeSpec

\* Every call of deque.h does to the ring, and returns, what the same call does to a
\* sequence and returns: nothing is lost, repeated or reordered by wrapping around,
\* by realigning or by growing.
THEOREM RefinesSequence == DequeSpec => ImplementsDeque
<1>1. DequeInit => Sequence!Init  BY DEF DequeInit, Sequence!Init, Items, Destroyed
<1>2. DequeTypeOK /\ [DequeNext]_dequeVars => [Sequence!Next]_(Sequence!vars)  BY Step
<1> QED  BY <1>1, <1>2, TypeCorrect, PTL DEF DequeSpec, ImplementsDeque, Sequence!Spec

=============================================================================
