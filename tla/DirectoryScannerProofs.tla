----------------------- MODULE DirectoryScannerProofs -----------------------
(***************************************************************************)
(* Proofs about DirectoryScanner: what a scan finds, what it reports and   *)
(* which revisions it gives.                                               *)
(*                                                                         *)
(* The invariants build on each other.  BaseInv has the types, the order   *)
(* of the stack (each directory on it is in the one before, and nothing    *)
(* that is still to be visited is above one of them), the disk as a tree,  *)
(* and no items before the first scan.  ContentsInv has a directory for    *)
(* each directory item, also in the snapshot that is being built and in    *)
(* the calls that are open.  WalkInv says where a path of the disk can be  *)
(* while nobody touches it: still to be visited, a directory that is open, *)
(* absent, recorded with the stats the disk has, or below one that was     *)
(* skipped for a reason.  At the end of the walk the stack is empty, and   *)
(* the last three are left: AccountsInv, which is ScanIsComplete.          *)
(* QuietInv relates the snapshot to the disk since the last walk that      *)
(* failed nowhere: without it nothing follows for the scan after.          *)
(***************************************************************************)
EXTENDS DirectoryScanner, FiniteSetTheorems, SequenceTheorems, WellFoundedInduction, TLAPS

-----------------------------------------------------------------------------
(***************************************************************************)
(* Paths.                                                                  *)
(***************************************************************************)
\* What the assumption says of the paths.
LEMMA PathsAreClosed ==
    /\ Paths \subseteq Seq(Names) /\ <<>> \in Paths
    /\ \A p \in Paths : \A n \in 0..Len(p) : SubSeq(p, 1, n) \in Paths
BY ScannerAssumption

\* The first n names of a path.
LEMMA FirstNames ==
    ASSUME NEW p \in Paths, NEW n \in 0..Len(p)
    PROVE  /\ SubSeq(p, 1, n) \in Paths
           /\ Len(SubSeq(p, 1, n)) = n
           /\ \A i \in 1..n : SubSeq(p, 1, n)[i] = p[i]
<1>1. p \in Seq(Names) /\ SubSeq(p, 1, n) \in Paths
  BY PathsAreClosed
<1>2. \A i \in 1..n : p[i] \in Names
  BY <1>1
<1>3. Len(SubSeq(p, 1, n)) = IF 1 <= n THEN n - 1 + 1 ELSE 0
  BY <1>2, SubSeqProperties
<1>4. \A i \in 1..(n - 1 + 1) : SubSeq(p, 1, n)[i] = p[1 + i - 1]
  BY <1>2, SubSeqProperties
<1> QED
  BY <1>1, <1>3, <1>4

\* Paths with the same names are the same.
LEMMA SamePath ==
    ASSUME NEW p \in Paths, NEW q \in Paths, Len(p) = Len(q),
           \A i \in 1..Len(p) : p[i] = q[i]
    PROVE  p = q
BY PathsAreClosed, SeqEqual

\* One path is above another if it has its first names.
LEMMA PrefixByNames ==
    ASSUME NEW p \in Paths, NEW q \in Paths
    PROVE  IsPrefix(p, q) <=> Len(p) <= Len(q) /\ \A i \in 1..Len(p) : p[i] = q[i]
<1>1. Len(p) \in Nat /\ Len(q) \in Nat
  BY PathsAreClosed
<1>2. CASE Len(p) <= Len(q)
  <2> DEFINE a == SubSeq(p, 1, Len(p))
             b == SubSeq(q, 1, Len(p))
  <2>1. /\ a \in Paths /\ Len(a) = Len(p) /\ \A i \in 1..Len(p) : a[i] = p[i]
        /\ b \in Paths /\ Len(b) = Len(p) /\ \A i \in 1..Len(p) : b[i] = q[i]
    BY <1>1, <1>2, FirstNames
  <2>2. ASSUME \A i \in 1..Len(p) : p[i] = q[i] PROVE a = b
    <3> HIDE DEF a, b
    <3> QED
      BY <2>1, <2>2, SamePath
  <2>3. a = b => \A i \in 1..Len(p) : p[i] = q[i]
    BY <2>1
  <2> QED
    BY <1>2, <2>2, <2>3 DEF IsPrefix
<1> QED
  BY <1>2 DEF IsPrefix

\* Being above is an order, and the paths above one path are in a line.
LEMMA PrefixIsOrder ==
    /\ \A p \in Paths : IsPrefix(p, p) /\ IsPrefix(<<>>, p)
    /\ \A p, q \in Paths : IsPrefix(p, q) /\ IsPrefix(q, p) => p = q
    /\ \A p, q, r \in Paths : IsPrefix(p, q) /\ IsPrefix(q, r) => IsPrefix(p, r)
    /\ \A p, q, r \in Paths : IsPrefix(p, r) /\ IsPrefix(q, r) /\ Len(p) <= Len(q) => IsPrefix(p, q)
<1>1. \A p \in Paths : Len(p) \in Nat
  BY PathsAreClosed
<1>2. \A p \in Paths : IsPrefix(p, p) /\ IsPrefix(<<>>, p)
  BY <1>1, PathsAreClosed, PrefixByNames
<1>3. \A p, q \in Paths : IsPrefix(p, q) /\ IsPrefix(q, p) => p = q
  BY <1>1, PrefixByNames, SamePath
<1>4. \A p, q, r \in Paths : IsPrefix(p, q) /\ IsPrefix(q, r) => IsPrefix(p, r)
  <2> SUFFICES ASSUME NEW p \in Paths, NEW q \in Paths, NEW r \in Paths,
                      IsPrefix(p, q), IsPrefix(q, r)
               PROVE  IsPrefix(p, r)
    OBVIOUS
  <2>1. /\ Len(p) <= Len(q) /\ \A i \in 1..Len(p) : p[i] = q[i]
        /\ Len(q) <= Len(r) /\ \A i \in 1..Len(q) : q[i] = r[i]
    BY PrefixByNames
  <2> QED
    BY <1>1, <2>1, PrefixByNames
<1>5. \A p, q, r \in Paths : IsPrefix(p, r) /\ IsPrefix(q, r) /\ Len(p) <= Len(q) => IsPrefix(p, q)
  <2> SUFFICES ASSUME NEW p \in Paths, NEW q \in Paths, NEW r \in Paths,
                      IsPrefix(p, r), IsPrefix(q, r), Len(p) <= Len(q)
               PROVE  IsPrefix(p, q)
    OBVIOUS
  <2>1. (\A i \in 1..Len(p) : p[i] = r[i]) /\ (\A i \in 1..Len(q) : q[i] = r[i])
    BY PrefixByNames
  <2> QED
    BY <1>1, <2>1, PrefixByNames
<1> QED
  BY <1>2, <1>3, <1>4, <1>5

\* The directory of a path is the last one above it.
LEMMA ParentOfPath ==
    ASSUME NEW p \in Paths, p # <<>>
    PROVE  /\ Parent(p) \in Paths /\ Parent(p) # p /\ IsPrefix(Parent(p), p)
           /\ Len(p) \in Nat \ {0} /\ Len(Parent(p)) = Len(p) - 1
           /\ \A q \in Paths : IsPrefix(q, p) /\ q # p => IsPrefix(q, Parent(p))
<1>1. Len(p) \in Nat \ {0}
  BY PathsAreClosed, EmptySeq
<1>2. /\ Parent(p) \in Paths /\ Len(Parent(p)) = Len(p) - 1
      /\ \A i \in 1..Len(p) - 1 : Parent(p)[i] = p[i]
  <2> DEFINE n == Len(p) - 1
  <2>1. n \in 0..Len(p)
    BY <1>1
  <2> HIDE DEF n
  <2>2. /\ SubSeq(p, 1, n) \in Paths /\ Len(SubSeq(p, 1, n)) = n
        /\ \A i \in 1..n : SubSeq(p, 1, n)[i] = p[i]
    BY <2>1, FirstNames
  <2>3. Parent(p) = SubSeq(p, 1, n)
    BY DEF Parent, Front, n
  <2> QED
    BY <2>2, <2>3 DEF n
<1>3. IsPrefix(Parent(p), p)
  BY <1>1, <1>2, PrefixByNames
<1>4. ASSUME NEW q \in Paths, IsPrefix(q, p), q # p PROVE IsPrefix(q, Parent(p))
  <2>1. Len(q) \in Nat /\ Len(q) <= Len(p) /\ \A i \in 1..Len(q) : q[i] = p[i]
    BY <1>4, PathsAreClosed, PrefixByNames
  <2>2. Len(q) # Len(p)
    BY <1>4, <2>1, SamePath
  <2> QED
    BY <1>1, <1>2, <2>1, <2>2, PrefixByNames
<1> QED
  BY <1>1, <1>2, <1>3, <1>4

\* What is in a directory or below something in it.
LEMMA ChildAbove ==
    ASSUME NEW d \in Paths, NEW p \in Paths, IsPrefix(d, p), d # p
    PROVE  \E c \in Children(d) : IsPrefix(c, p)
<1> DEFINE c == SubSeq(p, 1, Len(d) + 1)
<1>1. Len(d) \in Nat /\ Len(p) \in Nat /\ Len(d) < Len(p) /\ \A i \in 1..Len(d) : d[i] = p[i]
  BY PathsAreClosed, PrefixByNames, SamePath
<1>2. c \in Paths /\ Len(c) = Len(d) + 1 /\ \A i \in 1..Len(d) + 1 : c[i] = p[i]
  BY <1>1, FirstNames
<1> HIDE DEF c
<1>3. c # <<>> /\ IsPrefix(c, p)
  BY <1>1, <1>2, PrefixByNames
<1>4. /\ Parent(c) \in Paths /\ Len(Parent(c)) = Len(d)
      /\ \A i \in 1..Len(d) : Parent(c)[i] = c[i]
  <2>1. Parent(c) = SubSeq(c, 1, Len(d))
    BY <1>1, <1>2 DEF Parent, Front
  <2> QED
    BY <1>1, <1>2, <2>1, FirstNames
<1>5. Parent(c) = d
  BY <1>1, <1>2, <1>4, SamePath
<1> QED
  BY <1>2, <1>3, <1>5 DEF Children

\* All of it, for paths as things with an order.
LEMMA PathFacts ==
    /\ \A p \in Paths : IsPrefix(p, p) /\ IsPrefix(<<>>, p)
    /\ \A p, q \in Paths : IsPrefix(p, q) /\ IsPrefix(q, p) => p = q
    /\ \A p, q, r \in Paths : IsPrefix(p, q) /\ IsPrefix(q, r) => IsPrefix(p, r)
    /\ \A p, q, r \in Paths : IsPrefix(p, r) /\ IsPrefix(q, r) => IsPrefix(p, q) \/ IsPrefix(q, p)
    /\ \A p \in Paths \ {<<>>} : Parent(p) \in Paths /\ p \in Children(Parent(p))
    /\ \A d \in Paths : \A c \in Children(d) :
         /\ c \in Paths /\ c # <<>> /\ Parent(c) = d
         /\ c # d /\ IsPrefix(d, c) /\ ~IsPrefix(c, d)
    /\ \A d, p \in Paths : IsPrefix(d, p) /\ d # p => \E c \in Children(d) : IsPrefix(c, p)
    /\ \A d, q \in Paths : \A c \in Children(d) : IsPrefix(q, c) /\ q # c => IsPrefix(q, d)
    /\ \A d, p \in Paths : \A b, c \in Children(d) : IsPrefix(b, p) /\ IsPrefix(c, p) => b = c
<1>1. \A p, q, r \in Paths : IsPrefix(p, r) /\ IsPrefix(q, r) => IsPrefix(p, q) \/ IsPrefix(q, p)
  <2>1. \A p, q \in Paths : Len(p) <= Len(q) \/ Len(q) <= Len(p)
    BY PathsAreClosed
  <2> QED
    BY <2>1, PrefixIsOrder
<1>2. \A p \in Paths \ {<<>>} : Parent(p) \in Paths /\ p \in Children(Parent(p))
  BY ParentOfPath DEF Children
<1>3. ASSUME NEW d \in Paths, NEW c \in Children(d)
      PROVE  /\ c \in Paths /\ c # <<>> /\ Parent(c) = d
             /\ c # d /\ IsPrefix(d, c) /\ ~IsPrefix(c, d)
  <2>1. c \in Paths /\ c # <<>> /\ Parent(c) = d
    BY DEF Children
  <2>2. c # d /\ IsPrefix(d, c)
    BY <2>1, ParentOfPath
  <2> QED
    BY <2>1, <2>2, PrefixIsOrder
<1>4. \A d, p \in Paths : IsPrefix(d, p) /\ d # p => \E c \in Children(d) : IsPrefix(c, p)
  BY ChildAbove
<1>5. ASSUME NEW d \in Paths, NEW q \in Paths, NEW c \in Children(d), IsPrefix(q, c), q # c
      PROVE  IsPrefix(q, d)
  BY <1>3, <1>5, ParentOfPath
<1>6. ASSUME NEW d \in Paths, NEW p \in Paths, NEW b \in Children(d), NEW c \in Children(d),
             IsPrefix(b, p), IsPrefix(c, p)
      PROVE  b = c
  <2>1. /\ b \in Paths /\ b # <<>> /\ Parent(b) = d
        /\ c \in Paths /\ c # <<>> /\ Parent(c) = d
    BY <1>3
  <2>2. Len(b) = Len(c)
    <3>1. Len(b) \in Nat /\ Len(c) \in Nat /\ Len(d) = Len(b) - 1 /\ Len(d) = Len(c) - 1
      BY <2>1, ParentOfPath
    <3> QED
      BY <3>1
  <2>3. Len(b) <= Len(c) /\ Len(c) <= Len(b)
    BY <2>1, <2>2, PathsAreClosed
  <2> QED
    BY <1>6, <2>1, <2>3, PrefixIsOrder
<1> QED
  BY <1>1, <1>2, <1>3, <1>4, <1>5, <1>6, PrefixIsOrder

-----------------------------------------------------------------------------
(***************************************************************************)
(* The types.                                                              *)
(***************************************************************************)
ItemMaps == UNION {[S -> Items] : S \in SUBSET Paths}
Frames == [dir : Paths, stats : Nodes, todo : SUBSET Paths, items : ItemMaps, result : {0, 1}]

\* TypeOK, and what it rests on: the numbers of scans bound the revision, and the root
\* is never excluded.
TypeInv ==
    /\ TypeOK
    /\ counts \in [scans : Nat, changes : Nat, faults : Nat]
    /\ counts.scans <= MaxScans
    /\ revision <= counts.scans + 1
    /\ at # "idle" => 1 <= revision /\ revision <= counts.scans
    /\ frames \in Seq(Frames)
    /\ excluded \subseteq Excludable
    /\ touched \in BOOLEAN /\ drift \in BOOLEAN

\* What a scan does to the stack: an entry of the top frame is dealt with, a call is made
\* for one that is a directory, or the top call returns.
Advanced(c, items, result) ==
    LET n == Len(frames)
    IN  /\ frames' \in Seq(Frames) /\ Len(frames') = n /\ n \in Nat \ {0}
        /\ \A i \in 1..n : i # n => frames'[i] = frames[i]
        /\ frames'[n].dir = Top.dir /\ frames'[n].stats = Top.stats
        /\ frames'[n].todo = Top.todo \ {c}
        /\ frames'[n].items = items /\ frames'[n].result = result

Pushed(c) ==
    LET n == Len(frames)
    IN  /\ frames' \in Seq(Frames) /\ Len(frames') = n + 1 /\ n \in Nat \ {0}
        /\ \A i \in 1..n : i # n => frames'[i] = frames[i]
        /\ frames'[n].dir = Top.dir /\ frames'[n].stats = Top.stats
        /\ frames'[n].todo = Top.todo \ {c}
        /\ frames'[n].items = Top.items /\ frames'[n].result = Top.result
        /\ frames'[n + 1] = Frame(c, disk[c])

Returned(result, made) ==
    LET up == Len(frames) - 1
    IN  /\ frames' \in Seq(Frames) /\ Len(frames') = up /\ up \in Nat \ {0}
        /\ \A i \in 1..up : i # up => frames'[i] = frames[i]
        /\ frames'[up].dir = frames[up].dir /\ frames'[up].stats = frames[up].stats
        /\ frames'[up].todo = frames[up].todo /\ frames'[up].result = result
        /\ frames'[up].items = IF made THEN With(frames[up].items, Top.dir, NewItem(Top.stats, revision))
                               ELSE frames[up].items

\* Advance puts the new items into the top frame and takes the entry off its list.
LEMMA AdvanceFacts ==
    ASSUME TypeInv, at = "scan", NEW c, NEW items \in ItemMaps, NEW result \in {0, 1},
           Advance(c, items, result)
    PROVE  Advanced(c, items, result)
<1> DEFINE n == Len(frames)
           f == [Top EXCEPT !.todo = @ \ {c}, !.items = items, !.result = result]
<1>1. frames \in Seq(Frames) /\ n \in Nat \ {0} /\ frames[n] \in Frames /\ Top = frames[n]
  <2>1. frames \in Seq(Frames) /\ frames # <<>>
    BY DEF TypeInv, TypeOK
  <2>2. n \in Nat \ {0}
    BY <2>1, EmptySeq
  <2> QED
    BY <2>1, <2>2, ElementOfSeq DEF Top, Last
<1>2. /\ f \in Frames /\ f.dir = Top.dir /\ f.stats = Top.stats
      /\ f.todo = Top.todo \ {c} /\ f.items = items /\ f.result = result
  BY <1>1 DEF Frames
<1>3. frames' = [frames EXCEPT ![n] = f]
  <2>1. frames' = [frames EXCEPT ![n].todo = @ \ {c}, ![n].items = items, ![n].result = result]
    BY DEF Advance
  <2>2. DOMAIN frames = 1..n
    BY <1>1, LenProperties
  <2> QED
    BY <1>1, <2>1, <2>2
<1> HIDE DEF f
<1>4. /\ frames' \in Seq(Frames) /\ Len(frames') = n
      /\ \A j \in 1..n : frames'[j] = IF j = n THEN f ELSE frames[j]
  BY <1>1, <1>2, <1>3, ExceptSeq
<1> QED
  BY <1>1, <1>2, <1>4 DEF Advanced

\* Entering a directory takes its entry off the list and pushes its frame.
LEMMA PushFacts ==
    ASSUME TypeInv, at = "scan", NEW c \in Paths,
           frames' = Append([frames EXCEPT ![Len(frames)].todo = @ \ {c}], Frame(c, disk[c]))
    PROVE  Pushed(c)
<1> DEFINE n == Len(frames)
           f == [Top EXCEPT !.todo = @ \ {c}]
           g == [frames EXCEPT ![n] = f]
<1>1. frames \in Seq(Frames) /\ n \in Nat \ {0} /\ frames[n] \in Frames /\ Top = frames[n]
  <2>1. frames \in Seq(Frames) /\ frames # <<>>
    BY DEF TypeInv, TypeOK
  <2>2. n \in Nat \ {0}
    BY <2>1, EmptySeq
  <2> QED
    BY <2>1, <2>2, ElementOfSeq DEF Top, Last
<1>2. /\ f \in Frames /\ f.dir = Top.dir /\ f.stats = Top.stats
      /\ f.todo = Top.todo \ {c} /\ f.items = Top.items /\ f.result = Top.result
  BY <1>1 DEF Frames
<1>3. frames' = Append(g, Frame(c, disk[c]))
  BY <1>1
<1> HIDE DEF f
<1>4. /\ g \in Seq(Frames) /\ Len(g) = n
      /\ \A j \in 1..n : g[j] = IF j = n THEN f ELSE frames[j]
  BY <1>1, <1>2, ExceptSeq
<1>5. Frame(c, disk[c]) \in Frames
  <2>1. disk[c] \in Nodes
    BY DEF TypeInv, TypeOK
  <2>2. <<>> \in ItemMaps
    <3>1. <<>> \in [1..0 -> Items]
      BY EmptySeq, LenProperties
    <3>2. 1..0 \in SUBSET Paths
      OBVIOUS
    <3> QED
      BY <3>1, <3>2 DEF ItemMaps
  <2>3. \A x \in Children(c) : x \in Paths
    BY DEF Children
  <2> QED
    BY <2>1, <2>2, <2>3 DEF Frame, Frames
<1> HIDE DEF g
<1>6. /\ frames' \in Seq(Frames) /\ Len(frames') = n + 1
      /\ \A j \in 1..n : frames'[j] = g[j]
      /\ frames'[n + 1] = Frame(c, disk[c])
  <2> DEFINE x == Frame(c, disk[c])
             h == Append(g, x)
  <2>1. x \in Frames
    BY <1>5
  <2> HIDE DEF x
  <2>2. /\ h \in Seq(Frames) /\ Len(h) = n + 1
        /\ \A j \in 1..n : h[j] = g[j]
        /\ h[n + 1] = x
    BY ONLY <2>1, <1>4, AppendProperties
  <2>3. frames' = h
    BY <1>3 DEF x
  <2> QED
    BY <2>2, <2>3 DEF x
<1>7. \A j \in 1..n : frames'[j] = IF j = n THEN f ELSE frames[j]
  BY <1>4, <1>6
<1>8. frames'[n] = f /\ \A j \in 1..n : j # n => frames'[j] = frames[j]
  BY <1>1, <1>7
<1> QED
  BY ONLY <1>1, <1>2, <1>6, <1>8 DEF Pushed

\* One more item.
LEMMA WithFacts ==
    ASSUME NEW items, NEW p, NEW value
    PROVE  /\ DOMAIN With(items, p, value) = DOMAIN items \cup {p}
           /\ With(items, p, value)[p] = value
           /\ \A q \in DOMAIN items : q # p => With(items, p, value)[q] = items[q]
BY DEF With

\* With adds one item to a frame's items.
LEMMA ItemsOfAFrame ==
    ASSUME NEW items \in ItemMaps, NEW p \in Paths, NEW value \in Items
    PROVE  With(items, p, value) \in ItemMaps
<1>1. PICK S \in SUBSET Paths : items \in [S -> Items]
  BY DEF ItemMaps
<1>2. With(items, p, value) \in [S \cup {p} -> Items]
  BY <1>1 DEF With
<1> QED
  BY <1>2 DEF ItemMaps

\* The item that a scan makes.
LEMMA NewItemIsItem ==
    ASSUME TypeInv, at = "scan", NEW stats \in Nodes
    PROVE  NewItem(stats, revision) \in Items
<1>1. revision \in 1..MaxScans + 1
  BY ScannerAssumption DEF TypeInv, TypeOK
<1> QED
  BY <1>1 DEF NewItem, Items

\* Popped drops the top frame and, when its directory was made, adds its item below.
LEMMA PopFacts ==
    ASSUME TypeInv, at = "scan", Len(frames) > 1, NEW result \in {0, 1}, NEW made \in BOOLEAN,
           frames' = Popped(result, made)
    PROVE  Returned(result, made)
<1> DEFINE n == Len(frames)
           up == Len(frames) - 1
           items == IF made THEN With(frames[up].items, Top.dir, NewItem(Top.stats, revision))
                    ELSE frames[up].items
           g == Front(frames)
           f == [frames[up] EXCEPT !.items = items, !.result = result]
<1>1. /\ frames \in Seq(Frames) /\ n \in Nat \ {0} /\ frames[n] \in Frames /\ Top = frames[n]
      /\ up \in 1..n /\ frames[up] \in Frames
  <2>1. frames \in Seq(Frames) /\ n \in Nat
    BY DEF TypeInv
  <2>2. n \in 1..n /\ up \in 1..n
    BY <2>1
  <2> QED
    BY <2>1, <2>2, ElementOfSeq DEF Top, Last
<1>2. items \in ItemMaps
  <2>1. Top.dir \in Paths /\ Top.stats \in Nodes /\ frames[up].items \in ItemMaps
    BY <1>1 DEF Frames
  <2> QED
    BY <2>1, NewItemIsItem, ItemsOfAFrame
<1>3. /\ f \in Frames /\ f.dir = frames[up].dir /\ f.stats = frames[up].stats
      /\ f.todo = frames[up].todo /\ f.items = items /\ f.result = result
  <2> HIDE DEF items
  <2> QED
    BY <1>1, <1>2 DEF Frames
<1>4. g \in Seq(Frames) /\ Len(g) = up /\ \A i \in 1..up : g[i] = frames[i]
  <2>1. \A i \in 1..up : frames[i] \in Frames
    BY <1>1, ElementOfSeq
  <2>2. g = SubSeq(frames, 1, up)
    BY DEF Front
  <2> HIDE DEF g
  <2>3. /\ Len(g) = IF 1 <= up THEN up - 1 + 1 ELSE 0
        /\ \A i \in 1..up - 1 + 1 : g[i] = frames[1 + i - 1]
        /\ g \in Seq(Frames)
    BY <1>1, <2>1, <2>2, SubSeqProperties
  <2> QED
    BY <1>1, <2>3
<1>5. frames' = [g EXCEPT ![up] = f]
  <2>1. frames' = [g EXCEPT ![up].items = items, ![up].result = result]
    BY DEF Popped
  <2>2. up \in DOMAIN g /\ g[up] = frames[up]
    BY <1>1, <1>4, LenProperties
  <2> HIDE DEF items, g
  <2> QED
    BY <2>1, <2>2
<1> HIDE DEF f, g, items
<1>6. /\ frames' \in Seq(Frames) /\ Len(frames') = up
      /\ \A j \in 1..up : frames'[j] = IF j = up THEN f ELSE g[j]
  BY <1>1, <1>3, <1>4, <1>5, ExceptSeq
<1>7. frames'[up] = f /\ \A j \in 1..up : j # up => frames'[j] = frames[j]
  <2>1. up \in 1..up
    BY <1>1
  <2> HIDE DEF up, n
  <2> QED
    BY <2>1, <1>4, <1>6
<1>8. up \in Nat \ {0}
  BY <1>1
<1> QED
  BY <1>3, <1>6, <1>7, <1>8 DEF items, Returned
-----------------------------------------------------------------------------

\* The initial state has its types.
LEMMA TypeInit == Init => TypeInv
<1> SUFFICES ASSUME Init PROVE TypeInv
  OBVIOUS
<1> USE DEF Init
<1>1. /\ disk \in [Paths -> Nodes] /\ hiding \in Settings
      /\ excluded \subseteq Paths /\ excluded \subseteq Excludable
  BY ScannerAssumption DEF Settings
<1>2. revision \in 0..MaxScans + 1 /\ at \in {"idle", "scan", "finish"}
  BY ScannerAssumption
<1>3. root \in Nodes /\ newRoot \in Nodes
  BY DEF Absent, Nodes
<1>4. DOMAIN <<>> = {}
  BY EmptySeq
<1>5. IsSnapshot(directories) /\ IsSnapshot(newDirectories)
  BY <1>4 DEF IsSnapshot
<1>6. at = "scan" <=> frames # <<>>
  OBVIOUS
<1>7. options \in Options
  BY DEF ScanOptions, Options
<1>8. \A i \in DOMAIN frames :
        /\ frames[i].todo \cup DOMAIN frames[i].items \subseteq Children(frames[i].dir)
        /\ frames[i].result \in {0, 1}
  BY <1>4
<1>9. excludedPaths \cup errorPaths \cup masked \cup patched \subseteq Paths
  OBVIOUS
<1>10. /\ counts \in [scans : Nat, changes : Nat, faults : Nat]
       /\ counts.scans <= MaxScans
       /\ revision <= counts.scans + 1
       /\ at # "idle" => 1 <= revision /\ revision <= counts.scans
  <2>1. counts \in [scans : Nat, changes : Nat, faults : Nat] /\ counts.scans = 0 /\ MaxScans \in Nat
    BY ScannerAssumption
  <2>2. revision = 0 /\ at = "idle"
    OBVIOUS
  <2> QED
    BY ONLY <2>1, <2>2
<1>11. touched \in BOOLEAN /\ drift \in BOOLEAN
  OBVIOUS
<1>12. frames \in Seq(Frames)
  BY EmptySeq
<1> QED
  BY <1>1, <1>2, <1>3, <1>5, <1>6, <1>7, <1>8, <1>9, <1>10, <1>11, <1>12 DEF TypeInv, TypeOK

\* The frames that a scan may have.
FramesOK ==
    /\ frames \in Seq(Frames)
    /\ at = "scan" <=> frames # <<>>
    /\ \A i \in DOMAIN frames :
         /\ frames[i].todo \cup DOMAIN frames[i].items \subseteq Children(frames[i].dir)
         /\ frames[i].result \in {0, 1}

\* The rest of the types.
CountsOK ==
    /\ counts \in [scans : Nat, changes : Nat, faults : Nat]
    /\ revision \in 0..MaxScans + 1
    /\ counts.scans <= MaxScans
    /\ revision <= counts.scans + 1
    /\ at # "idle" => 1 <= revision /\ revision <= counts.scans

ItemsOK == IsSnapshot(directories) /\ IsSnapshot(newDirectories)

OthersOK ==
    /\ disk \in [Paths -> Nodes] /\ hiding \in Settings
    /\ excluded \subseteq Paths /\ excluded \subseteq Excludable
    /\ root \in Nodes /\ newRoot \in Nodes
    /\ at \in {"idle", "scan", "finish"}
    /\ options \in Options
    /\ excludedPaths \cup errorPaths \cup masked \cup patched \subseteq Paths
    /\ touched \in BOOLEAN /\ drift \in BOOLEAN

\* The type invariant in the parts the steps disturb separately.
LEMMA TypeParts ==
    /\ TypeInv <=> FramesOK /\ CountsOK /\ ItemsOK /\ OthersOK
    /\ TypeInv' <=> FramesOK' /\ CountsOK' /\ ItemsOK' /\ OthersOK'
<1>1. TypeInv <=> FramesOK /\ CountsOK /\ ItemsOK /\ OthersOK
  BY DEF TypeInv, TypeOK, FramesOK, CountsOK, ItemsOK, OthersOK
<1>2. TypeInv' <=> FramesOK' /\ CountsOK' /\ ItemsOK' /\ OthersOK'
  BY DEF TypeInv, TypeOK, FramesOK, CountsOK, ItemsOK, OthersOK
<1> QED
  BY <1>1, <1>2

\* A step that leaves the stack alone keeps its type.
LEMMA FramesAreKept == FramesOK /\ UNCHANGED <<at, frames>> => FramesOK'
BY DEF FramesOK

\* An empty stack has its type outside the walk.
LEMMA FramesAreDropped == at' # "scan" /\ frames' = <<>> => FramesOK'
BY EmptySeq DEF FramesOK

\* A step that neither counts nor ends a scan keeps the counters.
LEMMA CountsAreKept == CountsOK /\ UNCHANGED <<at, revision, counts>> => CountsOK'
BY DEF CountsOK

\* A change or a fault more.
LEMMA CountsOfOthers ==
    ASSUME CountsOK, NEW what \in {"changes", "faults"}, NEW bound, Count(what, bound)
    PROVE  counts' \in [scans : Nat, changes : Nat, faults : Nat] /\ counts'.scans = counts.scans
BY DEF CountsOK, Count

\* A walk goes on.
LEMMA AdvanceType ==
    ASSUME TypeInv, at = "scan", at' = "scan", NEW c, NEW items \in ItemMaps, NEW result \in {0, 1},
           DOMAIN items \subseteq Children(Top.dir), Advanced(c, items, result)
    PROVE  FramesOK'
<1>1. FramesOK
  BY TypeParts
<1> DEFINE n == Len(frames)
<1>2. /\ frames' \in Seq(Frames) /\ Len(frames') = n /\ n \in Nat \ {0}
      /\ \A i \in 1..n : i # n => frames'[i] = frames[i]
      /\ frames'[n].dir = Top.dir
      /\ frames'[n].todo = Top.todo \ {c}
      /\ frames'[n].items = items /\ frames'[n].result = result
  BY DEF Advanced
<1>3. DOMAIN frames = 1..n /\ DOMAIN frames' = 1..n /\ Top = frames[n]
  BY <1>1, <1>2, LenProperties DEF FramesOK, Top, Last
<1>4. frames' # <<>>
  BY <1>2, EmptySeq
<1>5. n \in 1..n
  BY <1>2
<1> HIDE DEF n
<1>6. \A i \in 1..n :
        /\ frames'[i].todo \cup DOMAIN frames'[i].items \subseteq Children(frames'[i].dir)
        /\ frames'[i].result \in {0, 1}
  BY <1>1, <1>2, <1>3, <1>5 DEF FramesOK
<1> QED
  BY <1>2, <1>3, <1>4, <1>6 DEF FramesOK

\* The stack has its type after a directory is left.
LEMMA PopType ==
    ASSUME TypeInv, at = "scan", at' = "scan", Len(frames) > 1,
           NEW result \in {0, 1}, NEW made \in BOOLEAN, Returned(result, made),
           Top.dir \in Children(frames[Len(frames) - 1].dir)
    PROVE  FramesOK'
<1>1. FramesOK
  BY TypeParts
<1> DEFINE n == Len(frames)
           up == n - 1
<1>2. /\ frames' \in Seq(Frames) /\ Len(frames') = up /\ up \in Nat \ {0}
      /\ \A i \in 1..up : i # up => frames'[i] = frames[i]
      /\ frames'[up].dir = frames[up].dir /\ frames'[up].todo = frames[up].todo
      /\ frames'[up].result = result
      /\ frames'[up].items = IF made THEN With(frames[up].items, Top.dir, NewItem(Top.stats, revision))
                             ELSE frames[up].items
  BY DEF Returned
<1>3. DOMAIN frames = 1..n /\ DOMAIN frames' = 1..up /\ up \in 1..n
  BY <1>1, <1>2, LenProperties DEF FramesOK
<1>4. frames' # <<>>
  BY <1>2, EmptySeq
<1>5. up \in 1..up /\ 1..up \subseteq 1..n
  BY <1>2, <1>3
<1> HIDE DEF n, up
<1>6. DOMAIN frames'[up].items \subseteq DOMAIN frames[up].items \cup {Top.dir}
  <2>1. DOMAIN With(frames[up].items, Top.dir, NewItem(Top.stats, revision))
          = DOMAIN frames[up].items \cup {Top.dir}
    BY DEF With
  <2> QED
    BY <1>2, <2>1
<1>7. \A i \in 1..up :
        /\ frames'[i].todo \cup DOMAIN frames'[i].items \subseteq Children(frames'[i].dir)
        /\ frames'[i].result \in {0, 1}
  <2>1. ASSUME NEW i \in 1..up, i # up
        PROVE  /\ frames'[i].todo \cup DOMAIN frames'[i].items \subseteq Children(frames'[i].dir)
               /\ frames'[i].result \in {0, 1}
    BY <1>1, <1>2, <1>3, <1>5, <2>1 DEF FramesOK
  <2>2. /\ frames[up].todo \cup DOMAIN frames[up].items \subseteq Children(frames[up].dir)
        /\ frames[n - 1].dir = frames[up].dir
    BY <1>1, <1>3 DEF FramesOK, up
  <2>3. /\ frames'[up].todo \cup DOMAIN frames'[up].items \subseteq Children(frames'[up].dir)
        /\ frames'[up].result \in {0, 1}
    BY <1>2, <1>6, <2>2 DEF n
  <2> QED
    BY <2>1, <2>3
<1> QED
  BY <1>2, <1>3, <1>4, <1>7 DEF FramesOK
-----------------------------------------------------------------------------
(***************************************************************************)
(* The stack: each directory is in the one before, and nothing that is     *)
(* still to be visited is above a directory that is open.                  *)
(***************************************************************************)
StackInv ==
    \A i \in DOMAIN frames :
        /\ i = 1 => frames[i].dir = <<>>
        /\ i > 1 => frames[i].dir \in Children(frames[i - 1].dir)
        /\ \A j \in 1..i : IsPrefix(frames[j].dir, frames[i].dir)
        /\ \A j \in 1..i : j # i => frames[j].dir # frames[i].dir
        /\ \A j \in DOMAIN frames : \A c \in frames[j].todo : ~IsPrefix(c, frames[i].dir)

\* The domain of the stack, and its frames.
LEMMA StackDomain ==
    ASSUME TypeInv
    PROVE  /\ Len(frames) \in Nat /\ DOMAIN frames = 1..Len(frames)
           /\ at = "scan" => Len(frames) \in 1..Len(frames) /\ Top = frames[Len(frames)]
           /\ at # "scan" => DOMAIN frames = {}
           /\ \A i \in DOMAIN frames :
                /\ frames[i] \in Frames
                /\ frames[i].dir \in Paths /\ frames[i].stats \in Nodes /\ frames[i].items \in ItemMaps
                /\ frames[i].todo \subseteq Children(frames[i].dir)
                /\ DOMAIN frames[i].items \subseteq Children(frames[i].dir)
<1>1. FramesOK
  BY TypeParts
<1>2. Len(frames) \in Nat /\ DOMAIN frames = 1..Len(frames)
  BY <1>1, LenProperties DEF FramesOK
<1>3. at = "scan" => Len(frames) \in 1..Len(frames)
  BY <1>1, <1>2, EmptySeq DEF FramesOK
<1>4. at # "scan" => DOMAIN frames = {}
  BY <1>1, EmptySeq DEF FramesOK
<1>5. \A i \in DOMAIN frames : frames[i] \in Frames
  BY <1>1, <1>2, ElementOfSeq DEF FramesOK
<1>6. \A i \in DOMAIN frames :
        /\ frames[i].dir \in Paths /\ frames[i].stats \in Nodes /\ frames[i].items \in ItemMaps
        /\ frames[i].todo \subseteq Children(frames[i].dir)
        /\ DOMAIN frames[i].items \subseteq Children(frames[i].dir)
  BY <1>1, <1>5 DEF FramesOK, Frames
<1> QED
  BY <1>2, <1>3, <1>4, <1>5, <1>6 DEF Top, Last

\* The stack stays in order when frames are taken off it and less is to be visited ...
Shrinks ==
    /\ frames' \in Seq(Frames) /\ Len(frames') <= Len(frames)
    /\ \A i \in 1..Len(frames') :
         frames'[i].dir = frames[i].dir /\ frames'[i].todo \subseteq frames[i].todo

\* The order of the stack survives a pop and a shorter list of entries.
LEMMA StackShrinks ==
    ASSUME TypeInv, StackInv, Shrinks
    PROVE  StackInv'
<1> DEFINE n == Len(frames)
           m == Len(frames')
<1>1. /\ n \in Nat /\ DOMAIN frames = 1..n
      /\ m \in Nat /\ DOMAIN frames' = 1..m /\ 1..m \subseteq 1..n
  BY StackDomain, LenProperties DEF Shrinks
<1> HIDE DEF n, m
<1>2. \A i \in 1..m : i - 1 \in 1..m \/ i = 1
  BY <1>1
<1>3. \A i \in 1..m : \A j \in 1..i : j \in 1..m
  BY <1>1
<1>4. \A i \in 1..m : frames'[i].dir = frames[i].dir /\ frames'[i].todo \subseteq frames[i].todo
  BY DEF m, Shrinks
<1>5. \A i \in 1..m :
        /\ i = 1 => frames'[i].dir = <<>>
        /\ i > 1 => frames'[i].dir \in Children(frames'[i - 1].dir)
  <2> SUFFICES ASSUME NEW i \in 1..m
               PROVE  /\ i = 1 => frames'[i].dir = <<>>
                      /\ i > 1 => frames'[i].dir \in Children(frames'[i - 1].dir)
    OBVIOUS
  <2>1. /\ i = 1 => frames[i].dir = <<>>
        /\ i > 1 => frames[i].dir \in Children(frames[i - 1].dir)
    BY <1>1 DEF StackInv
  <2>2. i > 1 => i - 1 \in 1..m
    BY <1>2
  <2>3. frames'[i].dir = frames[i].dir /\ (i > 1 => frames'[i - 1].dir = frames[i - 1].dir)
    BY <1>4, <2>2
  <2> QED
    BY <2>1, <2>3
<1>6. \A i \in 1..m : \A j \in 1..i :
        /\ IsPrefix(frames'[j].dir, frames'[i].dir)
        /\ j # i => frames'[j].dir # frames'[i].dir
  BY <1>1, <1>3, <1>4 DEF StackInv
<1>7. \A i, j \in 1..m : \A c \in frames'[j].todo : ~IsPrefix(c, frames'[i].dir)
  BY <1>1, <1>4 DEF StackInv
<1> QED
  BY <1>1, <1>5, <1>6, <1>7 DEF StackInv

\* ... and when a frame is put on it for something that was to be visited.
LEMMA StackGrows ==
    ASSUME TypeInv, StackInv, at = "scan", NEW c \in Top.todo, Pushed(c)
    PROVE  StackInv'
<1> DEFINE n == Len(frames)
           new == frames'[n + 1]
<1>1. /\ n \in Nat /\ n \in 1..n /\ DOMAIN frames = 1..n /\ Top = frames[n]
      /\ DOMAIN frames' = 1..n + 1
  <2>1. n \in Nat /\ n \in 1..n /\ DOMAIN frames = 1..n /\ Top = frames[n]
    BY StackDomain
  <2>2. DOMAIN frames' = 1..n + 1
    BY LenProperties DEF Pushed
  <2> QED
    BY <2>1, <2>2
<1>2. Top.dir \in Paths /\ c \in Children(Top.dir) /\ c \in Paths
  BY <1>1, StackDomain, PathFacts
<1>3. new.dir = c /\ new.todo \subseteq Children(c)
  BY DEF Frame, Pushed
<1>4. \A i \in 1..n : frames[i].dir \in Paths /\ frames[i].todo \subseteq Paths
  <2>1. \A i \in 1..n : frames[i].dir \in Paths /\ frames[i].todo \subseteq Children(frames[i].dir)
    BY <1>1, StackDomain
  <2> QED
    BY <2>1, PathFacts
<1>5. \A i \in 1..n : frames'[i].dir = frames[i].dir /\ frames'[i].todo \subseteq frames[i].todo
  <2>1. ASSUME NEW i \in 1..n, i # n PROVE frames'[i] = frames[i]
    BY <2>1 DEF Pushed
  <2>2. frames'[n].dir = frames[n].dir /\ frames'[n].todo \subseteq frames[n].todo
    <3>1. frames'[n].dir = Top.dir /\ frames'[n].todo = Top.todo \ {c}
      BY DEF Pushed
    <3> HIDE DEF n
    <3> QED
      BY <1>1, <3>1
  <2> QED
    BY <2>1, <2>2
<1> HIDE DEF new
<1>6. \A i \in 1..n : IsPrefix(frames[i].dir, Top.dir)
  BY <1>1 DEF StackInv
<1>7. \A i \in 1..n : IsPrefix(frames[i].dir, c) /\ frames[i].dir # c
  BY <1>2, <1>4, <1>6, PathFacts
\* What is to be visited is not above the new directory.
<1>8. \A i \in 1..n : \A b \in frames'[i].todo : ~IsPrefix(b, c)
  <2> SUFFICES ASSUME NEW i \in 1..n, NEW b \in frames'[i].todo, IsPrefix(b, c)
               PROVE  FALSE
    OBVIOUS
  <2>1. b \in frames[i].todo /\ b \in Paths /\ b \in Children(frames[i].dir)
    BY <1>1, <1>4, <1>5, StackDomain
  <2>2. ~IsPrefix(b, Top.dir)
    BY <1>1, <2>1 DEF StackInv
  <2>3. b = c
    BY <1>2, <2>1, <2>2, PathFacts
  <2>4. frames[i].dir = Top.dir
    BY <1>2, <1>4, <2>1, <2>3, PathFacts
  <2>5. i = n
    BY <1>1, <2>4 DEF StackInv
  <2>6. b \in Top.todo \ {c}
    BY <2>5 DEF Pushed
  <2> QED
    BY <2>3, <2>6
<1>9. \A k \in new.todo : ~IsPrefix(k, c) /\ \A i \in 1..n : ~IsPrefix(k, frames[i].dir)
  BY <1>2, <1>3, <1>4, <1>7, PathFacts
<1>10. \A i \in 1..n + 1 : i \in 1..n \/ i = n + 1
  BY <1>1
<1>11. \A i \in 1..n : (i - 1 \in 1..n \/ i = 1) /\ 1..i \subseteq 1..n
  BY <1>1
<1>12. /\ \A j \in 1..n + 1 : IsPrefix(frames'[j].dir, c)
       /\ \A j \in 1..n + 1 : j # n + 1 => frames'[j].dir # c
  BY <1>2, <1>3, <1>5, <1>7, <1>10, PathFacts DEF new
<1>13. \A i \in 1..n + 1 : i > 1 => frames'[i].dir \in Children(frames'[i - 1].dir)
  <2>1. CASE n + 1 > 1
    <3>1. frames'[n + 1].dir \in Children(frames'[n + 1 - 1].dir)
      BY <1>1, <1>2, <1>3, <1>5 DEF new
    <3>2. ASSUME NEW i \in 1..n, i > 1 PROVE frames'[i].dir \in Children(frames'[i - 1].dir)
      <4>1. i - 1 \in 1..n
        BY <1>11, <3>2
      <4>2. frames[i].dir \in Children(frames[i - 1].dir)
        BY <1>1, <3>2 DEF StackInv
      <4> QED
        BY <1>5, <4>1, <4>2
    <3> QED
      BY <1>10, <3>1, <3>2
  <2> QED
    BY <1>1, <2>1
<1>14. \A i \in 1..n + 1 : i = 1 => frames'[i].dir = <<>>
  BY <1>1, <1>5 DEF StackInv
<1>15. \A i \in 1..n + 1 : \A j \in 1..i :
         IsPrefix(frames'[j].dir, frames'[i].dir) /\ (j # i => frames'[j].dir # frames'[i].dir)
  <2>1. \A i \in 1..n : \A j \in 1..i :
          IsPrefix(frames'[j].dir, frames'[i].dir) /\ (j # i => frames'[j].dir # frames'[i].dir)
    BY <1>1, <1>5, <1>11 DEF StackInv
  <2>2. \A j \in 1..n + 1 :
          IsPrefix(frames'[j].dir, frames'[n + 1].dir) /\ (j # n + 1 => frames'[j].dir # frames'[n + 1].dir)
    BY <1>3, <1>12 DEF new
  <2> HIDE DEF n
  <2> QED
    BY <1>10, <2>1, <2>2
<1>16. \A i, j \in 1..n + 1 : \A b \in frames'[j].todo : ~IsPrefix(b, frames'[i].dir)
  <2>1. \A i, j \in 1..n : \A b \in frames'[j].todo : ~IsPrefix(b, frames'[i].dir)
    BY <1>1, <1>5 DEF StackInv
  <2>2. \A j \in 1..n : \A b \in frames'[j].todo : ~IsPrefix(b, frames'[n + 1].dir)
    BY <1>3, <1>8 DEF new
  <2>3. \A i \in 1..n : \A b \in frames'[n + 1].todo : ~IsPrefix(b, frames'[i].dir)
    BY <1>5, <1>9 DEF new
  <2>4. \A b \in frames'[n + 1].todo : ~IsPrefix(b, frames'[n + 1].dir)
    BY <1>3, <1>9 DEF new
  <2> HIDE DEF n
  <2> QED
    BY <1>10, <2>1, <2>2, <2>3, <2>4
<1> QED
  BY <1>1, <1>13, <1>14, <1>15, <1>16 DEF StackInv
-----------------------------------------------------------------------------
(***************************************************************************)
(* The steps of a walk.                                                    *)
(***************************************************************************)
\* An entry fails, is excluded or left out, is a file, or is a directory that is opened.
Drops(c) ==
    /\ \E result \in {0, 1} : Advanced(c, Top.items, result)
    /\ \/ errorPaths' = errorPaths \cup {c} /\ excludedPaths' = excludedPaths
       \/ /\ c \in Unwanted /\ errorPaths' = errorPaths
          /\ \/ excludedPaths' = excludedPaths \cup {c}
             \/ c \in Unreported /\ excludedPaths' = excludedPaths

MakesFile(c) ==
    /\ disk[c].kind = "file" /\ c \notin Unwanted
    /\ Advanced(c, With(Top.items, c, NewItem(disk[c], revision)), Top.result)
    /\ excludedPaths' = excludedPaths /\ errorPaths' = errorPaths

Opens(c) ==
    /\ disk[c].kind = "dir" /\ c \notin Unwanted
    /\ Pushed(c)
    /\ excludedPaths' = excludedPaths /\ errorPaths' = errorPaths

\* What no step of a walk but its end changes.
WalkKeeps ==
    /\ UNCHANGED <<disk, itemVars, options, newRoot, report, touched, drift>>
    /\ \/ counts' = counts
       \/ Count("faults", MaxFaults)

\* An entry is passed over, recorded as an item, or its directory entered.
LEMMA VisitSteps ==
    ASSUME TypeInv, VisitEntry
    PROVE  /\ at = "scan" /\ at' = "scan" /\ WalkKeeps
           /\ newDirectories' = newDirectories /\ masked' = masked
           /\ \E c \in Top.todo : Drops(c) \/ MakesFile(c) \/ Opens(c)
<1>1. PICK c \in Top.todo :
        EntryHidden(c) \/ EntryFails(c) \/ EntryExcluded(c) \/ EntryIsFile(c) \/ EntryIsDirectory(c)
  BY DEF VisitEntry
<1>2. /\ at = "scan" /\ at' = at
      /\ UNCHANGED <<disk, itemVars, options, newRoot, newDirectories, masked, report, touched, drift>>
  BY DEF VisitEntry
<1>3. counts' = counts \/ Count("faults", MaxFaults)
  BY <1>1 DEF EntryHidden, EntryFails, EntryExcluded, EntryIsFile, EntryIsDirectory
<1>4. Len(frames) \in 1..Len(frames) /\ Top = frames[Len(frames)] /\ DOMAIN frames = 1..Len(frames)
  BY <1>2, StackDomain
<1>5. /\ Top \in Frames /\ Top.items \in ItemMaps /\ Top.result \in {0, 1}
      /\ c \in Paths
  <2>1. Top \in Frames /\ Top.items \in ItemMaps /\ c \in Children(Top.dir) /\ Top.dir \in Paths
    BY <1>4, StackDomain
  <2> QED
    BY <2>1, PathFacts DEF Frames
<1>6. CASE EntryFails(c)
  <2>1. Advanced(c, Top.items, Top.result)
    BY <1>2, <1>5, <1>6, AdvanceFacts DEF EntryFails
  <2>2. Drops(c)
    BY <1>5, <1>6, <2>1 DEF EntryFails, Drops
  <2> QED
    BY <1>2, <1>3, <2>2 DEF WalkKeeps
<1>7. CASE EntryExcluded(c)
  <2>1. Advanced(c, Top.items, Top.result)
    BY <1>2, <1>5, <1>7, AdvanceFacts DEF EntryExcluded
  <2>2. Drops(c)
    BY <1>5, <1>7, <2>1 DEF EntryExcluded, Drops, Unwanted
  <2> QED
    BY <1>2, <1>3, <2>2 DEF WalkKeeps
<1>10. CASE EntryHidden(c)
  <2>1. Advanced(c, Top.items, Top.result)
    BY <1>2, <1>5, <1>10, AdvanceFacts DEF EntryHidden
  <2>2. Drops(c)
    <3>1. c \in Unwanted /\ errorPaths' = errorPaths /\ excludedPaths' = excludedPaths \cup ({c} \ Unreported)
      BY <1>10 DEF EntryHidden, Unwanted
    <3>2. CASE c \in Unreported
      BY <1>5, <2>1, <3>1, <3>2 DEF Drops
    <3>3. CASE c \notin Unreported
      BY <1>5, <2>1, <3>1, <3>3 DEF Drops
    <3> QED
      BY <3>2, <3>3
  <2> QED
    BY <1>2, <1>3, <2>2 DEF WalkKeeps
<1>8. CASE EntryIsFile(c)
  <2> DEFINE items == With(Top.items, c, NewItem(disk[c], revision))
  <2>1. disk[c] \in Nodes
    BY <1>5 DEF TypeInv, TypeOK
  <2>2. items \in ItemMaps
    BY <1>2, <1>5, <2>1, NewItemIsItem, ItemsOfAFrame
  <2>3. Advance(c, items, Top.result)
    BY <1>8 DEF EntryIsFile
  <2> HIDE DEF items
  <2>4. Advanced(c, items, Top.result)
    BY <1>2, <1>5, <2>2, <2>3, AdvanceFacts
  <2>5. MakesFile(c)
    BY <1>8, <2>4 DEF EntryIsFile, MakesFile, items
  <2> QED
    BY <1>2, <1>3, <2>5 DEF WalkKeeps
<1>9. CASE EntryIsDirectory(c)
  <2>1. CASE frames' = Append([frames EXCEPT ![Len(frames)].todo = @ \ {c}], Frame(c, disk[c]))
             /\ UNCHANGED <<errorPaths, counts>>
    <3>1. Pushed(c)
      BY <1>2, <1>5, <2>1, PushFacts
    <3>2. Opens(c)
      BY <1>9, <2>1, <3>1 DEF EntryIsDirectory, Opens
    <3> QED
      BY <1>2, <1>3, <3>2 DEF WalkKeeps
  <2>2. CASE errorPaths' = errorPaths \cup {c} /\ Advance(c, Top.items, 0)
    <3>1. Advanced(c, Top.items, 0)
      BY <1>2, <1>5, <2>2, AdvanceFacts
    <3>2. Drops(c)
      BY <1>9, <2>2, <3>1 DEF EntryIsDirectory, Drops
    <3> QED
      BY <1>2, <1>3, <3>2 DEF WalkKeeps
  <2> QED
    BY <1>9, <2>1, <2>2 DEF EntryIsDirectory
<1> QED
  BY <1>1, <1>6, <1>7, <1>8, <1>9, <1>10

\* A directory has been read, or cannot be: the walk is over if it is the root, and else
\* the call returns.
Leaves(result, made) ==
    \/ Len(frames) = 1 /\ at' = "finish" /\ frames' = <<>>
    \/ Len(frames) > 1 /\ at' = "scan" /\ Returned(result, made)

HasRead ==
    /\ newDirectories' = With(newDirectories, Top.dir, Top.items) /\ masked' = masked
    /\ \/ Leaves(1, TRUE) /\ errorPaths' = errorPaths
       \/ Len(frames) > 1 /\ Leaves(1, FALSE) /\ errorPaths' = errorPaths \cup {Top.dir}

CannotRead ==
    /\ newDirectories' = newDirectories
    /\ \/ Leaves(1, TRUE) /\ masked' = masked \cup {Top.dir} /\ errorPaths' = errorPaths
       \/ /\ Len(frames) > 1 /\ Leaves(0, FALSE)
          /\ errorPaths' = errorPaths \cup {Top.dir} /\ masked' = masked

\* A directory is left only when all of its entries were visited.
LEMMA EndSteps ==
    ASSUME TypeInv, EndDirectory
    PROVE  at = "scan" /\ Top.todo = {} /\ WalkKeeps /\ excludedPaths' = excludedPaths /\ HasRead
<1>1. /\ at = "scan" /\ Top.todo = {} /\ excludedPaths' = excludedPaths
      /\ newDirectories' = With(newDirectories, Top.dir, Top.items) /\ masked' = masked
      /\ UNCHANGED <<disk, itemVars, options, newRoot, report, touched, drift>>
  BY DEF EndDirectory
<1>2. WalkKeeps
  BY <1>1 DEF EndDirectory, WalkKeeps
<1>3. CASE Len(frames) = 1 /\ at' = "finish" /\ frames' = <<>> /\ UNCHANGED <<errorPaths, counts>>
  BY <1>1, <1>2, <1>3 DEF HasRead, Leaves
<1>4. CASE Len(frames) > 1 /\ frames' = Popped(1, TRUE) /\ UNCHANGED <<at, errorPaths, counts>>
  <2>1. Returned(1, TRUE)
    BY <1>1, <1>4, PopFacts
  <2> QED
    BY <1>1, <1>2, <1>4, <2>1 DEF HasRead, Leaves
<1>5. CASE /\ Len(frames) > 1 /\ frames' = Popped(1, FALSE) /\ UNCHANGED at
           /\ errorPaths' = errorPaths \cup {Top.dir}
  <2>1. Returned(1, FALSE)
    BY <1>1, <1>5, PopFacts
  <2> QED
    BY <1>1, <1>2, <1>5, <2>1 DEF HasRead, Leaves
<1> QED
  BY <1>3, <1>4, <1>5 DEF EndDirectory

\* A failing readdir ends the whole scan or only the directory.
LEMMA ReaddirSteps ==
    ASSUME TypeInv, ReaddirFails
    PROVE  /\ at = "scan" /\ UNCHANGED <<disk, itemVars, touched, drift>> /\ Count("faults", MaxFaults)
           /\ GiveUp \/ (WalkKeeps /\ excludedPaths' = excludedPaths /\ CannotRead)
<1>1. at = "scan" /\ UNCHANGED <<disk, itemVars, touched, drift>> /\ Count("faults", MaxFaults)
  BY DEF ReaddirFails
<1>2. CASE /\ masked' = masked \cup {Top.dir}
           /\ Len(frames) = 1 /\ at' = "finish" /\ frames' = <<>>
           /\ UNCHANGED <<options, newRoot, newDirectories, excludedPaths, errorPaths, report>>
  BY <1>1, <1>2 DEF WalkKeeps, CannotRead, Leaves
<1>3. CASE /\ masked' = masked \cup {Top.dir}
           /\ Len(frames) > 1 /\ frames' = Popped(1, TRUE) /\ UNCHANGED at
           /\ UNCHANGED <<options, newRoot, newDirectories, excludedPaths, errorPaths, report>>
  <2>1. Returned(1, TRUE)
    BY <1>1, <1>3, PopFacts
  <2> QED
    BY <1>1, <1>3, <2>1 DEF WalkKeeps, CannotRead, Leaves
<1>4. CASE /\ Len(frames) > 1 /\ frames' = Popped(0, FALSE)
           /\ errorPaths' = errorPaths \cup {Top.dir}
           /\ UNCHANGED <<at, options, newRoot, newDirectories, excludedPaths, masked, report>>
  <2>1. Returned(0, FALSE)
    BY <1>1, <1>4, PopFacts
  <2> QED
    BY <1>1, <1>4, <2>1 DEF WalkKeeps, CannotRead, Leaves
<1> QED
  BY <1>1, <1>2, <1>3, <1>4 DEF ReaddirFails
-----------------------------------------------------------------------------
(***************************************************************************)
(* Every step keeps the types and the order of the stack.                  *)
(***************************************************************************)
OrderInv == TypeInv /\ StackInv

\* The initial state is in order.
LEMMA OrderInit == Init => OrderInv
<1> SUFFICES ASSUME Init PROVE OrderInv
  OBVIOUS
<1>1. TypeInv
  BY TypeInit
<1>2. at = "idle"
  BY DEF Init
<1>3. DOMAIN frames = {}
  BY <1>1, <1>2, StackDomain
<1> QED
  BY <1>1, <1>3 DEF OrderInv, StackInv

\* Without a stack there is nothing to be ordered.
LEMMA NoStack == frames' = <<>> => StackInv'
<1>1. ASSUME frames' = <<>> PROVE DOMAIN frames' = {}
  BY <1>1, EmptySeq
<1> QED
  BY <1>1 DEF StackInv

\* The order of the stack depends on the frames alone.
LEMMA StackIsKept == StackInv /\ UNCHANGED frames => StackInv'
BY DEF StackInv

\* The frames after one entry, and after a call has returned.
LEMMA AdvanceShrinks ==
    ASSUME TypeInv, at = "scan", NEW c, NEW items, NEW result, Advanced(c, items, result)
    PROVE  Shrinks
<1> DEFINE n == Len(frames)
<1>1. /\ frames' \in Seq(Frames) /\ Len(frames') = n /\ n \in Nat \ {0}
      /\ \A i \in 1..n : i # n => frames'[i] = frames[i]
      /\ frames'[n].dir = Top.dir /\ frames'[n].todo = Top.todo \ {c}
  BY DEF Advanced
<1>2. Top = frames[n]
  BY StackDomain
<1> HIDE DEF n
<1>3. \A i \in 1..n : frames'[i].dir = frames[i].dir /\ frames'[i].todo \subseteq frames[i].todo
  <2>1. ASSUME NEW i \in 1..n, i # n
        PROVE  frames'[i].dir = frames[i].dir /\ frames'[i].todo \subseteq frames[i].todo
    BY <1>1, <2>1
  <2>2. frames'[n].dir = frames[n].dir /\ frames'[n].todo \subseteq frames[n].todo
    BY <1>1, <1>2
  <2> QED
    BY <2>1, <2>2
<1> QED
  BY <1>1, <1>3 DEF Shrinks, n

\* Leaving a directory makes the stack shrink.
LEMMA ReturnShrinks ==
    ASSUME TypeInv, at = "scan", NEW result, NEW made, Returned(result, made)
    PROVE  Shrinks
<1> DEFINE up == Len(frames) - 1
<1>1. /\ frames' \in Seq(Frames) /\ Len(frames') = up /\ up \in Nat \ {0}
      /\ \A i \in 1..up : i # up => frames'[i] = frames[i]
      /\ frames'[up].dir = frames[up].dir /\ frames'[up].todo = frames[up].todo
  BY DEF Returned
<1>2. Len(frames) \in Nat /\ up <= Len(frames)
  BY StackDomain
<1> HIDE DEF up
<1>3. \A i \in 1..up : frames'[i].dir = frames[i].dir /\ frames'[i].todo \subseteq frames[i].todo
  BY <1>1
<1> QED
  BY <1>1, <1>2, <1>3 DEF Shrinks

\* Visiting an entry keeps types and stack.
LEMMA VisitOrder == OrderInv /\ VisitEntry => OrderInv'
<1> SUFFICES ASSUME TypeInv, StackInv, VisitEntry PROVE OrderInv'
  BY DEF OrderInv
<1>1. /\ at = "scan" /\ at' = "scan" /\ WalkKeeps
      /\ newDirectories' = newDirectories /\ masked' = masked
  BY VisitSteps
<1>2. PICK c \in Top.todo : Drops(c) \/ MakesFile(c) \/ Opens(c)
  BY VisitSteps
<1>3. /\ Top \in Frames /\ Top.items \in ItemMaps /\ Top.dir \in Paths /\ Top.result \in {0, 1}
      /\ c \in Children(Top.dir) /\ c \in Paths /\ DOMAIN Top.items \subseteq Children(Top.dir)
  <2>1. /\ Top \in Frames /\ Top.items \in ItemMaps /\ Top.dir \in Paths
        /\ c \in Children(Top.dir) /\ DOMAIN Top.items \subseteq Children(Top.dir)
    BY <1>1, StackDomain
  <2> QED
    BY <2>1, PathFacts DEF Frames
<1>4. CountsOK' /\ ItemsOK' /\ OthersOK'
  <2>1. CountsOK /\ ItemsOK /\ OthersOK
    BY TypeParts
  <2>2. CountsOK'
    BY <1>1, <2>1, CountsOfOthers, Zenon DEF CountsOK, WalkKeeps, itemVars
  <2>3. ItemsOK'
    BY <1>1, <2>1 DEF ItemsOK, WalkKeeps, itemVars
  <2>4. excludedPaths' \cup errorPaths' \subseteq Paths
    BY <1>2, <1>3, <2>1 DEF Drops, MakesFile, Opens, OthersOK
  <2>5. OthersOK'
    BY <1>1, <2>1, <2>4 DEF OthersOK, WalkKeeps, itemVars
  <2> QED
    BY <2>2, <2>3, <2>5
<1>5. FramesOK' /\ StackInv'
  <2>1. CASE Drops(c)
    <3>1. PICK result \in {0, 1} : Advanced(c, Top.items, result)
      BY <2>1 DEF Drops
    <3> QED
      BY <1>1, <1>3, <3>1, AdvanceType, AdvanceShrinks, StackShrinks
  <2>2. CASE MakesFile(c)
    <3> DEFINE items == With(Top.items, c, NewItem(disk[c], revision))
    <3>1. disk[c] \in Nodes
      BY <1>3 DEF TypeInv, TypeOK
    <3>2. items \in ItemMaps
      BY <1>1, <1>3, <3>1, NewItemIsItem, ItemsOfAFrame
    <3>3. DOMAIN items \subseteq Children(Top.dir)
      BY <1>3 DEF With
    <3>4. Advanced(c, items, Top.result)
      BY <2>2 DEF MakesFile
    <3> HIDE DEF items
    <3> QED
      BY <1>1, <1>3, <3>2, <3>3, <3>4, AdvanceType, AdvanceShrinks, StackShrinks
  <2>3. CASE Opens(c)
    <3>1. Pushed(c)
      BY <2>3 DEF Opens
    <3>2. StackInv'
      BY <1>1, <3>1, StackGrows
    <3>3. FramesOK'
      <4> DEFINE n == Len(frames)
      <4>1. /\ frames' \in Seq(Frames) /\ Len(frames') = n + 1 /\ n \in Nat \ {0}
            /\ \A i \in 1..n : i # n => frames'[i] = frames[i]
            /\ frames'[n].dir = Top.dir /\ frames'[n].todo = Top.todo \ {c}
            /\ frames'[n].items = Top.items /\ frames'[n].result = Top.result
            /\ frames'[n + 1] = Frame(c, disk[c])
        BY <3>1 DEF Pushed
      <4>2. DOMAIN frames = 1..n /\ DOMAIN frames' = 1..n + 1 /\ Top = frames[n]
        <5>1. DOMAIN frames = 1..n /\ Top = frames[n]
          BY <1>1, StackDomain
        <5>2. DOMAIN frames' = 1..n + 1
          BY <4>1, LenProperties
        <5> QED
          BY <5>1, <5>2
      <4>3. frames' # <<>>
        BY <4>1, EmptySeq
      <4>4. \A i \in 1..n + 1 : (i \in 1..n /\ i # n) \/ i = n \/ i = n + 1
        BY <4>1
      <4>5. DOMAIN <<>> = {}
        BY EmptySeq
      <4>6. FramesOK
        BY TypeParts
      <4> DEFINE Good(f) == f.todo \cup DOMAIN f.items \subseteq Children(f.dir) /\ f.result \in {0, 1}
      <4>7. \A i \in 1..n : i # n => Good(frames'[i])
        <5>1. \A i \in 1..n : Good(frames[i])
          BY <4>2, <4>6 DEF FramesOK
        <5> HIDE DEF Good
        <5> QED
          BY <4>1, <5>1
      <4>8. Good(frames'[n])
        <5>1. Top.todo \subseteq Children(Top.dir)
          BY <1>1, StackDomain
        <5> HIDE DEF n
        <5> QED
          BY <1>3, <4>1, <5>1
      <4>9. Good(frames'[n + 1])
        <5> HIDE DEF n
        <5> QED
          BY <4>1, <4>5 DEF Frame
      <4> HIDE DEF Good, n
      <4>10. \A i \in 1..n + 1 : Good(frames'[i])
        BY <4>4, <4>7, <4>8, <4>9
      <4> QED
        BY <1>1, <4>1, <4>2, <4>3, <4>10 DEF FramesOK, Good
    <3> QED
      BY <3>2, <3>3
  <2> QED
    BY <1>2, <2>1, <2>2, <2>3
<1> QED
  BY <1>4, <1>5, TypeParts DEF OrderInv

\* The call for a directory ends.
LEMMA LeavesOrder ==
    ASSUME OrderInv, at = "scan", NEW result \in {0, 1}, NEW made \in BOOLEAN, Leaves(result, made)
    PROVE  FramesOK' /\ StackInv'
<1>1. TypeInv /\ StackInv
  BY DEF OrderInv
<1>2. CASE Len(frames) = 1 /\ at' = "finish" /\ frames' = <<>>
  BY <1>2, FramesAreDropped, NoStack
<1>3. CASE Len(frames) > 1 /\ at' = "scan" /\ Returned(result, made)
  <2>1. Len(frames) \in DOMAIN frames /\ Top = frames[Len(frames)]
    BY <1>1, StackDomain
  <2>2. Top.dir \in Children(frames[Len(frames) - 1].dir)
    BY <1>1, <1>3, <2>1 DEF StackInv
  <2> QED
    BY <1>1, <1>3, <2>2, PopType, ReturnShrinks, StackShrinks
<1> QED
  BY <1>2, <1>3 DEF Leaves

\* A snapshot with the entries of one more directory.
LEMMA SnapshotGrows ==
    ASSUME NEW dirs, IsSnapshot(dirs), NEW d \in Paths, NEW items \in ItemMaps,
           DOMAIN items \subseteq Children(d)
    PROVE  IsSnapshot(With(dirs, d, items))
<1>1. PICK S \in SUBSET Paths : items \in [S -> Items]
  BY DEF ItemMaps
<1>2. \A p \in DOMAIN items : items[p] \in Items
  BY <1>1
<1> QED
  BY <1>2 DEF IsSnapshot, With

\* Leaving a directory keeps types and stack.
LEMMA EndOrder == OrderInv /\ EndDirectory => OrderInv'
<1> SUFFICES ASSUME TypeInv, StackInv, OrderInv, EndDirectory PROVE OrderInv'
  BY DEF OrderInv
<1>1. at = "scan" /\ WalkKeeps /\ excludedPaths' = excludedPaths /\ HasRead
  BY EndSteps
<1>2. Top.items \in ItemMaps /\ Top.dir \in Paths /\ DOMAIN Top.items \subseteq Children(Top.dir)
  BY <1>1, StackDomain
<1>3. CountsOK /\ ItemsOK /\ OthersOK
  BY TypeParts
<1>4. at' \in {"scan", "finish"}
  BY <1>1 DEF HasRead, Leaves
<1>5. CountsOK'
  BY <1>1, <1>3, <1>4, CountsOfOthers, Zenon DEF CountsOK, WalkKeeps, itemVars
<1>6. ItemsOK'
  BY <1>1, <1>2, <1>3, SnapshotGrows DEF ItemsOK, WalkKeeps, itemVars, HasRead
<1>7. OthersOK'
  BY <1>1, <1>2, <1>3, <1>4 DEF OthersOK, WalkKeeps, itemVars, HasRead
<1>8. FramesOK' /\ StackInv'
  BY <1>1, LeavesOrder DEF HasRead
<1> QED
  BY <1>5, <1>6, <1>7, <1>8, TypeParts DEF OrderInv

\* Giving up the scan keeps types and stack.
LEMMA GiveUpOrder ==
    ASSUME OrderInv, at = "scan", UNCHANGED <<disk, itemVars, touched, drift>>,
           Count("faults", MaxFaults), GiveUp
    PROVE  OrderInv'
<1>1. CountsOK /\ ItemsOK /\ OthersOK
  BY TypeParts DEF OrderInv
<1>2. FramesOK' /\ StackInv'
  BY FramesAreDropped, NoStack DEF GiveUp
<1>3. CountsOK'
  <2>1. counts' \in [scans : Nat, changes : Nat, faults : Nat] /\ counts'.scans = counts.scans
    BY <1>1, CountsOfOthers
  <2>2. revision' = revision /\ at' = "idle"
    BY DEF GiveUp, itemVars
  <2> QED
    BY <1>1, <2>1, <2>2 DEF CountsOK
<1>4. IsSnapshot(<<>>)
  BY EmptySeq DEF IsSnapshot
<1>5. ItemsOK'
  BY <1>1, <1>4 DEF ItemsOK, GiveUp, itemVars
<1>6. OthersOK'
  <2>1. Absent \in Nodes /\ ScanOptions \in Options
    BY DEF Absent, Nodes, ScanOptions, Options
  <2> QED
    BY <1>1, <2>1 DEF OthersOK, GiveUp, itemVars
<1> QED
  BY <1>2, <1>3, <1>5, <1>6, TypeParts DEF OrderInv

\* A failing readdir keeps types and stack.
LEMMA ReaddirOrder == OrderInv /\ ReaddirFails => OrderInv'
<1> SUFFICES ASSUME TypeInv, OrderInv, ReaddirFails PROVE OrderInv'
  BY DEF OrderInv
<1>1. /\ at = "scan" /\ UNCHANGED <<disk, itemVars, touched, drift>> /\ Count("faults", MaxFaults)
      /\ GiveUp \/ (WalkKeeps /\ excludedPaths' = excludedPaths /\ CannotRead)
  BY ReaddirSteps
<1>2. CASE GiveUp
  BY <1>1, <1>2, GiveUpOrder
<1>3. CASE WalkKeeps /\ excludedPaths' = excludedPaths /\ CannotRead
  <2>1. Top.dir \in Paths
    BY <1>1, StackDomain
  <2>2. CountsOK /\ ItemsOK /\ OthersOK
    BY TypeParts
  <2>3. at' \in {"scan", "finish"}
    BY <1>3 DEF CannotRead, Leaves
  <2>4. CountsOK'
    BY <1>1, <1>3, <2>2, <2>3, CountsOfOthers, Zenon DEF CountsOK, WalkKeeps, itemVars
  <2>5. ItemsOK'
    BY <1>3, <2>2 DEF ItemsOK, WalkKeeps, itemVars, CannotRead
  <2>6. OthersOK'
    BY <1>3, <2>1, <2>2, <2>3 DEF OthersOK, WalkKeeps, itemVars, CannotRead
  <2>7. FramesOK' /\ StackInv'
    BY <1>1, <1>3, LeavesOrder DEF CannotRead
  <2> QED
    BY <2>4, <2>5, <2>6, <2>7, TypeParts DEF OrderInv
<1> QED
  BY <1>1, <1>2, <1>3

\* An abort by the delegate keeps types and stack.
LEMMA AbortOrder == OrderInv /\ Abort => OrderInv'
BY GiveUpOrder DEF Abort
-----------------------------------------------------------------------------
(***************************************************************************)
(* Snapshots.                                                              *)
(***************************************************************************)
\* What is in a snapshot.
LEMMA SnapshotFacts ==
    ASSUME NEW dirs, IsSnapshot(dirs)
    PROVE  /\ ItemPaths(dirs) \subseteq Paths \ {<<>>}
           /\ \A p \in ItemPaths(dirs) :
                /\ Item(dirs, p) \in Items /\ Item(dirs, p).stats \in Nodes
                /\ Parent(p) \in DOMAIN dirs /\ p \in DOMAIN dirs[Parent(p)]
           /\ \A d \in DOMAIN dirs : \A p \in DOMAIN dirs[d] :
                /\ p \in ItemPaths(dirs) /\ Parent(p) = d /\ d \in Paths /\ Item(dirs, p) = dirs[d][p]
<1>1. \A d \in DOMAIN dirs : \A p \in DOMAIN dirs[d] :
        p \in Paths \ {<<>>} /\ Parent(p) = d /\ d \in Paths /\ dirs[d][p] \in Items
  BY PathFacts DEF IsSnapshot
<1>2. \A p \in ItemPaths(dirs) : Item(dirs, p) \in Items
  BY <1>1 DEF ItemPaths, Item
<1>3. \A item \in Items : item.stats \in Nodes
  BY DEF Items
<1> QED
  BY <1>1, <1>2, <1>3 DEF ItemPaths, Item

\* A comparison changes the revision and the user info of the new items, and nothing else.
LEMMA RevisedFacts ==
    ASSUME NEW new, IsSnapshot(new), NEW old, IsSnapshot(old), NEW rev \in 1..MaxScans + 1
    PROVE  LET changed == Added(new, old) \cup ModifiedData(new, old) \cup ModifiedMetadata(new, old)
               dirs == Revised(new, old, rev)
           IN  /\ IsSnapshot(dirs) /\ DOMAIN dirs = DOMAIN new
               /\ \A d \in DOMAIN dirs : DOMAIN dirs[d] = DOMAIN new[d]
               /\ ItemPaths(dirs) = ItemPaths(new)
               /\ \A p \in ItemPaths(new) :
                    /\ Item(dirs, p).stats = Item(new, p).stats
                    /\ p \in changed => Item(dirs, p).revision = rev
                    /\ p \notin changed => Item(dirs, p).revision = Item(old, p).revision
                    /\ p \in ItemPaths(old) => Item(dirs, p).userInfo = Item(old, p).userInfo
<1> DEFINE changed == Added(new, old) \cup ModifiedData(new, old) \cup ModifiedMetadata(new, old)
           dirs == Revised(new, old, rev)
           made(x, p) == [x EXCEPT
                            !.userInfo = IF p \in ItemPaths(old) THEN Item(old, p).userInfo ELSE @,
                            !.revision = IF p \in changed THEN rev ELSE Item(old, p).revision]
<1>1. DOMAIN dirs = DOMAIN new /\ \A d \in DOMAIN dirs : DOMAIN dirs[d] = DOMAIN new[d]
  BY DEF Revised
<1>2. \A d \in DOMAIN new : \A p \in DOMAIN new[d] : dirs[d][p] = made(new[d][p], p)
  BY DEF Revised
<1> HIDE DEF dirs
<1>3. ItemPaths(dirs) = ItemPaths(new)
  BY <1>1 DEF ItemPaths
<1>4. \A p \in ItemPaths(new) : p \notin changed => p \in ItemPaths(old)
  BY DEF Added
<1> HIDE DEF changed
<1>5. ASSUME NEW x \in Items, NEW p \in ItemPaths(new)
      PROVE  /\ made(x, p) \in Items /\ made(x, p).stats = x.stats
             /\ p \in changed => made(x, p).revision = rev
             /\ p \notin changed => made(x, p).revision = Item(old, p).revision
             /\ p \in ItemPaths(old) => made(x, p).userInfo = Item(old, p).userInfo
  <2>1. p \in ItemPaths(old) => Item(old, p).userInfo \in {"none", "info"}
                                /\ Item(old, p).revision \in 1..MaxScans + 1
    BY SnapshotFacts DEF Items
  <2> QED
    BY <1>4, <2>1 DEF Items
<1>6. \A d \in DOMAIN new : \A p \in DOMAIN new[d] :
        /\ dirs[d][p] \in Items
        /\ dirs[d][p].stats = new[d][p].stats
        /\ p \in changed => dirs[d][p].revision = rev
        /\ p \notin changed => dirs[d][p].revision = Item(old, p).revision
        /\ p \in ItemPaths(old) => dirs[d][p].userInfo = Item(old, p).userInfo
  <2> SUFFICES ASSUME NEW d \in DOMAIN new, NEW p \in DOMAIN new[d]
               PROVE  /\ dirs[d][p] \in Items
                      /\ dirs[d][p].stats = new[d][p].stats
                      /\ p \in changed => dirs[d][p].revision = rev
                      /\ p \notin changed => dirs[d][p].revision = Item(old, p).revision
                      /\ p \in ItemPaths(old) => dirs[d][p].userInfo = Item(old, p).userInfo
    OBVIOUS
  <2>1. new[d][p] \in Items /\ p \in ItemPaths(new)
    BY SnapshotFacts DEF IsSnapshot
  <2> HIDE DEF made
  <2>2. dirs[d][p] = made(new[d][p], p)
    BY <1>2
  <2> QED
    BY <1>5, <2>1, <2>2
<1> HIDE DEF made
<1>7. IsSnapshot(dirs)
  BY <1>1, <1>6 DEF IsSnapshot
<1>8. \A p \in ItemPaths(new) :
        /\ Item(dirs, p).stats = Item(new, p).stats
        /\ p \in changed => Item(dirs, p).revision = rev
        /\ p \notin changed => Item(dirs, p).revision = Item(old, p).revision
        /\ p \in ItemPaths(old) => Item(dirs, p).userInfo = Item(old, p).userInfo
  <2> SUFFICES ASSUME NEW p \in ItemPaths(new)
               PROVE  /\ Item(dirs, p).stats = Item(new, p).stats
                      /\ p \in changed => Item(dirs, p).revision = rev
                      /\ p \notin changed => Item(dirs, p).revision = Item(old, p).revision
                      /\ p \in ItemPaths(old) => Item(dirs, p).userInfo = Item(old, p).userInfo
    OBVIOUS
  <2>1. Parent(p) \in DOMAIN new /\ p \in DOMAIN new[Parent(p)]
    BY SnapshotFacts
  <2>2. Item(dirs, p) = dirs[Parent(p)][p] /\ Item(new, p) = new[Parent(p)][p]
    BY DEF Item
  <2> QED
    BY <1>6, <2>1, <2>2
<1> QED
  BY <1>1, <1>3, <1>7, <1>8 DEF dirs, changed
-----------------------------------------------------------------------------
(***************************************************************************)
(* The steps that are not part of a walk.                                  *)
(***************************************************************************)
\* There are no items before the first scan.
RevisionInv == revision = 0 => DOMAIN directories = {}

\* A scan whose root cannot be read keeps types, stack and revision.
LEMMA StartFailsOrder ==
    ASSUME OrderInv, NEW opt \in {ScanOptions} \cup CompareOptions, StartFails(opt)
    PROVE  OrderInv' /\ (RevisionInv => RevisionInv')
<1>1. TypeInv /\ StackInv /\ FramesOK /\ CountsOK /\ ItemsOK /\ OthersOK
  BY TypeParts DEF OrderInv
<1>2. FramesOK' /\ StackInv'
  BY <1>1, FramesAreKept, StackIsKept DEF StartFails
<1>3. CountsOK'
  <2>1. counts' \in [scans : Nat, changes : Nat, faults : Nat] /\ counts'.scans = counts.scans
    BY <1>1, CountsOfOthers DEF StartFails
  <2>2. at' = "idle" /\ (revision' = revision \/ revision' = 1)
    BY DEF StartFails
  <2> QED
    BY <1>1, <2>1, <2>2, ScannerAssumption DEF CountsOK
<1>4. ItemsOK' /\ OthersOK'
  BY <1>1 DEF StartFails, ItemsOK, OthersOK, localVars
<1>5. RevisionInv => RevisionInv'
  BY DEF RevisionInv, StartFails
<1> QED
  BY <1>2, <1>3, <1>4, <1>5, TypeParts DEF OrderInv

\* The stack of a walk that begins.
LEMMA FirstFrame ==
    ASSUME TypeInv, NEW d \in Paths
    PROVE  /\ Frame(d, disk[d]) \in Frames
           /\ Frame(d, disk[d]).dir = d /\ Frame(d, disk[d]).stats = disk[d]
           /\ Frame(d, disk[d]).todo = {c \in Children(d) : disk[c].kind # "absent"}
           /\ Frame(d, disk[d]).items = <<>> /\ Frame(d, disk[d]).result = 0
           /\ DOMAIN <<>> = {}
<1>1. disk[d] \in Nodes
  BY DEF TypeInv, TypeOK
<1>2. <<>> \in ItemMaps
  <2>1. <<>> \in [1..0 -> Items]
    BY EmptySeq, LenProperties
  <2>2. 1..0 \in SUBSET Paths
    OBVIOUS
  <2> QED
    BY <2>1, <2>2 DEF ItemMaps
<1>3. \A x \in Children(d) : x \in Paths
  BY DEF Children
<1>4. DOMAIN <<>> = {}
  BY EmptySeq
<1> QED
  BY <1>1, <1>2, <1>3, <1>4 DEF Frame, Frames

\* Starting a scan keeps types, stack and revision.
LEMMA StartScanOrder ==
    ASSUME OrderInv, NEW opt \in {ScanOptions} \cup CompareOptions, StartScan(opt)
    PROVE  OrderInv' /\ (RevisionInv => RevisionInv')
<1>1. TypeInv /\ StackInv /\ FramesOK /\ CountsOK /\ ItemsOK /\ OthersOK
  BY TypeParts DEF OrderInv
<1> DEFINE f == Frame(<<>>, disk[<<>>])
<1>2. /\ f \in Frames /\ f.dir = <<>> /\ f.todo \subseteq Children(<<>>)
      /\ DOMAIN f.items = {} /\ f.result = 0
  <2>1. <<>> \in Paths
    BY ScannerAssumption
  <2> QED
    BY <1>1, <2>1, FirstFrame
<1>3. frames' = <<f>>
  BY DEF StartScan
<1> HIDE DEF f
<1>4. frames' \in Seq(Frames) /\ DOMAIN frames' = 1..1 /\ frames'[1] = f /\ frames' # <<>>
  BY <1>2, <1>3
<1>5. FramesOK'
  BY <1>2, <1>4 DEF FramesOK, StartScan
<1>6. StackInv'
  <2>1. DOMAIN frames' = {1} /\ 1..1 = {1}
    BY <1>4
  <2>2. IsPrefix(<<>>, <<>>) /\ \A c \in f.todo : ~IsPrefix(c, <<>>)
    BY <1>2, PathFacts, ScannerAssumption
  <2> QED
    BY <1>2, <1>4, <2>1, <2>2 DEF StackInv
<1>7. CountsOK'
  <2>1. /\ counts' \in [scans : Nat, changes : Nat, faults : Nat]
        /\ counts'.scans = counts.scans + 1 /\ counts.scans < MaxScans
    BY <1>1 DEF CountsOK, Count, StartScan
  <2>2. (revision' = revision /\ revision # 0) \/ revision' = 1
    BY DEF StartScan
  <2> QED
    BY <1>1, <2>1, <2>2, ScannerAssumption DEF CountsOK
<1>8. IsSnapshot(<<>>)
  BY EmptySeq DEF IsSnapshot
<1>9. ItemsOK'
  BY <1>1, <1>8 DEF StartScan, ItemsOK
<1>10. OthersOK'
  <2>1. opt \in Options
    <3>1. CompareOptions \subseteq Options
      BY ScannerAssumption
    <3>2. ScanOptions \in Options
      BY DEF ScanOptions, Options
    <3> QED
      BY <3>1, <3>2
  <2>2. disk[<<>>] \in Nodes
    BY <1>1, ScannerAssumption DEF OthersOK
  <2> QED
    BY <1>1, <2>1, <2>2 DEF StartScan, OthersOK
<1>11. RevisionInv => RevisionInv'
  BY DEF RevisionInv, StartScan
<1> QED
  BY <1>5, <1>6, <1>7, <1>9, <1>10, <1>11, TypeParts DEF OrderInv

\* A refused scan keeps types, stack and revision.
LEMMA RefusedOrder == OrderInv /\ ScanRefused => OrderInv' /\ (RevisionInv => RevisionInv')
<1> SUFFICES ASSUME OrderInv, ScanRefused PROVE OrderInv' /\ (RevisionInv => RevisionInv')
  OBVIOUS
<1>1. TypeInv /\ StackInv /\ FramesOK /\ CountsOK /\ ItemsOK /\ OthersOK
  BY TypeParts DEF OrderInv
<1>2. FramesOK' /\ StackInv' /\ CountsOK'
  BY <1>1, FramesAreKept, StackIsKept, CountsAreKept DEF ScanRefused, itemVars
<1>3. ItemsOK' /\ OthersOK'
  BY <1>1 DEF ScanRefused, ItemsOK, OthersOK, itemVars, localVars
<1>4. RevisionInv => RevisionInv'
  BY DEF RevisionInv, ScanRefused, itemVars
<1> QED
  BY <1>2, <1>3, <1>4, TypeParts DEF OrderInv
-----------------------------------------------------------------------------
(***************************************************************************)
(* The end of a scan.                                                      *)
(***************************************************************************)
\* r reports these changes.
HasFields(r, moved, added, removed, modData, modMeta) ==
    /\ DOMAIN r = {"nil", "added", "removed", "modData", "modMeta", "moved", "excluded", "errors"}
    /\ r.nil = FALSE /\ r.excluded = {} /\ r.errors = {}
    /\ r.moved = moved /\ r.added = added /\ r.removed = removed
    /\ r.modData = modData /\ r.modMeta = modMeta

\* A comparison that found the matched pairs m1 and m2.
Compared(r, new, old, opt, m1, m2) ==
    LET added == Added(new, old)
        pruned == Pruned(new, old)
        removed == Removed(new, old) \cup (IF opt.reportAll THEN pruned ELSE {})
    IN  /\ HasFields(r, m1 \cup m2, added \ {m[2] : m \in m1 \cup m2}, removed \ {m[1] : m \in m2},
                     ModifiedData(new, old), ModifiedMetadata(new, old))
        /\ m1 \subseteq pruned \X added
        /\ m2 \subseteq removed \X added

\* What a comparison that found the moves m1 and m2 does with the fields, one by one.
LEMMA ChangeFields ==
    ASSUME NEW a, NEW b, NEW c, NEW d, NEW e
    PROVE  HasFields([NoChange EXCEPT !.moved = a, !.added = b, !.removed = c, !.modData = d, !.modMeta = e],
                     a, b, c, d, e)
<1> DEFINE x1 == [NoChange EXCEPT !.moved = a]
           x2 == [x1 EXCEPT !.added = b]
           x3 == [x2 EXCEPT !.removed = c]
           x4 == [x3 EXCEPT !.modData = d]
           x5 == [x4 EXCEPT !.modMeta = e]
<1>0. HasFields(NoChange, {}, {}, {}, {}, {})
  BY DEF NoChange, HasFields
<1>1. HasFields(x1, a, {}, {}, {}, {})
  BY <1>0 DEF HasFields
<1> HIDE DEF x1
<1>2. HasFields(x2, a, b, {}, {}, {})
  BY <1>1 DEF HasFields
<1> HIDE DEF x2
<1>3. HasFields(x3, a, b, c, {}, {})
  BY <1>2 DEF HasFields
<1> HIDE DEF x3
<1>4. HasFields(x4, a, b, c, d, {})
  BY <1>3 DEF HasFields
<1> HIDE DEF x4
<1>5. HasFields(x5, a, b, c, d, e)
  BY <1>4 DEF HasFields
<1> HIDE DEF x5
<1> QED
  BY <1>5, Zenon DEF x1, x2, x3, x4, x5

\* What a comparison returns.
LEMMA CompareFacts ==
    ASSUME NEW new, NEW old, NEW opt, NEW r \in CompareDirectories(new, old, opt)
    PROVE  \E m1, m2 : Compared(r, new, old, opt, m1, m2)
<1> DEFINE added == Added(new, old)
           pruned == Pruned(new, old)
           removed == Removed(new, old) \cup (IF opt.reportAll THEN pruned ELSE {})
           result(m1, m2) ==
             [NoChange EXCEPT
                !.moved = m1 \cup m2,
                !.added = added \ {m[2] : m \in m1 \cup m2},
                !.removed = removed \ {m[1] : m \in m2},
                !.modData = ModifiedData(new, old),
                !.modMeta = ModifiedMetadata(new, old)]
<1>1. ASSUME NEW m1, NEW m2
      PROVE  HasFields(result(m1, m2), m1 \cup m2, added \ {m[2] : m \in m1 \cup m2},
                       removed \ {m[1] : m \in m2}, ModifiedData(new, old), ModifiedMetadata(new, old))
  BY ChangeFields, Zenon
<1>2. \A gone, fresh : \A s \in Matchings(new, old, gone, fresh) : s \subseteq gone \X fresh
  BY DEF Matchings
<1>3. CASE opt.detectMoved
  <2> DEFINE results(m1) ==
               {result(m1, m2) : m2 \in Matchings(new, old, removed, added \ {m[2] : m \in m1})}
  <2>0. CompareDirectories(new, old, opt) = UNION {results(m1) : m1 \in Matchings(new, old, pruned, added)}
    BY <1>3, Zenon DEF CompareDirectories
  <2> HIDE DEF result, added, removed, pruned
  <2>1. PICK m1 \in Matchings(new, old, pruned, added) :
        \E m2 \in Matchings(new, old, removed, added \ {m[2] : m \in m1}) : r = result(m1, m2)
    BY <2>0
  <2>2. PICK m2 \in Matchings(new, old, removed, added \ {m[2] : m \in m1}) : r = result(m1, m2)
    BY <2>1
  <2>3. m1 \subseteq pruned \X added
    BY <1>2
  <2>4. m2 \subseteq removed \X (added \ {m[2] : m \in m1})
    BY <1>2
  <2>5. m2 \subseteq removed \X added
    BY <2>4
  <2>6. Compared(r, new, old, opt, m1, m2)
    BY <1>1, <2>2, <2>3, <2>5 DEF Compared, added, removed, pruned
  <2> QED
    BY <2>6
<1>4. CASE ~opt.detectMoved
  <2>1. r = result({}, {})
    BY <1>4 DEF CompareDirectories
  <2> HIDE DEF result
  <2>2. Compared(r, new, old, opt, {}, {})
    BY <1>1, <2>1 DEF Compared
  <2> QED
    BY <2>2
<1> QED
  BY <1>3, <1>4

\* The report of a comparison, but for the errors and what was excluded.
Reported(m1, m2) ==
    LET rootChanged == ScanMetadata /\ root # Absent /\ root.meta # newRoot.meta
        modMeta == ModifiedMetadata(newDirectories, directories) \cup (IF rootChanged THEN {<<>>} ELSE {})
        removed == Removed(newDirectories, directories)
                     \cup (IF options.reportAll THEN Pruned(newDirectories, directories) ELSE {})
    IN  /\ m1 \subseteq Pruned(newDirectories, directories) \X Added(newDirectories, directories)
        /\ m2 \subseteq removed \X Added(newDirectories, directories)
        /\ report'.moved = m1 \cup m2
        /\ report'.added = Added(newDirectories, directories) \ {m[2] : m \in m1 \cup m2}
        /\ report'.removed = removed \ {m[1] : m \in m2}
        /\ report'.modData = ModifiedData(newDirectories, directories)
        /\ report'.modMeta = modMeta
        /\ revision' = IF options.bump /\ ~IsEmpty(report') THEN revision + 1 ELSE revision

\* What the end of a scan does.
Finished ==
    LET rev == IF options.bump THEN revision + 1 ELSE revision
    IN  /\ at = "finish" /\ at' = "idle" /\ frames' = frames
        /\ UNCHANGED <<disk, excluded, hiding, touched, counts>>
        /\ root' = newRoot /\ options' = ScanOptions /\ newRoot' = Absent /\ newDirectories' = <<>>
        /\ excludedPaths' = {} /\ errorPaths' = {} /\ masked' = {} /\ patched' = masked
        /\ drift' = (touched \/ errorPaths # {} \/ masked # {})
        /\ report'.nil = FALSE /\ report'.errors = errorPaths /\ report'.excluded = excludedPaths
        /\ \/ /\ options.compare /\ directories' = Revised(newDirectories, directories, rev)
              /\ \E m1, m2 : Reported(m1, m2)
           \/ ~options.compare /\ directories' = newDirectories /\ revision' = revision

\* What the end of a scan changes, without the local names of Finish.
LEMMA FinishSteps == Finish => Finished
<1> SUFFICES ASSUME Finish PROVE Finished
  OBVIOUS
<1>1. /\ at = "finish" /\ at' = "idle" /\ frames' = frames
      /\ UNCHANGED <<disk, excluded, hiding, touched, counts>>
      /\ root' = newRoot /\ options' = ScanOptions /\ newRoot' = Absent /\ newDirectories' = <<>>
      /\ excludedPaths' = {} /\ errorPaths' = {} /\ masked' = {} /\ patched' = masked
      /\ drift' = (touched \/ errorPaths # {} \/ masked # {})
  BY Zenon DEF Finish
<1>2. CASE ~options.compare
  <2>1. report' = [NoChange EXCEPT !.excluded = excludedPaths, !.errors = errorPaths]
    BY <1>2, Zenon DEF Finish
  <2>2. report'.nil = FALSE /\ report'.errors = errorPaths /\ report'.excluded = excludedPaths
    BY <2>1 DEF NoChange
  <2>3. directories' = newDirectories /\ revision' = revision
    BY <1>2, Zenon DEF Finish
  <2> QED
    BY <1>1, <1>2, <2>2, <2>3 DEF Finished
<1>3. CASE options.compare
  <2> DEFINE rootChanged == ScanMetadata /\ root # Absent /\ root.meta # newRoot.meta
             all(r) == IF rootChanged THEN [r EXCEPT !.modMeta = @ \cup {<<>>}] ELSE r
  <2>1. PICK r \in CompareDirectories(newDirectories, directories, options) :
          /\ revision' = NextRevision(all(r))
          /\ report' = [all(r) EXCEPT !.excluded = excludedPaths, !.errors = errorPaths]
    BY <1>3, Zenon DEF Finish
  <2>2. PICK m1, m2 : Compared(r, newDirectories, directories, options, m1, m2)
    BY CompareFacts
  <2> DEFINE rem == (Removed(newDirectories, directories)
                      \cup (IF options.reportAll THEN Pruned(newDirectories, directories) ELSE {}))
                      \ {m[1] : m \in m2}
             add == Added(newDirectories, directories) \ {m[2] : m \in m1 \cup m2}
             data == ModifiedData(newDirectories, directories)
             meta == ModifiedMetadata(newDirectories, directories)
             moved == m1 \cup m2
  <2>3. HasFields(r, moved, add, rem, data, meta)
    BY <2>2 DEF Compared
  <2> HIDE DEF rem, add, data, meta, moved
  <2>4. HasFields(all(r), moved, add, rem, data, meta \cup (IF rootChanged THEN {<<>>} ELSE {}))
    BY <2>3 DEF HasFields
  <2> HIDE DEF all
  <2>5. /\ report'.nil = FALSE /\ report'.errors = errorPaths /\ report'.excluded = excludedPaths
        /\ report'.moved = moved /\ report'.added = add /\ report'.removed = rem
        /\ report'.modData = data
        /\ report'.modMeta = meta \cup (IF rootChanged THEN {<<>>} ELSE {})
    BY <2>1, <2>4 DEF HasFields
  <2>6. IsEmpty(all(r)) <=> IsEmpty(report')
    BY <2>4, <2>5 DEF IsEmpty, HasFields
  <2>7. revision' = IF options.bump /\ ~IsEmpty(report') THEN revision + 1 ELSE revision
    BY <2>1, <2>6 DEF NextRevision
  <2> HIDE DEF rootChanged
  <2>8. Reported(m1, m2)
    <3>1. /\ m1 \subseteq Pruned(newDirectories, directories) \X Added(newDirectories, directories)
          /\ m2 \subseteq (Removed(newDirectories, directories)
                             \cup (IF options.reportAll THEN Pruned(newDirectories, directories) ELSE {}))
                            \X Added(newDirectories, directories)
      BY <2>2 DEF Compared
    <3> QED
      BY <2>5, <2>7, <3>1 DEF Reported, rootChanged, rem, add, data, meta, moved
  <2>9. directories' = Revised(newDirectories, directories,
                               IF options.bump THEN revision + 1 ELSE revision)
    BY <1>3, Zenon DEF Finish
  <2> QED
    BY <1>1, <1>3, <2>5, <2>8, <2>9 DEF Finished
<1> QED
  BY <1>2, <1>3

\* The revision that a comparison may give to an item.
LEMMA NewRevision ==
    ASSUME CountsOK, at = "finish"
    PROVE  /\ revision \in 1..MaxScans + 1 /\ revision + 1 \in 1..MaxScans + 1
           /\ revision \in Nat /\ counts.scans \in Nat /\ revision + 1 <= counts.scans + 1
BY ScannerAssumption DEF CountsOK

\* The new snapshot has the items that the scan found.
LEMMA FinishFacts ==
    ASSUME OrderInv, Finished
    PROVE  /\ IsSnapshot(newDirectories) /\ IsSnapshot(directories)
           /\ IsSnapshot(directories') /\ DOMAIN directories' = DOMAIN newDirectories
           /\ ItemPaths(directories') = ItemPaths(newDirectories)
           /\ \A p \in ItemPaths(newDirectories) :
                Item(directories', p).stats = Item(newDirectories, p).stats
           /\ revision' \in {revision, revision + 1}
<1>1. /\ IsSnapshot(newDirectories) /\ IsSnapshot(directories)
      /\ revision \in 1..MaxScans + 1 /\ revision + 1 \in 1..MaxScans + 1
  BY TypeParts, NewRevision DEF OrderInv, ItemsOK, Finished
<1>2. CASE ~options.compare /\ directories' = newDirectories /\ revision' = revision
  BY <1>1, <1>2
<1>3. CASE /\ directories' = Revised(newDirectories, directories,
                                     IF options.bump THEN revision + 1 ELSE revision)
           /\ \E m1, m2 : Reported(m1, m2)
  <2>1. revision' \in {revision, revision + 1}
    BY <1>3 DEF Reported
  <2> DEFINE rev == IF options.bump THEN revision + 1 ELSE revision
  <2>2. rev \in 1..MaxScans + 1
    BY <1>1
  <2> HIDE DEF rev
  <2>3. directories' = Revised(newDirectories, directories, rev)
    BY <1>3 DEF rev
  <2> DEFINE dirs == Revised(newDirectories, directories, rev)
  <2>4. /\ IsSnapshot(dirs) /\ DOMAIN dirs = DOMAIN newDirectories
        /\ ItemPaths(dirs) = ItemPaths(newDirectories)
        /\ \A p \in ItemPaths(newDirectories) : Item(dirs, p).stats = Item(newDirectories, p).stats
    BY <1>1, <2>2, RevisedFacts
  <2> HIDE DEF dirs
  <2>5. directories' = dirs
    BY <2>3 DEF dirs
  <2> QED
    BY <1>1, <2>1, <2>4, <2>5
<1> QED
  BY <1>2, <1>3 DEF Finished

\* The end of a scan keeps types, stack and revision.
LEMMA FinishOrder ==
    ASSUME OrderInv, Finish
    PROVE  OrderInv' /\ (RevisionInv => RevisionInv')
<1>1. Finished
  BY FinishSteps
<1>2. TypeInv /\ StackInv /\ FramesOK /\ CountsOK /\ ItemsOK /\ OthersOK
  BY TypeParts DEF OrderInv
<1>3. FramesOK' /\ StackInv'
  BY <1>1, <1>2, StackIsKept DEF FramesOK, Finished
<1>4. revision \in 1..MaxScans + 1 /\ revision + 1 \in 1..MaxScans + 1
      /\ revision' \in {revision, revision + 1} /\ revision + 1 <= counts.scans + 1
  BY <1>1, <1>2, NewRevision, FinishFacts DEF Finished
<1>5. CountsOK'
  BY <1>1, <1>2, <1>4, ScannerAssumption DEF CountsOK, Finished
<1>6. IsSnapshot(<<>>)
  BY EmptySeq DEF IsSnapshot
<1>7. ItemsOK'
  BY <1>1, <1>6, FinishFacts DEF ItemsOK, Finished
<1>8. OthersOK'
  <2>1. Absent \in Nodes /\ ScanOptions \in Options
    BY DEF Absent, Nodes, ScanOptions, Options
  <2> QED
    BY <1>1, <1>2, <2>1 DEF OthersOK, Finished
<1>9. RevisionInv'
  BY <1>4, ScannerAssumption DEF RevisionInv
<1> QED
  BY <1>3, <1>5, <1>7, <1>8, <1>9, TypeParts DEF OrderInv
-----------------------------------------------------------------------------
(***************************************************************************)
(* Edits of the items.                                                     *)
(***************************************************************************)
\* An item is replaced.
Put(dirs, p, item) == [dirs EXCEPT ![Parent(p)][p] = item]

\* The rest of the snapshot stays.
LEMMA PatchedSnapshot ==
    ASSUME NEW dirs, IsSnapshot(dirs), NEW p \in ItemPaths(dirs), NEW item \in Items, NEW new,
           new = Put(dirs, p, item)
    PROVE  /\ IsSnapshot(new) /\ DOMAIN new = DOMAIN dirs
           /\ ItemPaths(new) = ItemPaths(dirs)
           /\ Item(new, p) = item
           /\ \A q \in ItemPaths(dirs) : q # p => Item(new, q) = Item(dirs, q)
<1>1. Parent(p) \in DOMAIN dirs /\ p \in DOMAIN dirs[Parent(p)]
  BY SnapshotFacts
<1>2. DOMAIN new = DOMAIN dirs /\ \A d \in DOMAIN dirs : DOMAIN new[d] = DOMAIN dirs[d]
  BY <1>1 DEF Put
<1>3. /\ new[Parent(p)][p] = item
      /\ \A d \in DOMAIN dirs : \A q \in DOMAIN dirs[d] : d # Parent(p) \/ q # p => new[d][q] = dirs[d][q]
  BY <1>1 DEF Put
<1>4. ItemPaths(new) = ItemPaths(dirs)
  BY <1>2 DEF ItemPaths
<1>5. IsSnapshot(new)
  BY <1>2, <1>3 DEF IsSnapshot
<1>6. Item(new, p) = item /\ \A q \in ItemPaths(dirs) : q # p => Item(new, q) = Item(dirs, q)
  BY <1>1, <1>3 DEF Item, ItemPaths
<1> QED
  BY <1>2, <1>4, <1>5, <1>6

\* An item is taken out.
LEMMA PrunedSnapshot ==
    ASSUME NEW dirs, IsSnapshot(dirs), NEW p \in ItemPaths(dirs)
    PROVE  LET new == [dirs EXCEPT ![Parent(p)] = [q \in DOMAIN @ \ {p} |-> @[q]]]
           IN  /\ IsSnapshot(new) /\ DOMAIN new = DOMAIN dirs
               /\ ItemPaths(new) = ItemPaths(dirs) \ {p}
               /\ \A q \in ItemPaths(dirs) : q # p => Item(new, q) = Item(dirs, q)
<1> DEFINE new == [dirs EXCEPT ![Parent(p)] = [q \in DOMAIN @ \ {p} |-> @[q]]]
<1>1. Parent(p) \in DOMAIN dirs /\ p \in DOMAIN dirs[Parent(p)]
  BY SnapshotFacts
<1>2. /\ DOMAIN new = DOMAIN dirs
      /\ \A d \in DOMAIN dirs : d # Parent(p) => new[d] = dirs[d]
      /\ new[Parent(p)] = [q \in DOMAIN dirs[Parent(p)] \ {p} |-> dirs[Parent(p)][q]]
  BY <1>1
<1> HIDE DEF new
<1>3. /\ DOMAIN new[Parent(p)] = DOMAIN dirs[Parent(p)] \ {p}
      /\ \A q \in DOMAIN dirs[Parent(p)] : q # p => new[Parent(p)][q] = dirs[Parent(p)][q]
  BY <1>2
<1>4. \A q \in Paths : q # <<>> /\ Parent(q) # Parent(p) => q # p
  OBVIOUS
<1>5. ItemPaths(new) = ItemPaths(dirs) \ {p}
  BY <1>2, <1>3 DEF ItemPaths
<1>6. IsSnapshot(new)
  <2>1. ASSUME NEW d \in DOMAIN new, d # Parent(p)
        PROVE  DOMAIN new[d] \subseteq Children(d) /\ \A q \in DOMAIN new[d] : new[d][q] \in Items
    BY <1>2, <2>1 DEF IsSnapshot
  <2>2. /\ DOMAIN new[Parent(p)] \subseteq Children(Parent(p))
        /\ \A q \in DOMAIN new[Parent(p)] : new[Parent(p)][q] \in Items
    BY <1>1, <1>3 DEF IsSnapshot
  <2>3. DOMAIN new \subseteq Paths
    BY <1>2 DEF IsSnapshot
  <2> QED
    BY <2>1, <2>2, <2>3 DEF IsSnapshot
<1>7. \A q \in ItemPaths(dirs) : q # p => Item(new, q) = Item(dirs, q)
  BY <1>2, <1>3 DEF Item, ItemPaths
<1> QED
  BY <1>2, <1>5, <1>6, <1>7 DEF new

\* What the edits leave alone.
EditKeeps ==
    /\ at = "idle" /\ at' = "idle" /\ frames' = frames
    /\ UNCHANGED <<disk, revision, root, localVars, errorPaths>>
    /\ counts' \in [scans : Nat, changes : Nat, faults : Nat] /\ counts'.scans = counts.scans

\* An edit of the snapshot changes no part of a walk.
LEMMA EditSteps ==
    ASSUME OrderInv, Edit
    PROVE  EditKeeps /\ report' = NoReport /\ touched' = TRUE /\ drift' = TRUE
<1>1. CountsOK
  BY TypeParts DEF OrderInv
<1>2. counts' \in [scans : Nat, changes : Nat, faults : Nat] /\ counts'.scans = counts.scans
  BY <1>1, CountsOfOthers DEF Edit
<1> QED
  BY <1>2 DEF Edit, EditKeeps

\* An edit of the snapshot keeps types and stack.
LEMMA EditOrder ==
    ASSUME OrderInv, EditKeeps, IsSnapshot(directories'), excluded' \subseteq Excludable,
           hiding' \in Settings,
           patched' \subseteq Paths, touched' \in BOOLEAN, drift' \in BOOLEAN
    PROVE  OrderInv'
<1>1. TypeInv /\ StackInv /\ FramesOK /\ CountsOK /\ ItemsOK /\ OthersOK
  BY TypeParts DEF OrderInv
<1>2. FramesOK' /\ StackInv'
  BY <1>1, StackIsKept DEF FramesOK, EditKeeps
<1>3. CountsOK'
  BY <1>1 DEF CountsOK, EditKeeps
<1>4. ItemsOK'
  BY <1>1 DEF ItemsOK, EditKeeps, localVars
<1>5. OthersOK'
  <2>1. excluded' \subseteq Paths
    BY ScannerAssumption
  <2> QED
    BY <1>1, <2>1 DEF OthersOK, EditKeeps, localVars
<1> QED
  BY <1>2, <1>3, <1>4, <1>5, TypeParts DEF OrderInv

\* The three edits of an item.
LEMMA UpdateFacts ==
    ASSUME OrderInv, RevisionInv, NEW p, UpdateItem(p)
    PROVE  /\ EditKeeps /\ report' = NoReport /\ touched' = TRUE /\ drift' = TRUE
           /\ IsSnapshot(directories') /\ DOMAIN directories' = DOMAIN directories
           /\ ItemPaths(directories') = ItemPaths(directories) /\ p \in ItemPaths(directories)
           /\ \A q \in ItemPaths(directories) : q # p => Item(directories', q) = Item(directories, q)
           /\ patched' = patched \cup {p} /\ excluded' = excluded /\ hiding' = hiding
<1>1. OrderInv /\ p \in ItemPaths(directories) /\ IsSnapshot(directories) /\ p \in Paths
  <2>1. p \in ItemPaths(directories)
    BY DEF UpdateItem
  <2>2. IsSnapshot(directories)
    BY TypeParts DEF OrderInv, ItemsOK
  <2> QED
    BY <2>1, <2>2, SnapshotFacts
<1>2. NewItem(disk[p], revision) \in Items
  <2>1. disk[p] \in Nodes /\ revision \in 0..MaxScans + 1
    BY <1>1, TypeParts DEF OrderInv, OthersOK, CountsOK
  <2>2. revision # 0
    BY <1>1, SnapshotFacts DEF RevisionInv
  <2>3. revision \in 1..MaxScans + 1
    BY <2>1, <2>2, ScannerAssumption
  <2> QED
    BY <2>1, <2>3 DEF NewItem, Items
<1>3. directories' = [directories EXCEPT ![Parent(p)][p] = NewItem(disk[p], revision)]
  BY DEF UpdateItem
<1>4. EditKeeps /\ report' = NoReport /\ touched' = TRUE /\ drift' = TRUE
  BY EditSteps DEF UpdateItem
<1>5. patched' = patched \cup {p} /\ excluded' = excluded /\ hiding' = hiding
  BY DEF UpdateItem
<1> DEFINE item == NewItem(disk[p], revision)
<1> HIDE DEF item
<1>6. item \in Items /\ directories' = Put(directories, p, item)
  BY <1>2, <1>3 DEF item, Put
<1>7. /\ IsSnapshot(directories') /\ DOMAIN directories' = DOMAIN directories
      /\ ItemPaths(directories') = ItemPaths(directories)
      /\ \A q \in ItemPaths(directories) : q # p => Item(directories', q) = Item(directories, q)
  BY <1>1, <1>6, PatchedSnapshot
<1> QED
  BY <1>1, <1>4, <1>5, <1>7

\* Removing an item takes its path from the snapshot and leaves the others as they are.
LEMMA RemoveFacts ==
    ASSUME OrderInv, NEW p, RemoveItem(p)
    PROVE  /\ EditKeeps /\ report' = NoReport /\ touched' = TRUE /\ drift' = TRUE
           /\ IsSnapshot(directories') /\ DOMAIN directories' = DOMAIN directories
           /\ ItemPaths(directories') = ItemPaths(directories) \ {p}
           /\ \A q \in ItemPaths(directories) : q # p => Item(directories', q) = Item(directories, q)
           /\ patched' = patched /\ excluded' = excluded /\ hiding' = hiding
<1>1. p \in ItemPaths(directories) /\ IsSnapshot(directories)
  BY TypeParts DEF RemoveItem, OrderInv, ItemsOK
<1>2. directories' = [directories EXCEPT ![Parent(p)] = [q \in DOMAIN @ \ {p} |-> @[q]]]
  BY DEF RemoveItem
<1>3. EditKeeps /\ report' = NoReport /\ touched' = TRUE /\ drift' = TRUE
  BY EditSteps DEF RemoveItem
<1>4. patched' = patched /\ excluded' = excluded /\ hiding' = hiding
  BY DEF RemoveItem
<1> QED
  BY <1>1, <1>2, <1>3, <1>4, PrunedSnapshot

\* Setting the user's information changes nothing a scan compares.
LEMMA InfoFacts ==
    ASSUME OrderInv, NEW p, SetUserInfo(p)
    PROVE  /\ EditKeeps /\ report' = report /\ touched' = touched /\ drift' = drift
           /\ IsSnapshot(directories') /\ DOMAIN directories' = DOMAIN directories
           /\ ItemPaths(directories') = ItemPaths(directories)
           /\ \A q \in ItemPaths(directories) : Item(directories', q).stats = Item(directories, q).stats
           /\ patched' = patched /\ excluded' = excluded /\ hiding' = hiding
<1>1. p \in ItemPaths(directories) /\ IsSnapshot(directories)
  BY TypeParts DEF SetUserInfo, OrderInv, ItemsOK
<1> DEFINE item == [Item(directories, p) EXCEPT !.userInfo = "info"]
<1>2. item \in Items /\ item.stats = Item(directories, p).stats
  <2>1. Item(directories, p) \in Items
    BY <1>1, SnapshotFacts
  <2> QED
    BY <2>1 DEF Items
<1>3. directories' = Put(directories, p, item)
  <2>1. Parent(p) \in DOMAIN directories /\ p \in DOMAIN directories[Parent(p)]
    BY <1>1, SnapshotFacts
  <2>2. directories' = [directories EXCEPT ![Parent(p)][p].userInfo = "info"]
    BY DEF SetUserInfo
  <2> QED
    BY <2>1, <2>2 DEF Item, Put
<1>4. CountsOK
  BY TypeParts DEF OrderInv
<1>5. counts' \in [scans : Nat, changes : Nat, faults : Nat] /\ counts'.scans = counts.scans
  BY <1>4, CountsOfOthers DEF SetUserInfo
<1>6. EditKeeps /\ report' = report /\ touched' = touched /\ drift' = drift
  BY <1>5 DEF SetUserInfo, EditKeeps
<1>7. patched' = patched /\ excluded' = excluded /\ hiding' = hiding
  BY DEF SetUserInfo
<1> HIDE DEF item
<1>8. /\ IsSnapshot(directories') /\ DOMAIN directories' = DOMAIN directories
      /\ ItemPaths(directories') = ItemPaths(directories)
      /\ Item(directories', p) = item
      /\ \A q \in ItemPaths(directories) : q # p => Item(directories', q) = Item(directories, q)
  BY <1>1, <1>2, <1>3, PatchedSnapshot
<1>9. \A q \in ItemPaths(directories) : Item(directories', q).stats = Item(directories, q).stats
  BY <1>2, <1>8
<1> QED
  BY <1>6, <1>7, <1>8, <1>9

\* A new exclusion predicate leaves the items as they are.
LEMMA PredicateFacts ==
    ASSUME OrderInv, NEW set \in SUBSET Excludable, SetExclusionPredicate(set)
    PROVE  /\ EditKeeps /\ report' = NoReport /\ touched' = TRUE /\ drift' = TRUE
           /\ directories' = directories /\ IsSnapshot(directories)
           /\ patched' = patched /\ excluded' \subseteq Excludable /\ hiding' = hiding
<1>1. IsSnapshot(directories)
  BY TypeParts DEF OrderInv, ItemsOK
<1>2. EditKeeps /\ report' = NoReport /\ touched' = TRUE /\ drift' = TRUE
  BY EditSteps DEF SetExclusionPredicate
<1> QED
  BY <1>1, <1>2 DEF SetExclusionPredicate

\* So does a new setting for hidden items.
LEMMA HidingFacts ==
    ASSUME OrderInv, NEW setting \in {"hidden", "dsStore", "report"}, SetHiding(setting)
    PROVE  /\ EditKeeps /\ report' = NoReport /\ touched' = TRUE /\ drift' = TRUE
           /\ directories' = directories /\ IsSnapshot(directories)
           /\ patched' = patched /\ excluded' = excluded /\ hiding' \in Settings
<1>1. IsSnapshot(directories) /\ hiding \in Settings
  BY TypeParts DEF OrderInv, ItemsOK, OthersOK
<1>2. EditKeeps /\ report' = NoReport /\ touched' = TRUE /\ drift' = TRUE
  BY EditSteps DEF SetHiding
<1>3. hiding' \in Settings
  BY <1>1 DEF SetHiding, Settings
<1> QED
  BY <1>1, <1>2, <1>3 DEF SetHiding

\* Every edit of the snapshot keeps types, stack and revision.
LEMMA EditsOrder == OrderInv /\ RevisionInv /\ Edits => OrderInv' /\ RevisionInv'
<1> SUFFICES ASSUME OrderInv, RevisionInv, Edits PROVE OrderInv' /\ RevisionInv'
  OBVIOUS
<1>1. /\ patched \subseteq Paths /\ excluded \subseteq Excludable
      /\ hiding \in Settings /\ touched \in BOOLEAN /\ drift \in BOOLEAN
  BY TypeParts DEF OrderInv, OthersOK
<1>2. ASSUME NEW p \in Paths, UpdateItem(p) PROVE OrderInv' /\ RevisionInv'
  <2>1. /\ EditKeeps /\ IsSnapshot(directories') /\ DOMAIN directories' = DOMAIN directories
        /\ patched' \subseteq Paths /\ excluded' \subseteq Excludable /\ hiding' \in Settings
        /\ touched' = TRUE /\ drift' = TRUE
    BY <1>1, <1>2, UpdateFacts
  <2> QED
    BY <2>1, EditOrder DEF RevisionInv, EditKeeps
<1>3. ASSUME NEW p \in Paths, RemoveItem(p) PROVE OrderInv' /\ RevisionInv'
  <2>1. /\ EditKeeps /\ IsSnapshot(directories') /\ DOMAIN directories' = DOMAIN directories
        /\ patched' \subseteq Paths /\ excluded' \subseteq Excludable /\ hiding' \in Settings
        /\ touched' = TRUE /\ drift' = TRUE
    BY <1>1, <1>3, RemoveFacts
  <2> QED
    BY <2>1, EditOrder DEF RevisionInv, EditKeeps
<1>4. ASSUME NEW p \in Paths, SetUserInfo(p) PROVE OrderInv' /\ RevisionInv'
  <2>1. /\ EditKeeps /\ IsSnapshot(directories') /\ DOMAIN directories' = DOMAIN directories
        /\ patched' \subseteq Paths /\ excluded' \subseteq Excludable /\ hiding' \in Settings
    BY <1>1, <1>4, InfoFacts
  <2>2. touched' \in BOOLEAN /\ drift' \in BOOLEAN
    BY <1>1, <1>4, InfoFacts
  <2> QED
    BY <2>1, <2>2, EditOrder DEF RevisionInv, EditKeeps
<1>5. ASSUME NEW set \in SUBSET Excludable, SetExclusionPredicate(set) PROVE OrderInv' /\ RevisionInv'
  <2>1. /\ EditKeeps /\ IsSnapshot(directories') /\ directories' = directories
        /\ patched' \subseteq Paths /\ excluded' \subseteq Excludable /\ hiding' \in Settings
        /\ touched' = TRUE /\ drift' = TRUE
    BY <1>1, <1>5, PredicateFacts
  <2> QED
    BY <2>1, EditOrder DEF RevisionInv, EditKeeps
<1>6. ASSUME NEW setting \in {"hidden", "dsStore", "report"}, SetHiding(setting)
      PROVE  OrderInv' /\ RevisionInv'
  <2>1. /\ EditKeeps /\ IsSnapshot(directories') /\ directories' = directories
        /\ patched' \subseteq Paths /\ excluded' \subseteq Excludable /\ hiding' \in Settings
        /\ touched' = TRUE /\ drift' = TRUE
    BY <1>1, <1>6, HidingFacts
  <2> QED
    BY <2>1, EditOrder DEF RevisionInv, EditKeeps
<1> QED
  BY <1>2, <1>3, <1>4, <1>5, <1>6 DEF Edits
-----------------------------------------------------------------------------
(***************************************************************************)
(* Other programs: the disk stays a tree.                                  *)
(***************************************************************************)
TreeInv == IsTree(disk)

\* Where a renamed item comes from.
LEMMA RenamedPath ==
    ASSUME NEW p \in Paths, NEW to \in Paths, NEW q \in Paths, NEW r \in Paths,
           IsPrefix(to, q), IsPrefix(q, r), q # r,
           p \o SubSeq(r, Len(to) + 1, Len(r)) \in Paths
    PROVE  LET below(x) == p \o SubSeq(x, Len(to) + 1, Len(x))
           IN  below(q) \in Paths /\ IsPrefix(below(q), below(r)) /\ below(q) # below(r)
<1> DEFINE t == Len(to)
           below(x) == p \o SubSeq(x, t + 1, Len(x))
<1>1. /\ p \in Seq(Names) /\ q \in Seq(Names) /\ r \in Seq(Names) /\ below(r) \in Paths
      /\ t \in Nat /\ Len(q) \in Nat /\ Len(r) \in Nat /\ Len(p) \in Nat
      /\ t <= Len(q) /\ Len(q) < Len(r) /\ \A i \in 1..Len(q) : q[i] = r[i]
  BY PathsAreClosed, PrefixByNames, SamePath
<1> HIDE DEF t
<1>2. ASSUME NEW x \in Seq(Names), t <= Len(x)
      PROVE  /\ below(x) \in Seq(Names) /\ Len(below(x)) = Len(p) + (Len(x) - t)
             /\ \A i \in 1..Len(p) + (Len(x) - t) :
                  below(x)[i] = IF i <= Len(p) THEN p[i] ELSE x[i - Len(p) + t]
  <2> DEFINE s == SubSeq(x, t + 1, Len(x))
  <2>1. Len(x) \in Nat /\ \A i \in t + 1..Len(x) : x[i] \in Names
    BY <1>1, ElementOfSeq
  <2>2. /\ Len(s) = IF t + 1 <= Len(x) THEN Len(x) - (t + 1) + 1 ELSE 0
        /\ \A i \in 1..Len(x) - (t + 1) + 1 : s[i] = x[t + 1 + i - 1]
        /\ s \in Seq(Names)
    BY <1>1, <2>1, SubSeqProperties
  <2> HIDE DEF s
  <2> DEFINE m == Len(x) - t
  <2>3. m \in Nat /\ Len(s) = m /\ \A i \in 1..m : s[i] = x[i + t]
    <3>1. m \in Nat /\ Len(s) = m
      BY <1>1, <1>2, <2>1, <2>2
    <3>2. ASSUME NEW i \in 1..m PROVE s[i] = x[i + t]
      <4>1. i \in 1..Len(x) - (t + 1) + 1 /\ t + 1 + i - 1 = i + t
        BY <1>1, <2>1
      <4>2. s[i] = x[t + 1 + i - 1]
        BY <2>2, <4>1
      <4> QED
        BY <4>1, <4>2
    <3> QED
      BY <3>1, <3>2
  <2>4. /\ p \o s \in Seq(Names) /\ Len(p \o s) = Len(p) + Len(s)
        /\ \A i \in 1..Len(p) + Len(s) : (p \o s)[i] = IF i <= Len(p) THEN p[i] ELSE s[i - Len(p)]
    BY <1>1, <2>2, ConcatProperties
  <2> DEFINE b == p \o s
  <2>5. b = below(x)
    BY DEF s
  <2>6. /\ b \in Seq(Names) /\ Len(b) = Len(p) + m
        /\ \A i \in 1..Len(p) + m : b[i] = IF i <= Len(p) THEN p[i] ELSE s[i - Len(p)]
    BY <2>3, <2>4
  <2> HIDE DEF b, m
  <2>7. ASSUME NEW i \in 1..Len(p) + m, ~(i <= Len(p)) PROVE s[i - Len(p)] = x[i - Len(p) + t]
    <3>1. i - Len(p) \in 1..m
      <4>1. Len(p) \in Nat /\ m \in Nat /\ i \in 1..Len(p) + m /\ ~(i <= Len(p))
        BY <1>1, <2>3, <2>7
      <4> QED
        BY ONLY <4>1
    <3> QED
      BY <2>3, <3>1
  <2>8. /\ b \in Seq(Names) /\ Len(b) = Len(p) + m
        /\ \A i \in 1..Len(p) + m : b[i] = IF i <= Len(p) THEN p[i] ELSE x[i - Len(p) + t]
    BY <2>6, <2>7
  <2> QED
    BY <2>5, <2>8 DEF m
<1>3. /\ below(q) \in Seq(Names) /\ Len(below(q)) = Len(p) + (Len(q) - t)
      /\ \A i \in 1..Len(p) + (Len(q) - t) :
           below(q)[i] = IF i <= Len(p) THEN p[i] ELSE q[i - Len(p) + t]
  BY <1>1, <1>2
<1>4. /\ below(r) \in Seq(Names) /\ Len(below(r)) = Len(p) + (Len(r) - t)
      /\ \A i \in 1..Len(p) + (Len(r) - t) :
           below(r)[i] = IF i <= Len(p) THEN p[i] ELSE r[i - Len(p) + t]
  BY <1>1, <1>2
<1> DEFINE bq == below(q)
           br == below(r)
           n == Len(p) + (Len(q) - t)
           start == SubSeq(br, 1, n)
<1>5. n \in 0..Len(br) /\ n \in Nat /\ n < Len(br)
  BY <1>1, <1>4
<1>6. /\ bq \in Seq(Names) /\ Len(bq) = n /\ br \in Paths
      /\ \A i \in 1..n : bq[i] = br[i]
  <2>1. \A i \in 1..n : i \in 1..Len(p) + (Len(r) - t) /\ (i > Len(p) => i - Len(p) + t \in 1..Len(q))
    BY <1>1
  <2> QED
    BY <1>1, <1>3, <1>4, <2>1
<1> HIDE DEF bq, br, n
<1>7. start \in Paths /\ Len(start) = n /\ \A i \in 1..n : start[i] = br[i]
  BY <1>5, <1>6, FirstNames
<1> HIDE DEF start
<1>8. bq = start
  BY <1>6, <1>7, PathsAreClosed, SeqEqual
<1>9. bq \in Paths /\ IsPrefix(bq, br) /\ bq # br
  <2>1. bq \in Paths /\ Len(bq) = n /\ Len(bq) <= Len(br) /\ Len(bq) # Len(br)
    BY <1>5, <1>6, <1>7, <1>8
  <2>2. \A i \in 1..Len(bq) : bq[i] = br[i]
    BY <1>6
  <2> QED
    BY <1>6, <2>1, <2>2, PrefixByNames
<1> QED
  BY <1>9 DEF bq, br, t

\* What is above something is a directory.
LEMMA TreeFacts ==
    ASSUME TreeInv, NEW q \in Paths, NEW p \in Paths, IsPrefix(q, p)
    PROVE  /\ disk[<<>>].kind = "dir"
           /\ q # p /\ disk[p].kind # "absent" => disk[q].kind = "dir"
           /\ disk[q].kind = "absent" => disk[p].kind = "absent"
BY DEF TreeInv, IsTree, IsStrictPrefix

\* A changed file or directory leaves the disk a tree.
LEMMA ChangeItemTree ==
    ASSUME OrderInv, TreeInv, NEW p \in Paths, ChangeItem(p)
    PROVE  disk' \in [Paths -> Nodes] /\ TreeInv'
<1>1. disk \in [Paths -> Nodes]
  BY TypeParts DEF OrderInv, OthersOK
<1>2. CASE disk' = [disk EXCEPT ![p].mod = 1 - @]
  <2>1. disk' \in [Paths -> Nodes] /\ \A q \in Paths : disk'[q].kind = disk[q].kind
    BY <1>1, <1>2 DEF Nodes
  <2> QED
    BY <2>1, ScannerAssumption DEF TreeInv, IsTree
<1>3. CASE disk' = [disk EXCEPT ![p].meta = 1 - @]
  <2>1. disk' \in [Paths -> Nodes] /\ \A q \in Paths : disk'[q].kind = disk[q].kind
    BY <1>1, <1>3 DEF Nodes
  <2> QED
    BY <2>1, ScannerAssumption DEF TreeInv, IsTree
<1> QED
  BY <1>2, <1>3 DEF ChangeItem

\* Creating, deleting or replacing leaves the disk a tree.
LEMMA ReplaceItemTree ==
    ASSUME OrderInv, TreeInv, NEW p \in Paths, NEW kind \in {"absent", "file", "dir", "special"},
           ReplaceItem(p, kind)
    PROVE  disk' \in [Paths -> Nodes] /\ TreeInv'
<1> DEFINE new == [kind |-> kind, node |-> Cardinality(Paths) + counts.changes, mod |-> 0, meta |-> 0]
<1>1. disk \in [Paths -> Nodes] /\ counts.changes \in Nat
  BY TypeParts DEF OrderInv, OthersOK, CountsOK
<1>2. Cardinality(Paths) \in Nat
  BY FS_CardinalityType, ScannerAssumption
<1>3. new \in Nodes /\ new.kind = kind /\ Absent \in Nodes /\ Absent.kind = "absent"
  BY <1>1, <1>2 DEF Nodes, Absent
<1> HIDE DEF new
<1>4. /\ p # <<>> /\ disk[Parent(p)].kind = "dir"
      /\ disk' = [q \in Paths |-> IF q = p /\ kind # "absent" THEN new
                                  ELSE IF IsPrefix(p, q) THEN Absent ELSE disk[q]]
  BY DEF ReplaceItem, new
<1>5. disk' \in [Paths -> Nodes]
  BY <1>1, <1>3, <1>4
<1>6. disk'[<<>>].kind = "dir"
  <2>1. <<>> \in Paths /\ ~IsPrefix(p, <<>>)
    BY <1>4, PathFacts, ScannerAssumption
  <2> QED
    BY <1>4, <2>1 DEF TreeInv, IsTree
<1>7. ASSUME NEW r \in Paths, NEW q \in Paths, IsPrefix(q, r), q # r, disk'[r].kind # "absent"
      PROVE  disk'[q].kind = "dir"
  <2>1. CASE r = p
    <3>1. IsPrefix(q, Parent(p)) /\ Parent(p) \in Paths /\ ~IsPrefix(p, q)
      BY <1>4, <1>7, <2>1, PathFacts
    <3>2. disk[q].kind = "dir"
      BY <1>4, <3>1, TreeFacts
    <3> QED
      BY <1>4, <1>7, <2>1, <3>1, <3>2
  <2>2. CASE r # p
    <3>1. ~IsPrefix(p, r) /\ disk'[r] = disk[r]
      BY <1>3, <1>4, <1>7, <2>2
    <3>2. ~IsPrefix(p, q) /\ q # p
      BY <1>7, <3>1, PathFacts
    <3> QED
      BY <1>4, <1>7, <3>1, <3>2, TreeFacts
  <2> QED
    BY <2>1, <2>2
<1> QED
  BY <1>5, <1>6, <1>7 DEF TreeInv, IsTree, IsStrictPrefix

\* A rename leaves the disk a tree.
LEMMA RenameTree ==
    ASSUME OrderInv, TreeInv, NEW p \in Paths, NEW to \in Paths, Rename(p, to)
    PROVE  disk' \in [Paths -> Nodes] /\ TreeInv'
<1> DEFINE below(q) == p \o SubSeq(q, Len(to) + 1, Len(q))
<1>1. disk \in [Paths -> Nodes] /\ Absent \in Nodes /\ Absent.kind = "absent"
  <2>1. disk \in [Paths -> Nodes]
    BY TypeParts DEF OrderInv, OthersOK
  <2> QED
    BY <2>1 DEF Nodes, Absent
<1>2. /\ p # <<>> /\ disk[p].kind # "absent"
      /\ ~IsPrefix(p, to) /\ disk[to].kind = "absent" /\ disk[Parent(to)].kind = "dir"
      /\ disk' = [q \in Paths |->
                     IF IsPrefix(to, q) /\ below(q) \in Paths THEN disk[below(q)]
                     ELSE IF IsPrefix(p, q) THEN Absent ELSE disk[q]]
  BY DEF Rename
<1>3. ASSUME NEW q \in Paths, NEW r \in Paths, IsPrefix(to, q), IsPrefix(q, r), q # r, below(r) \in Paths
      PROVE  below(q) \in Paths /\ IsPrefix(below(q), below(r)) /\ below(q) # below(r)
  BY <1>3, RenamedPath
<1> HIDE DEF below
<1>4. disk' \in [Paths -> Nodes]
  BY <1>1, <1>2
<1>5. to # <<>> /\ <<>> \in Paths
  BY <1>2, ScannerAssumption DEF TreeInv, IsTree
<1>6. disk'[<<>>].kind = "dir"
  <2>1. ~IsPrefix(p, <<>>) /\ ~IsPrefix(to, <<>>)
    BY <1>2, <1>5, PathFacts
  <2> QED
    BY <1>2, <1>5, <2>1 DEF TreeInv, IsTree
<1>7. ASSUME NEW r \in Paths, NEW q \in Paths, IsPrefix(q, r), q # r, disk'[r].kind # "absent"
      PROVE  disk'[q].kind = "dir"
  <2>1. CASE IsPrefix(to, q)
    <3>1. IsPrefix(to, r)
      BY <1>7, <2>1, PathFacts
    <3>2. disk[r].kind = "absent"
      BY <1>2, <3>1, TreeFacts
    <3>3. below(r) \in Paths /\ disk'[r] = disk[below(r)]
      BY <1>1, <1>2, <1>7, <3>1, <3>2
    <3>4. below(q) \in Paths /\ IsPrefix(below(q), below(r)) /\ below(q) # below(r)
      BY <1>3, <1>7, <2>1, <3>3
    <3>5. disk'[q] = disk[below(q)]
      BY <1>2, <2>1, <3>4
    <3> QED
      BY <1>7, <3>3, <3>4, <3>5, TreeFacts
  <2>2. CASE ~IsPrefix(to, q) /\ IsPrefix(to, r)
    <3>1. IsPrefix(q, to) /\ q # to
      BY <1>7, <2>2, PathFacts
    <3>2. IsPrefix(q, Parent(to)) /\ Parent(to) \in Paths
      BY <1>5, <3>1, PathFacts
    <3>3. disk[q].kind = "dir"
      BY <1>2, <3>2, TreeFacts
    <3>4. ~IsPrefix(p, q)
      BY <1>2, <3>1, PathFacts
    <3> QED
      BY <1>2, <2>2, <3>3, <3>4
  <2>3. CASE ~IsPrefix(to, q) /\ ~IsPrefix(to, r)
    <3>1. ~IsPrefix(p, r) /\ disk'[r] = disk[r]
      BY <1>1, <1>2, <1>7, <2>3
    <3>2. ~IsPrefix(p, q) /\ disk'[q] = disk[q]
      BY <1>2, <1>7, <2>3, <3>1, PathFacts
    <3> QED
      BY <1>7, <3>1, <3>2, TreeFacts
  <2> QED
    BY <2>1, <2>2, <2>3
<1> QED
  BY <1>4, <1>6, <1>7 DEF TreeInv, IsTree, IsStrictPrefix

\* A change disturbs nothing but the disk, the report and the histories.
ChangeKeeps ==
    /\ at # "finish" /\ report' = NoReport /\ touched' = TRUE /\ drift' = TRUE
    /\ UNCHANGED <<itemVars, at, localVars, frames, errorPaths>>

\* What happens on the disk keeps types, stack, tree and revision.
LEMMA EnvironmentOrder ==
    OrderInv /\ TreeInv /\ RevisionInv /\ Environment =>
        OrderInv' /\ TreeInv' /\ RevisionInv' /\ ChangeKeeps
<1> SUFFICES ASSUME OrderInv, TreeInv, RevisionInv, Environment
             PROVE  OrderInv' /\ TreeInv' /\ RevisionInv' /\ ChangeKeeps
  OBVIOUS
<1>1. Change /\ disk' \in [Paths -> Nodes] /\ TreeInv'
  <2>1. ASSUME NEW p \in Paths, ChangeItem(p) PROVE Change /\ disk' \in [Paths -> Nodes] /\ TreeInv'
    BY <2>1, ChangeItemTree DEF ChangeItem
  <2>2. ASSUME NEW p \in Paths, NEW kind \in {"absent", "file", "dir", "special"}, ReplaceItem(p, kind)
        PROVE  Change /\ disk' \in [Paths -> Nodes] /\ TreeInv'
    BY <2>2, ReplaceItemTree DEF ReplaceItem
  <2>3. ASSUME NEW p \in Paths, NEW to \in Paths, Rename(p, to)
        PROVE  Change /\ disk' \in [Paths -> Nodes] /\ TreeInv'
    BY <2>3, RenameTree, Zenon DEF Rename
  <2> QED
    BY <2>1, <2>2, <2>3 DEF Environment
<1>2. ChangeKeeps
  BY <1>1 DEF Change, ChangeKeeps
<1>3. TypeInv /\ StackInv /\ FramesOK /\ CountsOK /\ ItemsOK /\ OthersOK
  BY TypeParts DEF OrderInv
<1>4. FramesOK' /\ StackInv'
  BY <1>2, <1>3, FramesAreKept, StackIsKept DEF ChangeKeeps
<1>5. CountsOK'
  <2>1. counts' \in [scans : Nat, changes : Nat, faults : Nat] /\ counts'.scans = counts.scans
    BY <1>1, <1>3, CountsOfOthers DEF Change
  <2> QED
    BY <1>2, <1>3, <2>1 DEF CountsOK, ChangeKeeps, itemVars
<1>6. ItemsOK' /\ OthersOK' /\ RevisionInv'
  BY <1>1, <1>2, <1>3 DEF ItemsOK, OthersOK, RevisionInv, ChangeKeeps, itemVars, localVars
<1> QED
  BY <1>1, <1>2, <1>4, <1>5, <1>6, TypeParts DEF OrderInv
-----------------------------------------------------------------------------
(***************************************************************************)
(* The first invariant, of every step.                                     *)
(***************************************************************************)
BaseInv == OrderInv /\ TreeInv /\ RevisionInv

\* The base of the invariants holds initially.
LEMMA BaseInit == Init => BaseInv
<1> SUFFICES ASSUME Init PROVE BaseInv
  OBVIOUS
<1>1. OrderInv
  BY OrderInit
<1>2. TreeInv
  BY ScannerAssumption DEF Init, TreeInv
<1>3. RevisionInv
  BY EmptySeq DEF Init, RevisionInv
<1> QED
  BY <1>1, <1>2, <1>3 DEF BaseInv

\* The disk is left alone by the scanner itself.
LEMMA ScanKeepsDisk == Scan \/ Edits => UNCHANGED disk
<1>1. ASSUME Edits PROVE disk' = disk
  BY <1>1 DEF Edits, UpdateItem, RemoveItem, SetUserInfo, SetExclusionPredicate, SetHiding, Edit
<1>2. ASSUME Scan PROVE disk' = disk
  <2>1. Finish => disk' = disk
    BY Zenon DEF Finish
  <2>2. StartScan(ScanOptions) => disk' = disk
    BY DEF StartScan
  <2> QED
    BY <1>2, <2>1 DEF Scan, ScanRefused, StartFails, StartScan, VisitEntry, Abort, EndDirectory, ReaddirFails
<1> QED
  BY <1>1, <1>2

\* Every step keeps the base of the invariants.
LEMMA BaseNext == BaseInv /\ [Next]_vars => BaseInv'
<1> SUFFICES ASSUME BaseInv, [Next]_vars PROVE BaseInv'
  OBVIOUS
<1>1. OrderInv /\ TreeInv /\ RevisionInv /\ TypeInv
  BY DEF BaseInv, OrderInv
<1>2. CASE Scan \/ Edits
  <2>1. TreeInv'
    BY <1>1, <1>2, ScanKeepsDisk DEF TreeInv
  <2>2. CASE Edits
    BY <1>1, <2>1, <2>2, EditsOrder DEF BaseInv
  <2>3. CASE ScanRefused
    BY <1>1, <2>1, <2>3, RefusedOrder DEF BaseInv
  <2>4. ASSUME NEW opt \in {ScanOptions} \cup CompareOptions, StartFails(opt) \/ StartScan(opt)
        PROVE  BaseInv'
    BY <1>1, <2>1, <2>4, StartFailsOrder, StartScanOrder DEF BaseInv
  <2>5. CASE VisitEntry \/ Abort \/ EndDirectory \/ ReaddirFails
    <3>1. OrderInv'
      BY <1>1, <2>5, VisitOrder, AbortOrder, EndOrder, ReaddirOrder
    <3>2. UNCHANGED <<revision, directories>>
      BY <2>5 DEF VisitEntry, Abort, EndDirectory, ReaddirFails, itemVars
    <3> QED
      BY <1>1, <2>1, <3>1, <3>2 DEF BaseInv, RevisionInv
  <2>6. CASE Finish
    BY <1>1, <2>1, <2>6, FinishOrder DEF BaseInv
  <2> QED
    BY <1>2, <2>2, <2>3, <2>4, <2>5, <2>6 DEF Scan
<1>3. CASE Environment
  BY <1>1, <1>3, EnvironmentOrder DEF BaseInv
<1>4. CASE UNCHANGED vars
  <2>1. FramesOK' /\ CountsOK' /\ StackInv'
    <3>1. FramesOK /\ CountsOK /\ StackInv
      BY <1>1, TypeParts DEF OrderInv
    <3> QED
      BY <1>4, <3>1, FramesAreKept, CountsAreKept, StackIsKept DEF vars, itemVars
  <2>2. ItemsOK' /\ OthersOK' /\ TreeInv' /\ RevisionInv'
    BY <1>1, <1>4, TypeParts
       DEF vars, itemVars, localVars, ItemsOK, OthersOK, TreeInv, RevisionInv
  <2> QED
    BY <2>1, <2>2, TypeParts DEF BaseInv, OrderInv
<1> QED
  BY <1>2, <1>3, <1>4 DEF Next

\* Types: whatever the disk holds and however it changes, the snapshots have only items
\* of the disk's paths, each in the entry of its directory, the stack is empty but
\* during a walk, and the revision stays within the number of scans.
THEOREM TypeCorrect == Spec => []TypeOK
<1>1. BaseInv => TypeOK
  BY DEF BaseInv, OrderInv, TypeInv
<1> QED
  BY <1>1, BaseInit, BaseNext, PTL DEF Spec
-----------------------------------------------------------------------------
(***************************************************************************)
(* The frames after a step of a walk, one by one.                          *)
(***************************************************************************)
\* An entry is dealt with.
LEMMA AdvancedFrames ==
    ASSUME TypeInv, at = "scan", NEW c, NEW items, NEW result, Advanced(c, items, result)
    PROVE  /\ DOMAIN frames' = DOMAIN frames
           /\ \E n \in DOMAIN frames :
                /\ Top = frames[n]
                /\ \A i \in DOMAIN frames : frames'[i].dir = frames[i].dir /\ frames'[i].stats = frames[i].stats
                /\ \A i \in DOMAIN frames : i # n => frames'[i].todo = frames[i].todo
                                                     /\ frames'[i].items = frames[i].items
                /\ frames'[n].todo = Top.todo \ {c} /\ frames'[n].items = items
<1> DEFINE n == Len(frames)
<1>1. /\ frames' \in Seq(Frames) /\ Len(frames') = n /\ n \in Nat \ {0}
      /\ \A i \in 1..n : i # n => frames'[i] = frames[i]
      /\ frames'[n].dir = Top.dir /\ frames'[n].stats = Top.stats
      /\ frames'[n].todo = Top.todo \ {c} /\ frames'[n].items = items
  BY DEF Advanced
<1>2. DOMAIN frames = 1..n /\ n \in 1..n /\ Top = frames[n]
  BY StackDomain
<1>3. DOMAIN frames' = 1..n
  BY <1>1, LenProperties
<1> HIDE DEF n
<1>4. \A i \in 1..n : i # n => frames'[i].dir = frames[i].dir /\ frames'[i].stats = frames[i].stats
                       /\ frames'[i].todo = frames[i].todo /\ frames'[i].items = frames[i].items
  BY <1>1
<1>5. \A i \in 1..n : frames'[i].dir = frames[i].dir /\ frames'[i].stats = frames[i].stats
  BY <1>1, <1>2, <1>4
<1> QED
  BY <1>1, <1>2, <1>3, <1>4, <1>5

\* A directory is opened.
PushedAs(c, n, new) ==
    /\ Top = frames[n] /\ new \notin DOMAIN frames /\ DOMAIN frames' = DOMAIN frames \cup {new}
    /\ \A i \in DOMAIN frames : frames'[i].dir = frames[i].dir /\ frames'[i].stats = frames[i].stats
                                 /\ frames'[i].items = frames[i].items
    /\ \A i \in DOMAIN frames : i # n => frames'[i].todo = frames[i].todo
    /\ frames'[n].todo = Top.todo \ {c}
    /\ frames'[new].dir = c /\ frames'[new].stats = disk[c]
    /\ frames'[new].todo = {b \in Children(c) : disk[b].kind # "absent"}
    /\ DOMAIN frames'[new].items = {}

\* Its frame is the last.
LEMMA PushedFrames ==
    ASSUME TypeInv, at = "scan", NEW c, Pushed(c)
    PROVE  \E n \in DOMAIN frames : \E new : PushedAs(c, n, new)
<1> DEFINE n == Len(frames)
           new == n + 1
<1>1. /\ frames' \in Seq(Frames) /\ Len(frames') = n + 1 /\ n \in Nat \ {0}
      /\ \A i \in 1..n : i # n => frames'[i] = frames[i]
      /\ frames'[n].dir = Top.dir /\ frames'[n].stats = Top.stats
      /\ frames'[n].todo = Top.todo \ {c} /\ frames'[n].items = Top.items
      /\ frames'[new] = Frame(c, disk[c])
  BY DEF Pushed
<1>2. DOMAIN frames = 1..n /\ n \in 1..n /\ Top = frames[n]
  BY StackDomain
<1>3. DOMAIN frames' = 1..n \cup {new} /\ new \notin 1..n
  <2>1. DOMAIN frames' = 1..n + 1
    BY <1>1, LenProperties
  <2> QED
    BY <1>1, <2>1
<1> HIDE DEF n, new
<1>4. \A i \in 1..n : i # n => frames'[i].dir = frames[i].dir /\ frames'[i].stats = frames[i].stats
                       /\ frames'[i].todo = frames[i].todo /\ frames'[i].items = frames[i].items
  BY <1>1
<1>5. \A i \in 1..n : frames'[i].dir = frames[i].dir /\ frames'[i].stats = frames[i].stats
                       /\ frames'[i].items = frames[i].items
  BY <1>1, <1>2, <1>4
<1>6. /\ frames'[new].dir = c /\ frames'[new].stats = disk[c]
      /\ frames'[new].todo = {b \in Children(c) : disk[b].kind # "absent"}
      /\ DOMAIN frames'[new].items = {}
  BY <1>1, EmptySeq DEF Frame
<1>7. PushedAs(c, n, new)
  BY <1>1, <1>2, <1>3, <1>4, <1>5, <1>6 DEF PushedAs
<1> QED
  BY <1>2, <1>7

\* A call returns.
LEMMA ReturnedFrames ==
    ASSUME OrderInv, at = "scan", NEW result, NEW made \in BOOLEAN, Returned(result, made)
    PROVE  \E n, up \in DOMAIN frames :
             /\ Top = frames[n] /\ up # n /\ DOMAIN frames' = DOMAIN frames \ {n}
             /\ \A i \in DOMAIN frames' : frames'[i].dir = frames[i].dir /\ frames'[i].stats = frames[i].stats
                                           /\ frames'[i].todo = frames[i].todo
             /\ \A i \in DOMAIN frames' : i # up => frames'[i].items = frames[i].items
             /\ Top.dir \in Children(frames[up].dir)
             /\ made => frames'[up].items = With(frames[up].items, Top.dir, NewItem(Top.stats, revision))
             /\ ~made => frames'[up].items = frames[up].items
<1> DEFINE n == Len(frames)
           up == n - 1
<1>1. /\ frames' \in Seq(Frames) /\ Len(frames') = up /\ up \in Nat \ {0}
      /\ \A i \in 1..up : i # up => frames'[i] = frames[i]
      /\ frames'[up].dir = frames[up].dir /\ frames'[up].stats = frames[up].stats
      /\ frames'[up].todo = frames[up].todo
      /\ frames'[up].items = IF made THEN With(frames[up].items, Top.dir, NewItem(Top.stats, revision))
                             ELSE frames[up].items
  BY DEF Returned
<1>2. TypeInv /\ StackInv
  BY DEF OrderInv
<1>3. DOMAIN frames = 1..n /\ n \in 1..n /\ Top = frames[n]
  BY <1>2, StackDomain
<1>4. DOMAIN frames' = (1..n) \ {n} /\ up \in 1..n /\ up # n /\ DOMAIN frames' = 1..up /\ n > 1
  <2>1. DOMAIN frames' = 1..up
    BY <1>1, LenProperties
  <2>2. n \in Nat
    BY <1>2, StackDomain
  <2> QED
    BY <1>1, <2>1, <2>2
<1> HIDE DEF n
<1>5. Top.dir \in Children(frames[up].dir)
  <2>1. n \in DOMAIN frames /\ n > 1 /\ Top = frames[n]
    BY <1>3, <1>4
  <2>2. frames[n].dir \in Children(frames[n - 1].dir)
    BY <1>2, <2>1 DEF StackInv
  <2> QED
    BY <2>1, <2>2
<1> HIDE DEF up
<1>6. \A i \in 1..up : i # up => frames'[i].dir = frames[i].dir /\ frames'[i].stats = frames[i].stats
                       /\ frames'[i].todo = frames[i].todo /\ frames'[i].items = frames[i].items
  BY <1>1
<1>7. \A i \in 1..up : frames'[i].dir = frames[i].dir /\ frames'[i].stats = frames[i].stats
                       /\ frames'[i].todo = frames[i].todo
  BY <1>1, <1>6
<1> QED
  BY <1>1, <1>3, <1>4, <1>5, <1>6, <1>7

\* A snapshot with the entries of one more directory, item by item.
LEMMA WithItems ==
    ASSUME NEW dirs, NEW d, NEW items, NEW q \in Paths \ {<<>>}
    PROVE  LET new == With(dirs, d, items)
           IN  /\ Parent(q) = d => /\ q \in ItemPaths(new) <=> q \in DOMAIN items
                                   /\ Item(new, q) = items[q]
               /\ Parent(q) # d => /\ q \in ItemPaths(new) <=> q \in ItemPaths(dirs)
                                   /\ q \in ItemPaths(dirs) => Item(new, q) = Item(dirs, q)
BY DEF With, ItemPaths, Item
-----------------------------------------------------------------------------
(***************************************************************************)
(* A directory that is an item has its entries in the snapshot.            *)
(***************************************************************************)
ContentsKnown(dirs, done) ==
    \A p \in ItemPaths(dirs) : Item(dirs, p).stats.kind = "dir" => p \in DOMAIN dirs \cup done

\* Also for the snapshot that is being built, and the items in the calls.
ContentsInv ==
    /\ DirectoryItemsHaveContents
    /\ ContentsKnown(newDirectories, masked)
    /\ \A i \in DOMAIN frames : \A p \in DOMAIN frames[i].items :
         frames[i].items[p].stats.kind = "dir" => p \in DOMAIN newDirectories \cup masked
    /\ at = "finish" => <<>> \in DOMAIN newDirectories \cup masked

\* The call for a directory ends, which is then known.
LEMMA LeavesContents ==
    ASSUME OrderInv, ContentsInv, at = "scan", WalkKeeps,
           NEW result, NEW made \in BOOLEAN, Leaves(result, made),
           DOMAIN newDirectories \cup masked \subseteq DOMAIN newDirectories' \cup masked',
           Len(frames) = 1 \/ made => Top.dir \in DOMAIN newDirectories' \cup masked',
           ContentsKnown(newDirectories, masked)'
    PROVE  ContentsInv'
<1>1. DirectoryItemsHaveContents'
  BY DEF WalkKeeps, itemVars, ContentsInv, DirectoryItemsHaveContents, ItemPaths, Item
<1>2. CASE Len(frames) = 1 /\ at' = "finish" /\ frames' = <<>>
  <2>1. Top.dir = <<>>
    <3>1. Len(frames) \in DOMAIN frames /\ Top = frames[Len(frames)]
      BY StackDomain DEF OrderInv
    <3> QED
      BY <1>2, <3>1 DEF OrderInv, StackInv
  <2>2. DOMAIN frames' = {}
    BY <1>2, EmptySeq
  <2> QED
    BY <1>1, <1>2, <2>1, <2>2 DEF ContentsInv
<1>3. CASE Len(frames) > 1 /\ at' = "scan" /\ Returned(result, made)
  <2>1. PICK n, up \in DOMAIN frames :
             /\ Top = frames[n] /\ up # n /\ DOMAIN frames' = DOMAIN frames \ {n}
             /\ \A i \in DOMAIN frames' : i # up => frames'[i].items = frames[i].items
             /\ made => frames'[up].items = With(frames[up].items, Top.dir, NewItem(Top.stats, revision))
             /\ ~made => frames'[up].items = frames[up].items
    BY <1>3, ReturnedFrames
  <2>2. ASSUME NEW i \in DOMAIN frames', NEW p \in DOMAIN frames'[i].items,
               frames'[i].items[p].stats.kind = "dir"
        PROVE  p \in DOMAIN newDirectories' \cup masked'
    <3>1. CASE frames'[i].items = frames[i].items
      BY <2>1, <2>2, <3>1 DEF ContentsInv
    <3>2. CASE made /\ i = up
      <4>1. frames'[i].items = With(frames[i].items, Top.dir, NewItem(Top.stats, revision))
        BY <2>1, <3>2
      <4>2. CASE p = Top.dir
        BY <3>2, <4>2
      <4>3. CASE p # Top.dir
        BY <2>1, <2>2, <4>1, <4>3 DEF With, ContentsInv
      <4> QED
        BY <4>2, <4>3
    <3> QED
      BY <2>1, <3>1, <3>2
  <2> QED
    BY <1>1, <1>3, <2>2 DEF ContentsInv
<1> QED
  BY <1>2, <1>3 DEF Leaves

\* Visiting an entry keeps the contents of the directories.
LEMMA VisitContents == OrderInv /\ ContentsInv /\ VisitEntry => ContentsInv'
<1> SUFFICES ASSUME TypeInv, ContentsInv, VisitEntry PROVE ContentsInv'
  BY DEF OrderInv
<1>1. /\ at = "scan" /\ at' = "scan" /\ WalkKeeps
      /\ newDirectories' = newDirectories /\ masked' = masked
  BY VisitSteps
<1>2. PICK c \in Top.todo : Drops(c) \/ MakesFile(c) \/ Opens(c)
  BY VisitSteps
<1>3. DirectoryItemsHaveContents' /\ ContentsKnown(newDirectories, masked)'
  BY <1>1 DEF WalkKeeps, itemVars, ContentsInv, DirectoryItemsHaveContents, ContentsKnown, ItemPaths, Item
<1>4. \A i \in DOMAIN frames' : \A p \in DOMAIN frames'[i].items :
         frames'[i].items[p].stats.kind = "dir" => p \in DOMAIN newDirectories \cup masked
  <2>1. CASE Drops(c)
    <3>1. PICK result : Advanced(c, Top.items, result)
      BY <2>1 DEF Drops
    <3>2. DOMAIN frames' = DOMAIN frames /\ \A i \in DOMAIN frames : frames'[i].items = frames[i].items
      BY <1>1, <3>1, AdvancedFrames
    <3> QED
      BY <3>2 DEF ContentsInv
  <2>2. CASE MakesFile(c)
    <3> DEFINE items == With(Top.items, c, NewItem(disk[c], revision))
    <3>1. Advanced(c, items, Top.result) /\ disk[c].kind = "file"
      BY <2>2 DEF MakesFile
    <3>2. items[c].stats.kind = "file"
      BY <3>1 DEF With, NewItem
    <3>3. \A p \in DOMAIN items : p # c => p \in DOMAIN Top.items /\ items[p] = Top.items[p]
      BY DEF With
    <3> HIDE DEF items
    <3>4. /\ DOMAIN frames' = DOMAIN frames
          /\ \E n \in DOMAIN frames : /\ Top = frames[n] /\ frames'[n].items = items
                                      /\ \A i \in DOMAIN frames : i # n => frames'[i].items = frames[i].items
      BY <1>1, <3>1, AdvancedFrames
    <3>5. PICK n \in DOMAIN frames : /\ Top = frames[n] /\ frames'[n].items = items
                                     /\ \A i \in DOMAIN frames : i # n => frames'[i].items = frames[i].items
      BY <3>4
    <3>6. \A p \in DOMAIN items : items[p].stats.kind = "dir" => p \in DOMAIN newDirectories \cup masked
      BY <3>2, <3>3, <3>5 DEF ContentsInv
    <3> QED
      BY <3>4, <3>5, <3>6 DEF ContentsInv
  <2>3. CASE Opens(c)
    <3>1. Pushed(c)
      BY <2>3 DEF Opens
    <3>2. PICK new : /\ DOMAIN frames' = DOMAIN frames \cup {new}
                     /\ \A i \in DOMAIN frames : frames'[i].items = frames[i].items
                     /\ DOMAIN frames'[new].items = {}
      BY <1>1, <3>1, PushedFrames DEF PushedAs
    <3> QED
      BY <3>2 DEF ContentsInv
  <2> QED
    BY <1>2, <2>1, <2>2, <2>3
<1> QED
  BY <1>1, <1>3, <1>4 DEF ContentsInv

\* Leaving a directory keeps the contents of the directories.
LEMMA EndContents == OrderInv /\ ContentsInv /\ EndDirectory => ContentsInv'
<1> SUFFICES ASSUME OrderInv, TypeInv, ContentsInv, EndDirectory PROVE ContentsInv'
  BY DEF OrderInv
<1>1. at = "scan" /\ WalkKeeps /\ HasRead
  BY EndSteps
<1>2. newDirectories' = With(newDirectories, Top.dir, Top.items) /\ masked' = masked
  BY <1>1 DEF HasRead
<1>3. PICK result \in {0, 1}, made \in BOOLEAN : Leaves(result, made)
  BY <1>1 DEF HasRead
<1>4. DOMAIN newDirectories' = DOMAIN newDirectories \cup {Top.dir}
  BY <1>2 DEF With
<1>5. \A p \in DOMAIN Top.items : Top.items[p].stats.kind = "dir" => p \in DOMAIN newDirectories \cup masked
  BY <1>1, StackDomain DEF ContentsInv
<1>6. ContentsKnown(newDirectories', masked')
  <2> SUFFICES ASSUME NEW p \in ItemPaths(newDirectories'), Item(newDirectories', p).stats.kind = "dir"
               PROVE  p \in DOMAIN newDirectories' \cup masked'
    BY DEF ContentsKnown
  <2>1. p \in Paths \ {<<>>}
    BY DEF ItemPaths
  <2>2. CASE Parent(p) = Top.dir
    <3>1. p \in DOMAIN Top.items /\ Item(newDirectories', p) = Top.items[p]
      BY <1>2, <2>1, <2>2, WithItems
    <3> QED
      BY <1>2, <1>4, <1>5, <3>1
  <2>3. CASE Parent(p) # Top.dir
    <3>1. p \in ItemPaths(newDirectories) /\ Item(newDirectories', p) = Item(newDirectories, p)
      BY <1>2, <2>1, <2>3, WithItems
    <3> QED
      BY <1>2, <1>4, <3>1 DEF ContentsInv, ContentsKnown
  <2> QED
    BY <2>2, <2>3
<1>7. /\ DOMAIN newDirectories \cup masked \subseteq DOMAIN newDirectories' \cup masked'
      /\ Top.dir \in DOMAIN newDirectories' \cup masked'
  BY <1>2, <1>4
<1> QED
  BY <1>1, <1>3, <1>6, <1>7, LeavesContents

\* A walk that is given up leaves nothing.
LEMMA GiveUpContents ==
    ASSUME ContentsInv, GiveUp, UNCHANGED itemVars
    PROVE  ContentsInv'
<1>1. DirectoryItemsHaveContents'
  BY DEF itemVars, ContentsInv, DirectoryItemsHaveContents, ItemPaths, Item
<1>2. DOMAIN newDirectories' = {} /\ DOMAIN frames' = {} /\ at' = "idle"
  BY EmptySeq DEF GiveUp
<1> QED
  BY <1>1, <1>2 DEF ContentsInv, ContentsKnown, ItemPaths

\* A failing readdir keeps the contents of the directories.
LEMMA ReaddirContents == OrderInv /\ ContentsInv /\ ReaddirFails => ContentsInv'
<1> SUFFICES ASSUME OrderInv, TypeInv, ContentsInv, ReaddirFails PROVE ContentsInv'
  BY DEF OrderInv
<1>1. /\ at = "scan" /\ UNCHANGED itemVars
      /\ GiveUp \/ (WalkKeeps /\ CannotRead)
  BY ReaddirSteps
<1>2. CASE WalkKeeps /\ CannotRead
  <2>1. newDirectories' = newDirectories /\ masked \subseteq masked'
    BY <1>2 DEF CannotRead
  <2>2. ContentsKnown(newDirectories', masked')
    BY <2>1 DEF ContentsInv, ContentsKnown
  <2>3. CASE Leaves(1, TRUE) /\ masked' = masked \cup {Top.dir}
    BY <1>1, <1>2, <2>1, <2>2, <2>3, LeavesContents
  <2>4. CASE Len(frames) > 1 /\ Leaves(0, FALSE)
    <3>1. Len(frames) # 1
      BY <2>4, StackDomain
    <3> QED
      BY <1>1, <1>2, <2>1, <2>2, <2>4, <3>1, LeavesContents
  <2> QED
    BY <1>2, <2>3, <2>4 DEF CannotRead
<1> QED
  BY <1>1, <1>2, GiveUpContents
\* A walk begins.
LEMMA StartContents ==
    ASSUME OrderInv, ContentsInv, NEW opt, StartScan(opt)
    PROVE  ContentsInv'
<1>1. DirectoryItemsHaveContents'
  BY DEF StartScan, ContentsInv, DirectoryItemsHaveContents, ItemPaths, Item
<1>2. DOMAIN newDirectories' = {} /\ at' = "scan"
  BY EmptySeq DEF StartScan
<1>3. \A i \in DOMAIN frames' : DOMAIN frames'[i].items = {}
  <2> DEFINE f == Frame(<<>>, disk[<<>>])
  <2>1. DOMAIN f.items = {}
    BY EmptySeq DEF Frame
  <2>2. frames' = <<f>>
    BY DEF StartScan
  <2> HIDE DEF f
  <2>3. \A i \in DOMAIN frames' : frames'[i] = f
    BY <2>2
  <2> QED
    BY <2>1, <2>3
<1> QED
  BY <1>1, <1>2, <1>3 DEF ContentsInv, ContentsKnown, ItemPaths

\* Items are edited.
LEMMA EditContents ==
    ASSUME OrderInv, ContentsInv, EditKeeps, DirectoryItemsHaveContents'
    PROVE  ContentsInv'
<1>1. at' = "idle" /\ frames' = frames /\ newDirectories' = newDirectories /\ masked' = masked
  BY DEF EditKeeps, localVars
<1> QED
  BY <1>1 DEF ContentsInv, ContentsKnown, ItemPaths, Item

\* Edits of the snapshot keep the contents of its directories.
LEMMA EditsContents == BaseInv /\ ContentsInv /\ Edits => ContentsInv'
<1> SUFFICES ASSUME OrderInv, RevisionInv, ContentsInv, Edits PROVE ContentsInv'
  BY DEF BaseInv
<1>1. \A p \in ItemPaths(directories) :
        Item(directories, p).stats.kind = "dir" => p \in DOMAIN directories \cup patched
  BY DEF ContentsInv, DirectoryItemsHaveContents
<1>2. ASSUME NEW p \in Paths, UpdateItem(p) PROVE ContentsInv'
  <2>1. /\ EditKeeps /\ DOMAIN directories' = DOMAIN directories
        /\ ItemPaths(directories') = ItemPaths(directories) /\ p \in ItemPaths(directories)
        /\ \A q \in ItemPaths(directories) : q # p => Item(directories', q) = Item(directories, q)
        /\ patched' = patched \cup {p}
    BY <1>2, UpdateFacts
  <2>2. DirectoryItemsHaveContents'
    BY <1>1, <2>1 DEF DirectoryItemsHaveContents
  <2> QED
    BY <2>1, <2>2, EditContents
<1>3. ASSUME NEW p \in Paths, RemoveItem(p) PROVE ContentsInv'
  <2>1. /\ EditKeeps /\ DOMAIN directories' = DOMAIN directories
        /\ ItemPaths(directories') = ItemPaths(directories) \ {p}
        /\ \A q \in ItemPaths(directories) : q # p => Item(directories', q) = Item(directories, q)
        /\ patched' = patched
    BY <1>3, RemoveFacts
  <2>2. DirectoryItemsHaveContents'
    BY <1>1, <2>1 DEF DirectoryItemsHaveContents
  <2> QED
    BY <2>1, <2>2, EditContents
<1>4. ASSUME NEW p \in Paths, SetUserInfo(p) PROVE ContentsInv'
  <2>1. /\ EditKeeps /\ DOMAIN directories' = DOMAIN directories
        /\ ItemPaths(directories') = ItemPaths(directories)
        /\ \A q \in ItemPaths(directories) : Item(directories', q).stats = Item(directories, q).stats
        /\ patched' = patched
    BY <1>4, InfoFacts
  <2>2. DirectoryItemsHaveContents'
    BY <1>1, <2>1 DEF DirectoryItemsHaveContents
  <2> QED
    BY <2>1, <2>2, EditContents
<1>5. ASSUME NEW set \in SUBSET Excludable, SetExclusionPredicate(set) PROVE ContentsInv'
  <2>1. EditKeeps /\ directories' = directories /\ patched' = patched
    BY <1>5, PredicateFacts
  <2>2. DirectoryItemsHaveContents'
    BY <1>1, <2>1 DEF DirectoryItemsHaveContents, ItemPaths, Item
  <2> QED
    BY <2>1, <2>2, EditContents
<1>6. ASSUME NEW setting \in {"hidden", "dsStore", "report"}, SetHiding(setting) PROVE ContentsInv'
  <2>1. EditKeeps /\ directories' = directories /\ patched' = patched
    BY <1>6, HidingFacts
  <2>2. DirectoryItemsHaveContents'
    BY <1>1, <2>1 DEF DirectoryItemsHaveContents, ItemPaths, Item
  <2> QED
    BY <2>1, <2>2, EditContents
<1> QED
  BY <1>2, <1>3, <1>4, <1>5, <1>6 DEF Edits

\* The snapshot replaces the last one.
LEMMA FinishContents == OrderInv /\ ContentsInv /\ Finish => ContentsInv'
<1> SUFFICES ASSUME OrderInv, TypeInv, ContentsInv, Finish PROVE ContentsInv'
  BY DEF OrderInv
<1>1. Finished
  BY FinishSteps
<1>2. /\ DOMAIN directories' = DOMAIN newDirectories
      /\ ItemPaths(directories') = ItemPaths(newDirectories)
      /\ \A p \in ItemPaths(newDirectories) :
           Item(directories', p).stats = Item(newDirectories, p).stats
      /\ patched' = masked
  BY <1>1, FinishFacts DEF Finished
<1>3. DirectoryItemsHaveContents'
  BY <1>2 DEF DirectoryItemsHaveContents, ContentsInv, ContentsKnown
<1>4. DOMAIN newDirectories' = {} /\ at' = "idle" /\ DOMAIN frames' = {}
  <2>1. DOMAIN frames = {} /\ frames' = frames
    BY <1>1, StackDomain DEF Finished
  <2> QED
    BY <1>1, <2>1, EmptySeq DEF Finished
<1> QED
  BY <1>3, <1>4 DEF ContentsInv, ContentsKnown, ItemPaths

\* The other steps leave the snapshots alone.
LEMMA OtherContents ==
    ASSUME ContentsInv, UNCHANGED <<directories, patched, newDirectories, masked, frames, at>>
    PROVE  ContentsInv'
BY DEF ContentsInv, DirectoryItemsHaveContents, ContentsKnown, ItemPaths, Item

\* Every step keeps the contents of the directories.
LEMMA ContentsNext == BaseInv /\ ContentsInv /\ [Next]_vars => ContentsInv'
<1> SUFFICES ASSUME BaseInv, OrderInv, TreeInv, RevisionInv, ContentsInv, [Next]_vars PROVE ContentsInv'
  BY DEF BaseInv
<1>1. CASE Scan
  <2>1. CASE ScanRefused
    BY <2>1, OtherContents DEF ScanRefused, itemVars, localVars
  <2>2. ASSUME NEW opt, StartFails(opt) PROVE ContentsInv'
    BY <2>2, OtherContents DEF StartFails, localVars
  <2>3. ASSUME NEW opt, StartScan(opt) PROVE ContentsInv'
    BY <2>3, StartContents
  <2>4. CASE Abort
    BY <2>4, GiveUpContents DEF Abort
  <2> QED
    BY <1>1, <2>1, <2>2, <2>3, <2>4, VisitContents, EndContents, ReaddirContents, FinishContents DEF Scan
<1>2. CASE Edits
  BY <1>2, EditsContents
<1>3. CASE Environment
  <2>1. ChangeKeeps
    BY <1>3, EnvironmentOrder
  <2> QED
    BY <2>1, OtherContents DEF ChangeKeeps, itemVars, localVars
<1>4. CASE UNCHANGED vars
  BY <1>4, OtherContents DEF vars, itemVars, localVars
<1> QED
  BY <1>1, <1>2, <1>3, <1>4 DEF Next

\* The contents of the directories hold initially.
LEMMA ContentsInit == Init => ContentsInv
BY EmptySeq DEF Init, ContentsInv, DirectoryItemsHaveContents, ContentsKnown, ItemPaths
-----------------------------------------------------------------------------
(***************************************************************************)
(* The end of a comparison.                                                *)
(***************************************************************************)
\* Nothing but the end of the scan happens when a walk is over.
LEMMA OnlyFinish == BaseInv /\ at = "finish" /\ Next => Finished
<1> SUFFICES ASSUME BaseInv, at = "finish", Next PROVE Finished
  OBVIOUS
<1>1. ~Edits
  <2>1. \A p : ~UpdateItem(p) /\ ~RemoveItem(p) /\ ~SetUserInfo(p)
    BY DEF UpdateItem, RemoveItem, SetUserInfo, Edit
  <2>2. \A set : ~SetExclusionPredicate(set) /\ ~SetHiding(set)
    BY DEF SetExclusionPredicate, SetHiding, Edit
  <2> QED
    BY <2>1, <2>2 DEF Edits
<1>2. ~Environment
  BY EnvironmentOrder DEF BaseInv, ChangeKeeps
<1>3. Scan
  BY <1>1, <1>2 DEF Next
<1>4. Finish
  <2>1. \A opt : ~StartFails(opt) /\ ~StartScan(opt)
    BY DEF StartFails, StartScan
  <2>2. ~ScanRefused /\ ~VisitEntry /\ ~Abort /\ ~EndDirectory /\ ~ReaddirFails
    BY DEF ScanRefused, VisitEntry, Abort, EndDirectory, ReaddirFails
  <2> QED
    BY <1>3, <2>1, <2>2 DEF Scan
<1> QED
  BY <1>4, FinishSteps

\* What has come is reported as added or as the new place of something moved, what has
\* gone as removed, as moved, or not at all when its directory has gone too.
LEMMA ReportedFacts ==
    ASSUME BaseInv, Finished, options.compare
    PROVE  LET old == ItemPaths(directories)
               new == ItemPaths(newDirectories)
               from == {m[1] : m \in report'.moved}
               to == {m[2] : m \in report'.moved}
           IN  /\ report'.added \cup to = new \ old
               /\ report'.removed \cup from \subseteq old \ new
               /\ Removed(newDirectories, directories) \subseteq report'.removed \cup from
               /\ options.reportAll => Pruned(newDirectories, directories) \subseteq report'.removed \cup from
               /\ report'.modData = ModifiedData(newDirectories, directories)
               /\ report'.modMeta \cap new = ModifiedMetadata(newDirectories, directories)
               /\ revision' = IF options.bump /\ ~IsEmpty(report') THEN revision + 1 ELSE revision
<1> DEFINE old == ItemPaths(directories)
           new == ItemPaths(newDirectories)
           from == {m[1] : m \in report'.moved}
           to == {m[2] : m \in report'.moved}
           added == Added(newDirectories, directories)
           pruned == Pruned(newDirectories, directories)
           removed == Removed(newDirectories, directories) \cup (IF options.reportAll THEN pruned ELSE {})
<1>1. PICK m1, m2 : Reported(m1, m2)
  BY DEF Finished
<1>2. added = new \ old /\ removed \subseteq old \ new /\ pruned \subseteq old \ new
  <2>1. new \subseteq Paths /\ \A p \in new : Parent(p) \in DOMAIN newDirectories
    BY DEF ItemPaths
  <2> QED
    BY <2>1 DEF Added, Removed, Pruned
<1>3. /\ m1 \subseteq pruned \X added /\ m2 \subseteq removed \X added
      /\ report'.moved = m1 \cup m2
      /\ report'.added = added \ {m[2] : m \in m1 \cup m2}
      /\ report'.removed = removed \ {m[1] : m \in m2}
  BY <1>1 DEF Reported
<1> HIDE DEF added, pruned, removed
<1>4. \A m \in m1 : m[1] \in pruned /\ m[2] \in added
  BY <1>3
<1>5. \A m \in m2 : m[1] \in removed /\ m[2] \in added
  BY <1>3
<1>6. report'.added \cup to = new \ old
  BY <1>2, <1>3, <1>4, <1>5
<1>7. report'.removed \cup from \subseteq old \ new
  BY <1>2, <1>3, <1>4, <1>5
<1>8. removed \subseteq report'.removed \cup from
  BY <1>3
<1>9. report'.modMeta \cap new = ModifiedMetadata(newDirectories, directories)
  <2>1. <<>> \notin new /\ ModifiedMetadata(newDirectories, directories) \subseteq new
    BY DEF ItemPaths, ModifiedMetadata
  <2>2. report'.modMeta = ModifiedMetadata(newDirectories, directories)
        \/ report'.modMeta = ModifiedMetadata(newDirectories, directories) \cup {<<>>}
    BY <1>1 DEF Reported
  <2> QED
    BY <2>1, <2>2
<1>10. /\ report'.modData = ModifiedData(newDirectories, directories)
       /\ revision' = IF options.bump /\ ~IsEmpty(report') THEN revision + 1 ELSE revision
  BY <1>1 DEF Reported
<1> QED
  BY <1>6, <1>7, <1>8, <1>9, <1>10 DEF removed, pruned
\* One step of RevisionsRecordChanges.
RevisionsRecorded ==
    at = "finish" /\ options.compare =>
        \A p \in ItemPaths(directories') :
            LET changed == report'.added \cup report'.modData \cup report'.modMeta
                             \cup {m[2] : m \in report'.moved}
            IN  /\ p \in changed => Item(directories', p).revision = revision'
                /\ p \notin changed =>
                     Item(directories', p).revision = Item(directories, p).revision
                /\ p \in ItemPaths(directories) =>
                     Item(directories', p).userInfo = Item(directories, p).userInfo

\* The end of a scan gives every item the revision of its last change.
LEMMA RevisionsStep == BaseInv /\ Finished => RevisionsRecorded
<1> DEFINE moved == {m[2] : m \in report'.moved}
           changed == report'.added \cup report'.modData \cup report'.modMeta \cup moved
           was == Added(newDirectories, directories) \cup ModifiedData(newDirectories, directories)
                    \cup ModifiedMetadata(newDirectories, directories)
           rev == IF options.bump THEN revision + 1 ELSE revision
<1> SUFFICES ASSUME BaseInv, Finished, at = "finish", options.compare, NEW p \in ItemPaths(directories')
             PROVE  /\ p \in changed => Item(directories', p).revision = revision'
                    /\ p \notin changed => Item(directories', p).revision = Item(directories, p).revision
                    /\ p \in ItemPaths(directories) =>
                         Item(directories', p).userInfo = Item(directories, p).userInfo
  BY DEF RevisionsRecorded
<1>1. /\ IsSnapshot(newDirectories) /\ IsSnapshot(directories)
      /\ p \in ItemPaths(newDirectories)
      /\ revision \in 1..MaxScans + 1 /\ revision + 1 \in 1..MaxScans + 1
  <2>1. OrderInv /\ CountsOK
    BY TypeParts DEF BaseInv, OrderInv
  <2> QED
    BY <2>1, NewRevision, FinishFacts
<1>2. rev \in 1..MaxScans + 1
  BY <1>1
<1>3. directories' = Revised(newDirectories, directories, rev)
  BY DEF Finished
<1>4. /\ report'.added \cup moved = Added(newDirectories, directories)
      /\ report'.modData = ModifiedData(newDirectories, directories)
      /\ report'.modMeta \cap ItemPaths(newDirectories) = ModifiedMetadata(newDirectories, directories)
      /\ revision' = IF options.bump /\ ~IsEmpty(report') THEN revision + 1 ELSE revision
  BY ReportedFacts DEF Added
<1>5. p \in changed <=> p \in was
  BY <1>1, <1>4
<1>6. p \in changed => revision' = rev
  <2>1. ASSUME IsEmpty(report') PROVE p \notin changed
    <3>1. /\ report'.added = {} /\ report'.modData = {} /\ report'.modMeta = {} /\ report'.moved = {}
      BY <2>1 DEF IsEmpty
    <3> QED
      BY <3>1
  <2> QED
    BY <1>4, <2>1
<1> HIDE DEF rev, changed
<1>7. /\ p \in was => Item(directories', p).revision = rev
      /\ p \notin was => Item(directories', p).revision = Item(directories, p).revision
      /\ p \in ItemPaths(directories) =>
           Item(directories', p).userInfo = Item(directories, p).userInfo
  <2> DEFINE dirs == Revised(newDirectories, directories, rev)
  <2>1. /\ p \in was => Item(dirs, p).revision = rev
        /\ p \notin was => Item(dirs, p).revision = Item(directories, p).revision
        /\ p \in ItemPaths(directories) => Item(dirs, p).userInfo = Item(directories, p).userInfo
    BY <1>1, <1>2, RevisedFacts
  <2>2. directories' = dirs
    BY <1>3
  <2> HIDE DEF dirs, was
  <2> QED
    BY <2>1, <2>2
<1> HIDE DEF was
<1> QED
  BY <1>5, <1>6, <1>7

\* The smallest of some numbers.
LEMMA Smallest ==
    ASSUME NEW S, S \subseteq Nat, S # {}
    PROVE  \E x \in S : \A y \in S : x <= y
<1>1. PICK x \in S : \A y \in S : ~(<<y, x>> \in OpToRel(<, Nat))
  BY NatLessThanWellFounded, WFMin, ZenonT(30)
<1>2. OpToRel(<, Nat) = {ss \in Nat \X Nat : ss[1] < ss[2]}
  BY DEF OpToRel
<1>3. \A y \in S : ~(<<y, x>> \in {ss \in Nat \X Nat : ss[1] < ss[2]})
  BY <1>1, <1>2, ZenonT(30)
<1>4. \A y \in S : ~(y < x)
  BY <1>3
<1> QED
  BY <1>4

\* One step of ReportExplainsChanges.
ChangesExplained ==
    at = "finish" /\ options.compare =>
         LET old == ItemPaths(directories)
             new == ItemPaths(directories')
             from == {m[1] : m \in report'.moved}
             to == {m[2] : m \in report'.moved}
         IN  /\ report'.added \cup to = new \ old
             /\ report'.removed \cup from \subseteq old \ new
             /\ options.reportAll => old \ new = report'.removed \cup from
             /\ \A p \in old \ new :
                  \/ Below(p, report'.removed \cup from \cup report'.modData \cup masked)
                  \/ IsOrphan(directories, p)

\* An item that has gone is below the first above it that has; and that one is reported,
\* or in a directory that is none any more, whose entries could not be read, or whose own
\* item was missing before.
LEMMA ChangesStep == BaseInv /\ ContentsInv /\ Finished => ChangesExplained
<1> DEFINE old == ItemPaths(directories)
           new == ItemPaths(newDirectories)
           from == {m[1] : m \in report'.moved}
           to == {m[2] : m \in report'.moved}
           told == report'.removed \cup from \cup report'.modData \cup masked
<1> SUFFICES ASSUME BaseInv, ContentsInv, Finished, at = "finish", options.compare
             PROVE  /\ report'.added \cup to = ItemPaths(directories') \ old
                    /\ report'.removed \cup from \subseteq old \ ItemPaths(directories')
                    /\ options.reportAll => old \ ItemPaths(directories') = report'.removed \cup from
                    /\ \A p \in old \ ItemPaths(directories') :
                         Below(p, told) \/ IsOrphan(directories, p)
  BY Zenon DEF ChangesExplained
<1>1. /\ IsSnapshot(newDirectories) /\ IsSnapshot(directories)
      /\ ItemPaths(directories') = new
  BY FinishFacts DEF BaseInv
<1>2. /\ report'.added \cup to = new \ old
      /\ report'.removed \cup from \subseteq old \ new
      /\ Removed(newDirectories, directories) \subseteq report'.removed \cup from
      /\ options.reportAll => Pruned(newDirectories, directories) \subseteq report'.removed \cup from
      /\ report'.modData = ModifiedData(newDirectories, directories)
  BY ReportedFacts
<1> HIDE DEF from, to
<1>3. old \ new \subseteq Removed(newDirectories, directories) \cup Pruned(newDirectories, directories)
  BY DEF Removed, Pruned
<1>4. options.reportAll => old \ new = report'.removed \cup from
  BY <1>2, <1>3
<1>5. old \subseteq Paths \ {<<>>} /\ new \subseteq Paths \ {<<>>}
  BY DEF ItemPaths
\* The first item above p that has gone.
<1>6. ASSUME NEW p \in old \ new
      PROVE  \E q \in old \ new : /\ IsPrefix(q, p)
                                  /\ \A r \in old \ new : IsPrefix(r, q) => r = q
  <2> DEFINE Q == {q \in old \ new : IsPrefix(q, p)}
             S == {Len(q) : q \in Q}
  <2>1. p \in Q
    BY <1>5, PathFacts
  <2>2. S \subseteq Nat /\ S # {}
    <3>1. \A q \in Q : q \in Paths
      BY <1>5
    <3>2. \A q \in Q : Len(q) \in Nat
      BY <3>1, PathsAreClosed
    <3> QED
      BY <2>1, <3>2
  <2>3. PICK n \in S : \A m \in S : n <= m
    <3> HIDE DEF S
    <3> QED
      BY <2>2, Smallest
  <2>4. PICK q \in Q : n = Len(q)
    BY <2>3
  <2>5. ASSUME NEW r \in old \ new, IsPrefix(r, q) PROVE r = q
    <3>1. q \in Paths /\ r \in Paths /\ IsPrefix(q, p) /\ p \in Paths
      BY <1>5, <2>4
    <3>2. IsPrefix(r, p)
      BY <2>5, <3>1, PathFacts
    <3>3. r \in Q
      BY <3>2
    <3>4. Len(r) \in S
      BY <3>3
    <3>5. Len(q) <= Len(r)
      BY <2>3, <2>4, <3>4
    <3>6. IsPrefix(q, q)
      BY <3>1, PathFacts
    <3>7. IsPrefix(q, r)
      BY <2>5, <3>1, <3>5, <3>6, PrefixIsOrder
    <3> QED
      BY <2>5, <3>1, <3>7, PathFacts
  <2> QED
    BY <2>4, <2>5
<1>7. ASSUME NEW p \in old \ new PROVE Below(p, told) \/ IsOrphan(directories, p)
  <2>1. PICK q \in old \ new : /\ IsPrefix(q, p)
                               /\ \A r \in old \ new : IsPrefix(r, q) => r = q
    BY <1>6
  <2> DEFINE d == Parent(q)
  <2>2. q \in Paths /\ q # <<>> /\ p \in Paths /\ d \in Paths /\ d # q /\ IsPrefix(d, q)
    <3>1. q \in Paths /\ q # <<>> /\ p \in Paths
      BY <1>5
    <3>2. d \in Paths /\ q \in Children(d)
      BY <3>1, PathFacts
    <3> QED
      BY <3>1, <3>2, PathFacts
  <2>3. IsPrefix(d, p)
    BY <2>1, <2>2, PathFacts
  <2>4. CASE q \in Removed(newDirectories, directories)
    BY <1>2, <2>1, <2>4 DEF Below
  <2>5. CASE d \notin DOMAIN newDirectories
    <3>1. CASE d = <<>>
      <4>1. <<>> \in masked
        BY <2>5, <3>1 DEF ContentsInv
      <4> QED
        BY <2>3, <3>1, <4>1 DEF Below
    <3>2. CASE d # <<>> /\ (d \in old => Item(directories, d).stats.kind # "dir")
      BY <2>1, <3>2 DEF IsOrphan
    <3>3. CASE d \in old /\ Item(directories, d).stats.kind = "dir"
      <4>1. d \in new
        BY <2>1, <2>2, <3>3
      <4>2. CASE Item(newDirectories, d).stats.kind = "dir"
        <5>1. d \in masked
          BY <2>5, <4>1, <4>2 DEF ContentsInv, ContentsKnown
        <5> QED
          BY <2>3, <5>1 DEF Below
      <4>3. CASE Item(newDirectories, d).stats.kind # "dir"
        <5>1. d \in ModifiedData(newDirectories, directories)
          BY <3>3, <4>1, <4>3 DEF ModifiedData, ContentsWasModified
        <5>2. d \in told
          BY <1>2, <5>1
        <5> QED
          BY <2>3, <5>2 DEF Below
      <4> QED
        BY <4>2, <4>3
    <3> QED
      BY <3>1, <3>2, <3>3
  <2> QED
    BY <2>4, <2>5 DEF Removed
<1> QED
  BY <1>1, <1>2, <1>4, <1>7

\* The revision of an item tells when it last changed: a comparison gives the scanner's
\* new revision to every item it reports and leaves it to every other, with the user info
\* of every item that stays.
THEOREM RevisionsAreRight == Spec => RevisionsRecordChanges
<1>1. BaseInv /\ [Next]_vars => [RevisionsRecorded]_vars
  BY OnlyFinish, RevisionsStep DEF RevisionsRecorded
<1> QED
  BY <1>1, BaseInit, BaseNext, PTL DEF Spec, RevisionsRecordChanges, RevisionsRecorded

\* A report of a comparison explains what came and went between the two snapshots,
\* whatever changed on the disk while they were made and whatever could not be read.
THEOREM ReportsExplain == Spec => ReportExplainsChanges
<1>1. BaseInv /\ ContentsInv /\ [Next]_vars => [ChangesExplained]_vars
  BY OnlyFinish, ChangesStep DEF ChangesExplained
<1> QED
  BY <1>1, BaseInit, BaseNext, ContentsInit, ContentsNext, PTL
     DEF Spec, ReportExplainsChanges, ChangesExplained

\* Every snapshot can be walked: each directory item has its entries, but for what was
\* updated in place and what could not be read.
THEOREM SnapshotsCanBeWalked == Spec => []DirectoryItemsHaveContents
<1>1. ContentsInv => DirectoryItemsHaveContents
  BY DEF ContentsInv
<1> QED
  BY <1>1, BaseInit, BaseNext, ContentsInit, ContentsNext, PTL DEF Spec
-----------------------------------------------------------------------------
(***************************************************************************)
(* A walk that nobody disturbs: each path is still to be visited, or its   *)
(* directory is open, or it is not there, or it is listed as it is, or it  *)
(* is below something that is reported or hidden.                          *)
(***************************************************************************)
Pending(p) == \E i \in DOMAIN frames : \E c \in frames[i].todo : IsPrefix(c, p)

Open(p) == \E i \in DOMAIN frames : frames[i].dir = p

Listed(p) == p \in ItemPaths(newDirectories) \/ \E i \in DOMAIN frames : p \in DOMAIN frames[i].items

Skipped == errorPaths \cup excludedPaths \cup Unreported \cup masked

AsOnDisk(stats, p) == stats = disk[p] /\ disk[p].kind # "absent" /\ ~Below(p, Unwanted)

\* The directories that are open are as they were found, and not in the snapshot yet;
\* nor is anything that is still to be visited.
WalkOpen ==
    /\ \A i \in DOMAIN frames :
         /\ frames[i].stats = disk[frames[i].dir] /\ disk[frames[i].dir].kind = "dir"
         /\ ~Below(frames[i].dir, Unwanted)
         /\ frames[i].dir \notin DOMAIN newDirectories
    /\ \A p \in Paths : Pending(p) => p \notin DOMAIN newDirectories

\* What is recorded is as the disk has it.
WalkItems ==
    /\ \A p \in ItemPaths(newDirectories) : AsOnDisk(Item(newDirectories, p).stats, p)
    /\ \A i \in DOMAIN frames : \A p \in DOMAIN frames[i].items : AsOnDisk(frames[i].items[p].stats, p)

\* Every path is somewhere.
WalkCovers ==
    \A p \in Paths \ {<<>>} :
        Pending(p) \/ Open(p) \/ disk[p].kind = "absent" \/ Listed(p) \/ Below(p, Skipped)

Walked ==
    /\ newRoot = disk[<<>>] /\ excludedPaths \subseteq Unwanted
    /\ WalkOpen /\ WalkItems /\ WalkCovers

\* All of it, while the disk is left alone.
WalkInv == at # "idle" /\ ~touched => Walked

\* What is unwanted is so by the predicate and the settings alone.
LEMMA SameUnwanted ==
    ASSUME excluded' = excluded, hiding' = hiding
    PROVE  Unwanted' = Unwanted /\ Unreported' = Unreported
BY DEF Unwanted, Unreported, LeftOut

\* It is paths below the root.
LEMMA UnwantedPaths == BaseInv => Unwanted \subseteq Paths \ {<<>>} /\ Unreported \subseteq Unwanted
<1> SUFFICES ASSUME BaseInv PROVE Unwanted \subseteq Paths \ {<<>>} /\ Unreported \subseteq Unwanted
  OBVIOUS
<1>1. excluded \subseteq Excludable
  BY TypeParts DEF BaseInv, OrderInv, OthersOK
<1> QED
  BY <1>1, ScannerAssumption DEF Unwanted, Unreported, LeftOut

\* What is not unwanted in a directory that is not below anything unwanted.
LEMMA NotExcluded ==
    ASSUME BaseInv, NEW d \in Paths, NEW c \in Children(d), c \notin Unwanted, ~Below(d, Unwanted)
    PROVE  ~Below(c, Unwanted)
<1>1. Unwanted \subseteq Paths
  BY UnwantedPaths
<1> QED
  BY <1>1, PathFacts DEF Below

\* More is below more.
LEMMA BelowMore == \A p, S, T : S \subseteq T /\ Below(p, S) => Below(p, T)
BY DEF Below

\* An entry fails or is excluded.
LEMMA DropsWalk ==
    ASSUME BaseInv, Walked, at = "scan", WalkKeeps, NEW c \in Top.todo, Drops(c),
           newDirectories' = newDirectories, masked' = masked
    PROVE  Walked'
<1>1. TypeInv
  BY DEF BaseInv, OrderInv
<1>2. PICK result : Advanced(c, Top.items, result)
  BY DEF Drops
<1>3. DOMAIN frames' = DOMAIN frames
  BY <1>1, <1>2, AdvancedFrames
<1>4. PICK n \in DOMAIN frames :
         /\ Top = frames[n]
         /\ \A i \in DOMAIN frames : frames'[i].dir = frames[i].dir /\ frames'[i].stats = frames[i].stats
         /\ \A i \in DOMAIN frames : i # n => frames'[i].todo = frames[i].todo
                                              /\ frames'[i].items = frames[i].items
         /\ frames'[n].todo = Top.todo \ {c} /\ frames'[n].items = Top.items
  BY <1>1, <1>2, AdvancedFrames
<1>5. /\ \A i \in DOMAIN frames : frames'[i].items = frames[i].items
      /\ \A i \in DOMAIN frames : frames'[i].todo \subseteq frames[i].todo
      /\ \A i \in DOMAIN frames : \A b \in frames[i].todo : b = c \/ b \in frames'[i].todo
  BY <1>4
<1>6. disk' = disk /\ Unwanted' = Unwanted /\ Unreported' = Unreported /\ newRoot' = newRoot
  BY SameUnwanted DEF WalkKeeps, itemVars
<1>7. excludedPaths' \subseteq Unwanted'
  BY <1>6 DEF Drops, Walked
<1>8. \A p \in Paths : Pending(p)' => Pending(p)
  BY <1>3, <1>5 DEF Pending
<1>9. WalkOpen'
  BY <1>3, <1>4, <1>6, <1>8 DEF WalkOpen, Walked
<1>10. WalkItems'
  BY <1>3, <1>5, <1>6 DEF WalkItems, Walked, AsOnDisk, ItemPaths, Item
<1>11. Skipped \cup {c} \subseteq Skipped'
  BY <1>6 DEF Drops, Skipped
<1>12. WalkCovers'
  <2> SUFFICES ASSUME NEW p \in Paths \ {<<>>}
               PROVE  Pending(p)' \/ Open(p)' \/ disk'[p].kind = "absent" \/ Listed(p)' \/ Below(p, Skipped')
    BY DEF WalkCovers
  <2>1. CASE Pending(p)
    <3>1. PICK i \in DOMAIN frames : \E b \in frames[i].todo : IsPrefix(b, p)
      BY <2>1 DEF Pending
    <3>2. PICK b \in frames[i].todo : IsPrefix(b, p)
      BY <3>1
    <3>3. CASE b = c
      BY <1>11, <3>2, <3>3 DEF Below
    <3>4. CASE b \in frames'[i].todo
      BY <1>3, <3>2, <3>4 DEF Pending
    <3> QED
      BY <1>5, <3>3, <3>4
  <2>2. CASE Open(p)
    BY <1>3, <1>4, <2>2 DEF Open
  <2>3. CASE Listed(p)
    BY <1>3, <1>5, <2>3 DEF Listed, ItemPaths
  <2>4. CASE Below(p, Skipped)
    BY <1>11, <2>4, BelowMore
  <2> QED
    BY <1>6, <2>1, <2>2, <2>3, <2>4 DEF Walked, WalkCovers
<1> QED
  BY <1>6, <1>7, <1>9, <1>10, <1>12 DEF Walked

\* An entry is a file.
LEMMA FileWalk ==
    ASSUME BaseInv, Walked, at = "scan", WalkKeeps, NEW c \in Top.todo, MakesFile(c),
           newDirectories' = newDirectories, masked' = masked
    PROVE  Walked'
<1>1. TypeInv /\ TreeInv
  BY DEF BaseInv, OrderInv
<1> DEFINE items == With(Top.items, c, NewItem(disk[c], revision))
<1>2. Advanced(c, items, Top.result) /\ disk[c].kind = "file" /\ c \notin Unwanted
      /\ excludedPaths' = excludedPaths /\ errorPaths' = errorPaths
  BY DEF MakesFile
<1>3. /\ DOMAIN items = DOMAIN Top.items \cup {c} /\ items[c].stats = disk[c]
      /\ \A p \in DOMAIN Top.items : p # c => items[p] = Top.items[p]
  BY DEF With, NewItem
<1> HIDE DEF items
<1>4. DOMAIN frames' = DOMAIN frames
  BY <1>1, <1>2, AdvancedFrames
<1>5. PICK n \in DOMAIN frames :
         /\ Top = frames[n]
         /\ \A i \in DOMAIN frames : frames'[i].dir = frames[i].dir /\ frames'[i].stats = frames[i].stats
         /\ \A i \in DOMAIN frames : i # n => frames'[i].todo = frames[i].todo
                                              /\ frames'[i].items = frames[i].items
         /\ frames'[n].todo = Top.todo \ {c} /\ frames'[n].items = items
  BY <1>1, <1>2, AdvancedFrames
<1>6. /\ \A i \in DOMAIN frames : frames'[i].todo \subseteq frames[i].todo
      /\ \A i \in DOMAIN frames : \A b \in frames[i].todo : b = c \/ b \in frames'[i].todo
      /\ \A i \in DOMAIN frames : DOMAIN frames[i].items \subseteq DOMAIN frames'[i].items
  BY <1>3, <1>5
<1>7. disk' = disk /\ Unwanted' = Unwanted /\ Unreported' = Unreported /\ newRoot' = newRoot
  BY SameUnwanted DEF WalkKeeps, itemVars
<1>8. Top.dir \in Paths /\ c \in Children(Top.dir) /\ c \in Paths
  BY <1>1, <1>5, StackDomain, PathFacts
<1>9. ~Below(c, Unwanted)
  BY <1>2, <1>5, <1>8, NotExcluded DEF Walked, WalkOpen
<1>10. \A p \in Paths : Pending(p)' => Pending(p)
  BY <1>4, <1>6 DEF Pending
<1>11. WalkOpen'
  BY <1>4, <1>5, <1>7, <1>10 DEF WalkOpen, Walked
<1>12. WalkItems'
  <2>1. \A p \in ItemPaths(newDirectories) : AsOnDisk(Item(newDirectories, p).stats, p)
    BY DEF WalkItems, Walked
  <2>2. ASSUME NEW i \in DOMAIN frames, NEW p \in DOMAIN frames'[i].items
        PROVE  AsOnDisk(frames'[i].items[p].stats, p)
    <3>1. CASE i = n /\ p = c
      BY <1>2, <1>3, <1>5, <1>9, <3>1 DEF AsOnDisk
    <3>2. CASE i # n
      BY <1>5, <2>2, <3>2 DEF Walked, WalkItems
    <3>3. CASE i = n /\ p # c
      <4>1. p \in DOMAIN frames[n].items /\ frames'[i].items[p] = frames[n].items[p]
        BY <1>3, <1>5, <2>2, <3>3
      <4> QED
        BY <4>1 DEF Walked, WalkItems
    <3> QED
      BY <3>1, <3>2, <3>3
  <2> QED
    BY <1>4, <1>7, <2>1, <2>2 DEF WalkItems, AsOnDisk, ItemPaths, Item
<1>13. WalkCovers'
  <2> SUFFICES ASSUME NEW p \in Paths \ {<<>>}
               PROVE  Pending(p)' \/ Open(p)' \/ disk'[p].kind = "absent" \/ Listed(p)' \/ Below(p, Skipped')
    BY DEF WalkCovers
  <2>1. CASE Pending(p)
    <3>1. PICK i \in DOMAIN frames : \E b \in frames[i].todo : IsPrefix(b, p)
      BY <2>1 DEF Pending
    <3>2. PICK b \in frames[i].todo : IsPrefix(b, p)
      BY <3>1
    <3>3. CASE b = c /\ p = c
      BY <1>3, <1>4, <1>5, <3>3 DEF Listed
    <3>4. CASE b = c /\ p # c
      BY <1>1, <1>2, <1>7, <1>8, <3>2, <3>4, TreeFacts
    <3>5. CASE b \in frames'[i].todo
      BY <1>4, <3>2, <3>5 DEF Pending
    <3> QED
      BY <1>6, <3>3, <3>4, <3>5
  <2>2. CASE Open(p)
    BY <1>4, <1>5, <2>2 DEF Open
  <2>3. CASE Listed(p)
    BY <1>4, <1>6, <2>3 DEF Listed, ItemPaths
  <2>4. CASE Below(p, Skipped)
    BY <1>2, <1>7, <2>4 DEF Skipped
  <2> QED
    BY <1>7, <2>1, <2>2, <2>3, <2>4 DEF Walked, WalkCovers
<1> QED
  BY <1>2, <1>7, <1>11, <1>12, <1>13 DEF Walked

\* An entry is a directory that is opened.
LEMMA OpensWalk ==
    ASSUME BaseInv, Walked, at = "scan", WalkKeeps, NEW c \in Top.todo, Opens(c),
           newDirectories' = newDirectories, masked' = masked
    PROVE  Walked'
<1>1. TypeInv /\ TreeInv
  BY DEF BaseInv, OrderInv
<1>2. Pushed(c) /\ disk[c].kind = "dir" /\ c \notin Unwanted
      /\ excludedPaths' = excludedPaths /\ errorPaths' = errorPaths
  BY DEF Opens
<1>3. PICK n \in DOMAIN frames : \E new : PushedAs(c, n, new)
  BY <1>1, <1>2, PushedFrames
<1>4. PICK new :
         /\ Top = frames[n] /\ new \notin DOMAIN frames /\ DOMAIN frames' = DOMAIN frames \cup {new}
         /\ \A i \in DOMAIN frames : frames'[i].dir = frames[i].dir /\ frames'[i].stats = frames[i].stats
                                      /\ frames'[i].items = frames[i].items
         /\ \A i \in DOMAIN frames : i # n => frames'[i].todo = frames[i].todo
         /\ frames'[n].todo = Top.todo \ {c}
         /\ frames'[new].dir = c /\ frames'[new].stats = disk[c]
         /\ frames'[new].todo = {b \in Children(c) : disk[b].kind # "absent"}
         /\ DOMAIN frames'[new].items = {}
  BY <1>3 DEF PushedAs
<1>5. /\ \A i \in DOMAIN frames : frames'[i].todo \subseteq frames[i].todo
      /\ \A i \in DOMAIN frames : \A b \in frames[i].todo : b = c \/ b \in frames'[i].todo
  BY <1>4
<1>6. disk' = disk /\ Unwanted' = Unwanted /\ Unreported' = Unreported /\ newRoot' = newRoot
  BY SameUnwanted DEF WalkKeeps, itemVars
<1>7. Top.dir \in Paths /\ c \in Children(Top.dir) /\ c \in Paths
  BY <1>1, <1>4, StackDomain, PathFacts
<1>8. ~Below(c, Unwanted)
  BY <1>2, <1>4, <1>7, NotExcluded DEF Walked, WalkOpen
<1>9. Pending(c)
  BY <1>4, <1>7, PathFacts DEF Pending
<1>10. \A p \in Paths : Pending(p)' => Pending(p)
  <2> SUFFICES ASSUME NEW p \in Paths, NEW i \in DOMAIN frames', NEW b \in frames'[i].todo, IsPrefix(b, p)
               PROVE  Pending(p)
    BY DEF Pending
  <2>1. CASE i \in DOMAIN frames
    BY <1>5, <2>1 DEF Pending
  <2>2. CASE i = new
    <3>1. b \in Children(c)
      BY <1>4, <2>2
    <3>2. IsPrefix(c, p)
      BY <1>7, <3>1, PathFacts
    <3> QED
      BY <1>4, <3>2 DEF Pending
  <2> QED
    BY <1>4, <2>1, <2>2
<1>11. WalkOpen'
  <2>1. c \notin DOMAIN newDirectories
    BY <1>7, <1>9 DEF Walked, WalkOpen
  <2>2. \A i \in DOMAIN frames :
         /\ frames'[i].stats = disk[frames'[i].dir] /\ disk[frames'[i].dir].kind = "dir"
         /\ ~Below(frames'[i].dir, Unwanted)
         /\ frames'[i].dir \notin DOMAIN newDirectories
    BY <1>4 DEF Walked, WalkOpen
  <2>3. \A i \in DOMAIN frames' :
         /\ frames'[i].stats = disk[frames'[i].dir] /\ disk[frames'[i].dir].kind = "dir"
         /\ ~Below(frames'[i].dir, Unwanted)
         /\ frames'[i].dir \notin DOMAIN newDirectories
    BY <1>2, <1>4, <1>8, <2>1, <2>2
  <2> QED
    BY <1>6, <1>10, <2>3 DEF Walked, WalkOpen
<1>12. WalkItems'
  BY <1>4, <1>6 DEF WalkItems, Walked, AsOnDisk, ItemPaths, Item
<1>13. WalkCovers'
  <2> SUFFICES ASSUME NEW p \in Paths \ {<<>>}
               PROVE  Pending(p)' \/ Open(p)' \/ disk'[p].kind = "absent" \/ Listed(p)' \/ Below(p, Skipped')
    BY DEF WalkCovers
  <2>1. CASE Pending(p)
    <3>1. PICK i \in DOMAIN frames : \E b \in frames[i].todo : IsPrefix(b, p)
      BY <2>1 DEF Pending
    <3>2. PICK b \in frames[i].todo : IsPrefix(b, p)
      BY <3>1
    <3>3. CASE b = c /\ p = c
      BY <1>4, <3>3 DEF Open
    <3>4. CASE b = c /\ p # c
      <4>1. PICK k \in Children(c) : IsPrefix(k, p)
        BY <1>7, <3>2, <3>4, PathFacts
      <4>2. k \in Paths
        BY <1>7, PathFacts
      <4>3. CASE disk[k].kind = "absent"
        BY <1>1, <1>6, <4>1, <4>2, <4>3, TreeFacts
      <4>4. CASE disk[k].kind # "absent"
        <5>1. new \in DOMAIN frames' /\ k \in frames'[new].todo
          BY <1>4, <4>4
        <5> QED
          BY <4>1, <5>1 DEF Pending
      <4> QED
        BY <4>3, <4>4
    <3>5. CASE b \in frames'[i].todo
      BY <1>4, <3>2, <3>5 DEF Pending
    <3> QED
      BY <1>5, <3>3, <3>4, <3>5
  <2>2. CASE Open(p)
    BY <1>4, <2>2 DEF Open
  <2>3. CASE Listed(p)
    BY <1>4, <2>3 DEF Listed, ItemPaths
  <2>4. CASE Below(p, Skipped)
    BY <1>2, <1>6, <2>4 DEF Skipped
  <2> QED
    BY <1>6, <2>1, <2>2, <2>3, <2>4 DEF Walked, WalkCovers
<1> QED
  BY <1>2, <1>6, <1>11, <1>12, <1>13 DEF Walked

\* Visiting an entry keeps what is known of the walk.
LEMMA VisitWalk == BaseInv /\ WalkInv /\ VisitEntry => WalkInv'
<1> SUFFICES ASSUME BaseInv, WalkInv, VisitEntry, ~touched' PROVE Walked'
  BY DEF WalkInv
<1>1. TypeInv
  BY DEF BaseInv, OrderInv
<1>2. /\ at = "scan" /\ WalkKeeps
      /\ newDirectories' = newDirectories /\ masked' = masked
  BY <1>1, VisitSteps
<1>3. Walked
  BY <1>2 DEF WalkInv, WalkKeeps
<1>4. PICK c \in Top.todo : Drops(c) \/ MakesFile(c) \/ Opens(c)
  BY <1>1, VisitSteps
<1> QED
  BY <1>2, <1>3, <1>4, DropsWalk, FileWalk, OpensWalk
\* The frames when a call has ended: the others, and the item of the directory if it was
\* made.
LeftAs(n, made) ==
    /\ Top = frames[n] /\ DOMAIN frames' = DOMAIN frames \ {n}
    /\ \A i \in DOMAIN frames' :
         /\ frames'[i].dir = frames[i].dir /\ frames'[i].stats = frames[i].stats
         /\ frames'[i].todo = frames[i].todo
         /\ DOMAIN frames[i].items \subseteq DOMAIN frames'[i].items
         /\ \A p \in DOMAIN frames'[i].items :
              \/ p \in DOMAIN frames[i].items /\ frames'[i].items[p] = frames[i].items[p]
              \/ made /\ p = Top.dir /\ frames'[i].items[p].stats = Top.stats
    /\ made /\ Top.dir # <<>> => \E i \in DOMAIN frames' : Top.dir \in DOMAIN frames'[i].items

\* Leaving a directory leaves one of the frames, with its item made or not.
LEMMA LeavesFrames ==
    ASSUME BaseInv, at = "scan", NEW result, NEW made \in BOOLEAN, Leaves(result, made)
    PROVE  \E n \in DOMAIN frames : LeftAs(n, made)
<1>1. TypeInv /\ StackInv /\ OrderInv
  BY DEF BaseInv, OrderInv
<1>2. CASE Len(frames) = 1 /\ frames' = <<>>
  <2>1. DOMAIN frames = {1} /\ Top = frames[1]
    <3>1. 1..1 = {1}
      OBVIOUS
    <3> QED
      BY <1>1, <1>2, <3>1, StackDomain
  <2>2. Top.dir = <<>>
    BY <1>1, <2>1 DEF StackInv
  <2>3. DOMAIN frames' = {}
    BY <1>2, EmptySeq
  <2>4. LeftAs(1, made)
    BY <2>1, <2>2, <2>3 DEF LeftAs
  <2> QED
    BY <2>1, <2>4
<1>3. CASE Returned(result, made)
  <2>1. PICK n, up \in DOMAIN frames :
             /\ Top = frames[n] /\ up # n /\ DOMAIN frames' = DOMAIN frames \ {n}
             /\ \A i \in DOMAIN frames' : frames'[i].dir = frames[i].dir /\ frames'[i].stats = frames[i].stats
                                           /\ frames'[i].todo = frames[i].todo
             /\ \A i \in DOMAIN frames' : i # up => frames'[i].items = frames[i].items
             /\ made => frames'[up].items = With(frames[up].items, Top.dir, NewItem(Top.stats, revision))
             /\ ~made => frames'[up].items = frames[up].items
    BY <1>1, <1>3, ReturnedFrames
  <2>2. CASE ~made
    <3>1. \A i \in DOMAIN frames' : frames'[i].items = frames[i].items
      BY <2>1, <2>2
    <3> QED
      BY <2>1, <2>2, <3>1 DEF LeftAs
  <2>3. CASE made
    <3>1. /\ DOMAIN frames'[up].items = DOMAIN frames[up].items \cup {Top.dir}
          /\ \A p \in DOMAIN frames[up].items : p # Top.dir => frames'[up].items[p] = frames[up].items[p]
          /\ frames'[up].items[Top.dir].stats = Top.stats
      BY <2>1, <2>3 DEF With, NewItem
    <3>2. ASSUME NEW i \in DOMAIN frames'
          PROVE  /\ DOMAIN frames[i].items \subseteq DOMAIN frames'[i].items
                 /\ \A p \in DOMAIN frames'[i].items :
                      \/ p \in DOMAIN frames[i].items /\ frames'[i].items[p] = frames[i].items[p]
                      \/ made /\ p = Top.dir /\ frames'[i].items[p].stats = Top.stats
      <4>1. CASE i # up
        BY <2>1, <4>1
      <4>2. CASE i = up
        BY <2>3, <3>1, <4>2
      <4> QED
        BY <4>1, <4>2
    <3>3. \E i \in DOMAIN frames' : Top.dir \in DOMAIN frames'[i].items
      BY <2>1, <3>1
    <3> QED
      BY <2>1, <3>2, <3>3 DEF LeftAs
  <2> QED
    BY <2>2, <2>3
<1> QED
  BY <1>2, <1>3 DEF Leaves

\* The directories that are open and the items of the frames when a call has ended.
LEMMA LeavesWalk ==
    ASSUME BaseInv, Walked, at = "scan", WalkKeeps, NEW n \in DOMAIN frames,
           NEW made \in BOOLEAN, LeftAs(n, made)
    PROVE  /\ \A i \in DOMAIN frames' :
                /\ frames'[i].stats = disk[frames'[i].dir] /\ disk[frames'[i].dir].kind = "dir"
                /\ ~Below(frames'[i].dir, Unwanted)
                /\ frames'[i].dir \notin DOMAIN newDirectories /\ frames'[i].dir # Top.dir
           /\ \A p \in Paths : Pending(p)' => Pending(p)
           /\ \A p \in Paths : Pending(p)' => p # Top.dir
           /\ Top.dir \in Paths /\ Top.dir \notin DOMAIN newDirectories
           /\ \A i \in DOMAIN frames' : \A p \in DOMAIN frames'[i].items :
                AsOnDisk(frames'[i].items[p].stats, p)
           /\ \A p \in Paths \ {<<>>} :
                Pending(p) => Pending(p)' \/ \E b \in Top.todo : IsPrefix(b, p)
           /\ \A p \in Paths \ {<<>>} :
                Open(p) => Open(p)' \/ p = Top.dir
           /\ \A p \in Paths \ {<<>>} :
                Listed(p) => \/ p \in ItemPaths(newDirectories)
                             \/ \E i \in DOMAIN frames' : p \in DOMAIN frames'[i].items
                             \/ p \in DOMAIN Top.items
<1>1. TypeInv /\ StackInv
  BY DEF BaseInv, OrderInv
<1>2. /\ Top = frames[n] /\ DOMAIN frames' = DOMAIN frames \ {n}
      /\ \A i \in DOMAIN frames' :
           /\ frames'[i].dir = frames[i].dir /\ frames'[i].stats = frames[i].stats
           /\ frames'[i].todo = frames[i].todo
           /\ DOMAIN frames[i].items \subseteq DOMAIN frames'[i].items
  BY DEF LeftAs
<1>3. /\ disk[Top.dir] = Top.stats /\ Top.stats.kind = "dir" /\ ~Below(Top.dir, Unwanted)
      /\ Top.dir \in Paths /\ Top.dir \notin DOMAIN newDirectories
  BY <1>1, <1>2, StackDomain DEF Walked, WalkOpen
<1>4. ASSUME NEW i \in DOMAIN frames' PROVE frames[i].dir # Top.dir
  <2>1. i \in DOMAIN frames /\ i # n
    BY <1>2
  <2>2. i \in 1..n \/ n \in 1..i
    BY <1>1, <2>1, StackDomain
  <2> QED
    BY <1>1, <1>2, <2>1, <2>2 DEF StackInv
<1>5. \A i \in DOMAIN frames' :
        /\ frames'[i].stats = disk[frames'[i].dir] /\ disk[frames'[i].dir].kind = "dir"
        /\ ~Below(frames'[i].dir, Unwanted)
        /\ frames'[i].dir \notin DOMAIN newDirectories /\ frames'[i].dir # Top.dir
  BY <1>2, <1>4 DEF Walked, WalkOpen
<1>6. \A p \in Paths : Pending(p)' => Pending(p)
  BY <1>2 DEF Pending
<1>7. \A p \in Paths : Pending(p)' => p # Top.dir
  BY <1>1, <1>2 DEF Pending, StackInv
<1>8. ASSUME NEW i \in DOMAIN frames', NEW p \in DOMAIN frames'[i].items
      PROVE  AsOnDisk(frames'[i].items[p].stats, p)
  <2>1. CASE p \in DOMAIN frames[i].items /\ frames'[i].items[p] = frames[i].items[p]
    BY <1>2, <2>1 DEF Walked, WalkItems
  <2>2. CASE p = Top.dir /\ frames'[i].items[p].stats = Top.stats
    BY <1>3, <2>2 DEF AsOnDisk
  <2> QED
    BY <1>8, <2>1, <2>2 DEF LeftAs
<1>9. \A p \in Paths \ {<<>>} : Pending(p) => Pending(p)' \/ \E b \in Top.todo : IsPrefix(b, p)
  BY <1>2 DEF Pending
<1>10. \A p \in Paths \ {<<>>} : Open(p) => Open(p)' \/ p = Top.dir
  BY <1>2 DEF Open
<1>11. \A p \in Paths \ {<<>>} :
                Listed(p) => \/ p \in ItemPaths(newDirectories)
                             \/ \E i \in DOMAIN frames' : p \in DOMAIN frames'[i].items
                             \/ p \in DOMAIN Top.items
  BY <1>2 DEF Listed
<1> QED
  BY <1>3, <1>5, <1>6, <1>7, <1>8, <1>9, <1>10, <1>11

\* A directory has been read.
LEMMA EndWalk == BaseInv /\ WalkInv /\ EndDirectory => WalkInv'
<1> SUFFICES ASSUME BaseInv, WalkInv, EndDirectory, ~touched' PROVE Walked'
  BY DEF WalkInv
<1>1. TypeInv
  BY DEF BaseInv, OrderInv
<1>2. at = "scan" /\ Top.todo = {} /\ WalkKeeps /\ excludedPaths' = excludedPaths /\ HasRead
  BY <1>1, EndSteps
<1>3. Walked
  BY <1>2 DEF WalkInv, WalkKeeps
<1>4. newDirectories' = With(newDirectories, Top.dir, Top.items) /\ masked' = masked
  BY <1>2 DEF HasRead
<1>5. PICK made \in BOOLEAN :
        /\ \E result : Leaves(result, made)
        /\ errorPaths \subseteq errorPaths' /\ (~made => Top.dir \in errorPaths')
  BY <1>2 DEF HasRead
<1>6. PICK n \in DOMAIN frames : LeftAs(n, made)
  BY <1>2, <1>5, LeavesFrames
<1>7. disk' = disk /\ Unwanted' = Unwanted /\ Unreported' = Unreported /\ newRoot' = newRoot
  BY <1>2, SameUnwanted DEF WalkKeeps, itemVars
<1>8. DOMAIN newDirectories' = DOMAIN newDirectories \cup {Top.dir}
  BY <1>4 DEF With
<1>9. Top.dir \in Paths /\ Top.dir \notin DOMAIN newDirectories
      /\ \A p \in Paths : Pending(p)' => Pending(p) /\ p # Top.dir
  BY <1>2, <1>3, <1>6, LeavesWalk
<1>10. WalkOpen'
  <2>1. \A i \in DOMAIN frames' :
                /\ frames'[i].stats = disk[frames'[i].dir] /\ disk[frames'[i].dir].kind = "dir"
                /\ ~Below(frames'[i].dir, Unwanted)
                /\ frames'[i].dir \notin DOMAIN newDirectories /\ frames'[i].dir # Top.dir
    BY <1>2, <1>3, <1>6, LeavesWalk
  <2>2. \A p \in Paths : Pending(p)' => p \notin DOMAIN newDirectories'
    BY <1>3, <1>8, <1>9 DEF Walked, WalkOpen
  <2> QED
    BY <1>7, <1>8, <2>1, <2>2 DEF WalkOpen
<1>11. /\ \A q \in ItemPaths(newDirectories) :
            q \in ItemPaths(newDirectories') /\ Item(newDirectories', q) = Item(newDirectories, q)
       /\ \A q \in DOMAIN Top.items :
            q \in ItemPaths(newDirectories') /\ Item(newDirectories', q) = Top.items[q]
       /\ \A q \in ItemPaths(newDirectories') : q \in ItemPaths(newDirectories) \/ q \in DOMAIN Top.items
  <2>1. \A q \in DOMAIN Top.items : q \in Paths \ {<<>>} /\ Parent(q) = Top.dir
    BY <1>1, <1>2, <1>9, StackDomain, PathFacts
  <2>2. \A q \in ItemPaths(newDirectories) : q \in Paths \ {<<>>} /\ Parent(q) # Top.dir
    BY <1>9 DEF ItemPaths
  <2>3. \A q \in ItemPaths(newDirectories') : q \in Paths \ {<<>>}
    BY DEF ItemPaths
  <2> QED
    BY <1>4, <2>1, <2>2, <2>3, WithItems
<1>12. WalkItems'
  <2>1. \A i \in DOMAIN frames' : \A p \in DOMAIN frames'[i].items :
          AsOnDisk(frames'[i].items[p].stats, p)
    BY <1>2, <1>3, <1>6, LeavesWalk
  <2>2. ASSUME NEW p \in ItemPaths(newDirectories') PROVE AsOnDisk(Item(newDirectories', p).stats, p)
    <3>1. CASE p \in ItemPaths(newDirectories)
      BY <1>3, <1>11, <3>1 DEF Walked, WalkItems
    <3>2. CASE p \in DOMAIN Top.items
      <4>1. AsOnDisk(Top.items[p].stats, p)
        BY <1>3, <1>6, <3>2 DEF LeftAs, Walked, WalkItems
      <4> QED
        BY <1>11, <3>2, <4>1
    <3> QED
      BY <1>11, <3>1, <3>2
  <2> QED
    BY <1>7, <2>1, <2>2 DEF WalkItems, AsOnDisk
<1>13. Skipped \subseteq Skipped'
  BY <1>2, <1>4, <1>5, <1>7 DEF Skipped
<1>14. WalkCovers'
  <2> SUFFICES ASSUME NEW p \in Paths \ {<<>>}
               PROVE  Pending(p)' \/ Open(p)' \/ disk'[p].kind = "absent" \/ Listed(p)' \/ Below(p, Skipped')
    BY DEF WalkCovers
  <2>1. CASE Pending(p)
    BY <1>2, <1>3, <1>6, <2>1, LeavesWalk
  <2>2. CASE Open(p)
    <3>1. CASE p = Top.dir /\ made
      <4>1. \E i \in DOMAIN frames' : p \in DOMAIN frames'[i].items
        BY <1>6, <3>1 DEF LeftAs
      <4> QED
        BY <4>1 DEF Listed
    <3>2. CASE p = Top.dir /\ ~made
      BY <1>5, <1>9, <3>2, PathFacts DEF Below, Skipped
    <3> QED
      BY <1>2, <1>3, <1>6, <2>2, <3>1, <3>2, LeavesWalk
  <2>3. CASE Listed(p)
    <3>1. \/ p \in ItemPaths(newDirectories)
          \/ \E i \in DOMAIN frames' : p \in DOMAIN frames'[i].items
          \/ p \in DOMAIN Top.items
      BY <1>2, <1>3, <1>6, <2>3, LeavesWalk
    <3> QED
      BY <1>11, <3>1 DEF Listed
  <2>4. CASE Below(p, Skipped)
    BY <1>13, <2>4, BelowMore
  <2> QED
    BY <1>3, <1>7, <2>1, <2>2, <2>3, <2>4 DEF Walked, WalkCovers
<1> QED
  BY <1>2, <1>3, <1>7, <1>10, <1>12, <1>14 DEF Walked

\* A directory cannot be read: what is in it is below something reported or hidden.
LEMMA ReaddirWalk == BaseInv /\ WalkInv /\ ReaddirFails => WalkInv'
<1> SUFFICES ASSUME BaseInv, WalkInv, ReaddirFails, ~touched', at' # "idle" PROVE Walked'
  BY DEF WalkInv
<1>1. TypeInv
  BY DEF BaseInv, OrderInv
<1>2. at = "scan" /\ WalkKeeps /\ excludedPaths' = excludedPaths /\ CannotRead
  BY <1>1, ReaddirSteps DEF GiveUp
<1>3. Walked
  BY <1>2 DEF WalkInv, WalkKeeps
<1>4. newDirectories' = newDirectories
  BY <1>2 DEF CannotRead
<1>5. PICK made \in BOOLEAN : \E result : Leaves(result, made)
  BY <1>2 DEF CannotRead
<1>6. PICK n \in DOMAIN frames : LeftAs(n, made)
  BY <1>2, <1>5, LeavesFrames
<1>7. disk' = disk /\ Unwanted' = Unwanted /\ Unreported' = Unreported /\ newRoot' = newRoot
  BY <1>2, SameUnwanted DEF WalkKeeps, itemVars
<1>8. Skipped \cup {Top.dir} \subseteq Skipped'
  BY <1>2, <1>7 DEF CannotRead, Skipped
<1>9. Top.dir \in Paths /\ \A p \in Paths : Pending(p)' => Pending(p)
  BY <1>2, <1>3, <1>6, LeavesWalk
<1>10. WalkOpen'
  <2>1. \A i \in DOMAIN frames' :
                /\ frames'[i].stats = disk[frames'[i].dir] /\ disk[frames'[i].dir].kind = "dir"
                /\ ~Below(frames'[i].dir, Unwanted)
                /\ frames'[i].dir \notin DOMAIN newDirectories
    BY <1>2, <1>3, <1>6, LeavesWalk
  <2> QED
    BY <1>3, <1>4, <1>7, <1>9, <2>1 DEF Walked, WalkOpen
<1>11. WalkItems'
  <2>1. \A i \in DOMAIN frames' : \A p \in DOMAIN frames'[i].items :
          AsOnDisk(frames'[i].items[p].stats, p)
    BY <1>2, <1>3, <1>6, LeavesWalk
  <2> QED
    BY <1>3, <1>4, <1>7, <2>1 DEF Walked, WalkItems, AsOnDisk, ItemPaths, Item
<1>12. \A p \in Paths : IsPrefix(Top.dir, p) => Below(p, Skipped')
  BY <1>8 DEF Below
<1>13. \A b \in Top.todo \cup DOMAIN Top.items : b \in Paths /\ IsPrefix(Top.dir, b)
  <2>1. \A b \in Top.todo \cup DOMAIN Top.items : b \in Children(Top.dir)
    BY <1>1, <1>2, StackDomain
  <2> QED
    BY <1>9, <2>1, PathFacts
<1>14. WalkCovers'
  <2> SUFFICES ASSUME NEW p \in Paths \ {<<>>}
               PROVE  Pending(p)' \/ Open(p)' \/ disk'[p].kind = "absent" \/ Listed(p)' \/ Below(p, Skipped')
    BY DEF WalkCovers
  <2>1. CASE Pending(p)
    <3>1. CASE \E b \in Top.todo : IsPrefix(b, p)
      BY <1>9, <1>12, <1>13, <3>1, PathFacts
    <3> QED
      BY <1>2, <1>3, <1>6, <2>1, <3>1, LeavesWalk
  <2>2. CASE Open(p)
    <3>1. CASE p = Top.dir
      BY <1>12, <3>1, PathFacts
    <3> QED
      BY <1>2, <1>3, <1>6, <2>2, <3>1, LeavesWalk
  <2>3. CASE Listed(p)
    <3>1. CASE p \in DOMAIN Top.items
      BY <1>12, <1>13, <3>1
    <3>2. CASE p \in ItemPaths(newDirectories) \/ \E i \in DOMAIN frames' : p \in DOMAIN frames'[i].items
      BY <1>4, <3>2 DEF Listed, ItemPaths
    <3> QED
      BY <1>2, <1>3, <1>6, <2>3, <3>1, <3>2, LeavesWalk
  <2>4. CASE Below(p, Skipped)
    BY <1>8, <2>4, BelowMore
  <2> QED
    BY <1>3, <1>7, <2>1, <2>2, <2>3, <2>4 DEF Walked, WalkCovers
<1> QED
  BY <1>2, <1>3, <1>7, <1>10, <1>11, <1>14 DEF Walked
\* A walk begins: all that is in the root directory is still to be visited.
LEMMA StartWalk ==
    ASSUME BaseInv, NEW opt, StartScan(opt)
    PROVE  Walked'
<1>1. TypeInv /\ TreeInv /\ <<>> \in Paths
  BY ScannerAssumption DEF BaseInv, OrderInv
<1> DEFINE f == Frame(<<>>, disk[<<>>])
<1>2. /\ f.dir = <<>> /\ f.stats = disk[<<>>]
      /\ f.todo = {c \in Children(<<>>) : disk[c].kind # "absent"} /\ DOMAIN f.items = {}
  BY EmptySeq DEF Frame
<1>3. frames' = <<f>>
  BY DEF StartScan
<1> HIDE DEF f
<1>4. DOMAIN frames' = {1} /\ frames'[1] = f
  BY <1>3
<1>5. /\ disk' = disk /\ Unwanted' = Unwanted /\ newRoot' = disk[<<>>]
      /\ excludedPaths' = {} /\ newDirectories' = <<>>
  BY SameUnwanted DEF StartScan
<1>6. DOMAIN newDirectories' = {}
  BY <1>5, EmptySeq
<1>7. ~Below(<<>>, Unwanted)
  <2>1. Unwanted \subseteq Paths \ {<<>>}
    BY UnwantedPaths
  <2> QED
    BY <1>1, <2>1, PathFacts DEF Below
<1>8. WalkOpen'
  <2>1. disk[<<>>].kind = "dir"
    BY <1>1 DEF TreeInv, IsTree
  <2> QED
    BY <1>2, <1>4, <1>5, <1>6, <1>7, <2>1 DEF WalkOpen
<1>9. WalkItems'
  BY <1>2, <1>4, <1>6 DEF WalkItems, ItemPaths
<1>10. WalkCovers'
  <2> SUFFICES ASSUME NEW p \in Paths \ {<<>>}, disk[p].kind # "absent" PROVE Pending(p)'
    BY <1>5 DEF WalkCovers
  <2>1. PICK c \in Children(<<>>) : IsPrefix(c, p)
    BY <1>1, PathFacts
  <2>2. c \in Paths
    BY <1>1, PathFacts
  <2>3. disk[c].kind # "absent"
    BY <1>1, <2>1, <2>2, TreeFacts
  <2> QED
    BY <1>2, <1>4, <2>1, <2>3 DEF Pending
<1> QED
  BY <1>5, <1>8, <1>9, <1>10 DEF Walked

\* Every step keeps what is known of the walk.
LEMMA WalkNext == BaseInv /\ WalkInv /\ [Next]_vars => WalkInv'
<1> SUFFICES ASSUME BaseInv, WalkInv, [Next]_vars PROVE WalkInv'
  OBVIOUS
<1>1. CASE Scan
  <2>1. CASE ScanRefused
    BY <2>1 DEF ScanRefused, WalkInv
  <2>2. ASSUME NEW opt, StartFails(opt) PROVE WalkInv'
    BY <2>2 DEF StartFails, WalkInv
  <2>3. ASSUME NEW opt, StartScan(opt) PROVE WalkInv'
    BY <2>3, StartWalk DEF WalkInv
  <2>4. CASE Abort
    BY <2>4 DEF Abort, GiveUp, WalkInv
  <2>5. CASE Finish
    BY <2>5, FinishSteps DEF Finished, WalkInv
  <2> QED
    BY <1>1, <2>1, <2>2, <2>3, <2>4, <2>5, VisitWalk, EndWalk, ReaddirWalk DEF Scan
<1>2. CASE Edits
  BY <1>2 DEF Edits, UpdateItem, RemoveItem, SetUserInfo, SetExclusionPredicate,
               SetHiding, Edit, WalkInv
<1>3. CASE Environment
  BY <1>3, EnvironmentOrder DEF BaseInv, ChangeKeeps, WalkInv
<1>4. CASE UNCHANGED vars
  <2>1. UNCHANGED <<disk, Unwanted, Unreported, at, newRoot, newDirectories, excludedPaths, masked,
                    frames, errorPaths, touched>>
    BY <1>4, SameUnwanted DEF vars, itemVars, localVars
  <2> QED
    BY <2>1 DEF WalkInv, Walked, WalkOpen, WalkItems, WalkCovers, Pending, Open, Listed, Skipped,
                AsOnDisk, ItemPaths, Item
<1> QED
  BY <1>1, <1>2, <1>3, <1>4 DEF Next

\* What a walk that was not disturbed has found when it is over.
LEMMA WhatWasFound ==
    ASSUME BaseInv, WalkInv, at = "finish", ~touched
    PROVE  /\ newRoot = disk[<<>>] /\ excludedPaths \subseteq Unwanted
           /\ \A p \in ItemPaths(newDirectories) : AsOnDisk(Item(newDirectories, p).stats, p)
           /\ \A p \in Paths \ {<<>>} :
                disk[p].kind = "absent" \/ p \in ItemPaths(newDirectories) \/ Below(p, Skipped)
<1>1. DOMAIN frames = {}
  BY StackDomain DEF BaseInv, OrderInv
<1> QED
  BY <1>1 DEF WalkInv, Walked, WalkItems, WalkCovers, Pending, Open, Listed
-----------------------------------------------------------------------------
(***************************************************************************)
(* What a scan that nobody disturbed accounts for.                         *)
(***************************************************************************)
AccountsInv == Accounts(patched)

\* A finished scan that nobody disturbed accounts for every path.
LEMMA FinishAccounts == BaseInv /\ WalkInv /\ Finish => AccountsInv'
<1> SUFFICES ASSUME BaseInv, WalkInv, Finish, ~touched', NEW p \in Paths \ {<<>>}
             PROVE  IsAccountedFor(p, patched)'
  BY DEF AccountsInv, Accounts
<1>1. Finished
  BY FinishSteps
<1>2. /\ at = "finish" /\ ~touched /\ disk' = disk /\ Unwanted' = Unwanted /\ Unreported' = Unreported
      /\ report'.errors = errorPaths /\ report'.excluded = excludedPaths /\ patched' = masked
  BY <1>1, SameUnwanted DEF Finished
<1>3. /\ \A q \in ItemPaths(newDirectories) : AsOnDisk(Item(newDirectories, q).stats, q)
      /\ disk[p].kind = "absent" \/ p \in ItemPaths(newDirectories) \/ Below(p, Skipped)
  BY <1>2, WhatWasFound
<1>4. /\ ItemPaths(directories') = ItemPaths(newDirectories)
      /\ \A q \in ItemPaths(newDirectories) : Item(directories', q).stats = Item(newDirectories, q).stats
  BY <1>1, FinishFacts DEF BaseInv
<1>5. Skipped = report'.errors \cup report'.excluded \cup Unreported' \cup patched'
  BY <1>2 DEF Skipped
<1>6. CASE p \in ItemPaths(newDirectories)
  <2>1. p \in ItemPaths(directories') /\ AsOnDisk(Item(directories', p).stats, p)
    BY <1>3, <1>4, <1>6
  <2> QED
    BY <1>2, <2>1 DEF AsOnDisk, IsAccountedFor
<1>7. CASE p \notin ItemPaths(newDirectories)
  <2>1. disk'[p].kind = "absent" \/ Below(p, report'.errors \cup report'.excluded \cup Unreported' \cup patched')
    BY <1>2, <1>3, <1>5, <1>7
  <2>2. p \notin ItemPaths(directories')
    BY <1>4, <1>7
  <2> QED
    BY <2>1, <2>2 DEF IsAccountedFor
<1> QED
  BY <1>6, <1>7

\* Every step keeps the accounts of the last scan.
LEMMA AccountsNext == BaseInv /\ WalkInv /\ AccountsInv /\ [Next]_vars => AccountsInv'
<1> SUFFICES ASSUME BaseInv, WalkInv, AccountsInv, [Next]_vars PROVE AccountsInv'
  OBVIOUS
<1>1. NoReport.nil = TRUE
  BY DEF NoReport, NoChange
<1>2. CASE Scan
  <2>1. ASSUME report' = NoReport PROVE AccountsInv'
    BY <1>1, <2>1 DEF AccountsInv, Accounts
  <2>2. ASSUME at' # "idle" PROVE AccountsInv'
    BY <2>2 DEF AccountsInv, Accounts
  <2>3. ScanRefused => report' = NoReport
    BY DEF ScanRefused
  <2>4. \A opt : StartFails(opt) \/ StartScan(opt) => report' = NoReport
    BY DEF StartFails, StartScan
  <2>5. Abort => report' = NoReport
    BY DEF Abort, GiveUp
  <2>6. VisitEntry => at' # "idle"
    BY DEF VisitEntry
  <2>7. EndDirectory => at' # "idle"
    BY DEF EndDirectory
  <2>8. ReaddirFails => at' # "idle" \/ report' = NoReport
    BY DEF ReaddirFails, GiveUp
  <2> QED
    BY <1>2, <2>1, <2>2, <2>3, <2>4, <2>5, <2>6, <2>7, <2>8, FinishAccounts DEF Scan
<1>3. CASE Edits
  <2>1. ASSUME touched' = TRUE PROVE AccountsInv'
    BY <2>1 DEF AccountsInv, Accounts
  <2>2. ASSUME NEW p, SetUserInfo(p) PROVE AccountsInv'
    <3>1. /\ EditKeeps /\ report' = report /\ touched' = touched
          /\ ItemPaths(directories') = ItemPaths(directories)
          /\ \A q \in ItemPaths(directories) : Item(directories', q).stats = Item(directories, q).stats
          /\ patched' = patched /\ Unwanted' = Unwanted /\ Unreported' = Unreported
      BY <2>2, InfoFacts, SameUnwanted DEF BaseInv
    <3>2. at = "idle" /\ disk' = disk
      BY <3>1 DEF EditKeeps
    <3>3. \A q \in Paths : IsAccountedFor(q, patched)' <=> IsAccountedFor(q, patched)
      BY <3>1, <3>2 DEF IsAccountedFor
    <3> QED
      BY <3>1, <3>2, <3>3 DEF AccountsInv, Accounts
  <2>3. \A p : UpdateItem(p) \/ RemoveItem(p) => touched' = TRUE
    BY DEF UpdateItem, RemoveItem, Edit
  <2>4. \A set : SetExclusionPredicate(set) \/ SetHiding(set) => touched' = TRUE
    BY DEF SetExclusionPredicate, SetHiding, Edit
  <2> QED
    BY <1>3, <2>1, <2>2, <2>3, <2>4 DEF Edits
<1>4. CASE Environment
  BY <1>4, EnvironmentOrder DEF BaseInv, ChangeKeeps, AccountsInv, Accounts
<1>5. CASE UNCHANGED vars
  <2>1. UNCHANGED <<disk, Unwanted, Unreported, directories, at, report, touched, patched>>
    BY <1>5, SameUnwanted DEF vars, itemVars
  <2> QED
    BY <2>1 DEF AccountsInv, Accounts, IsAccountedFor, ItemPaths, Item
<1> QED
  BY <1>2, <1>3, <1>4, <1>5 DEF Next

\* Before the first scan there is no walk, and there are no accounts to keep.
LEMMA AccountsInit == Init => WalkInv /\ AccountsInv
BY DEF Init, WalkInv, AccountsInv, Accounts, NoReport, NoChange

\* A scan that nobody disturbed accounts for every path of the disk: it is in the
\* snapshot as it is, or not there, or at or below something that the scan reports as
\* failed or excluded, or hid, or whose name it leaves out by its settings without a
\* report; and nothing that is left out or excluded is in the snapshot.  And every
\* snapshot can be walked.
THEOREM ScansAreComplete == Spec => []ScanIsComplete
<1>1. ContentsInv /\ AccountsInv => ScanIsComplete
  BY DEF ContentsInv, AccountsInv, ScanIsComplete
<1> QED
  BY <1>1, BaseInit, BaseNext, ContentsInit, ContentsNext, AccountsInit, AccountsNext, WalkNext, PTL
     DEF Spec
-----------------------------------------------------------------------------
(***************************************************************************)
(* When nothing has changed since the last scan, the snapshot is the disk. *)
(***************************************************************************)
QuietInv ==
    /\ touched => drift
    /\ ~drift =>
         /\ root = disk[<<>>]
         /\ \A p \in Paths \ {<<>>} :
              p \in ItemPaths(directories) <=> disk[p].kind # "absent" /\ ~Below(p, Unwanted)
         /\ \A p \in ItemPaths(directories) : Item(directories, p).stats = disk[p]

\* A walk that failed nowhere has found what an undisturbed disk holds.
LEMMA FoundAll ==
    ASSUME BaseInv, WalkInv, at = "finish", ~touched, errorPaths = {}, masked = {}
    PROVE  /\ newRoot = disk[<<>>]
           /\ \A p \in Paths \ {<<>>} :
                p \in ItemPaths(newDirectories) <=> disk[p].kind # "absent" /\ ~Below(p, Unwanted)
           /\ \A p \in ItemPaths(newDirectories) : Item(newDirectories, p).stats = disk[p]
<1>1. /\ newRoot = disk[<<>>] /\ excludedPaths \subseteq Unwanted
      /\ \A p \in ItemPaths(newDirectories) : AsOnDisk(Item(newDirectories, p).stats, p)
      /\ \A p \in Paths \ {<<>>} :
           disk[p].kind = "absent" \/ p \in ItemPaths(newDirectories) \/ Below(p, Skipped)
  BY WhatWasFound
<1>2. Skipped \subseteq Unwanted
  BY <1>1, UnwantedPaths DEF Skipped
<1> QED
  BY <1>1, <1>2, BelowMore DEF AsOnDisk

\* After a walk that failed nowhere on an undisturbed disk, the snapshot is the disk.
LEMMA FinishQuiet == BaseInv /\ WalkInv /\ Finish => QuietInv'
<1> SUFFICES ASSUME BaseInv, WalkInv, Finish PROVE QuietInv'
  OBVIOUS
<1>1. Finished
  BY FinishSteps
<1>2. /\ at = "finish" /\ touched' = touched /\ disk' = disk /\ Unwanted' = Unwanted /\ root' = newRoot
      /\ drift' = (touched \/ errorPaths # {} \/ masked # {})
  BY <1>1, SameUnwanted DEF Finished
<1>3. touched' => drift'
  BY <1>2, Zenon
<1>4. ASSUME ~drift'
      PROVE  /\ newRoot = disk[<<>>]
             /\ \A p \in Paths \ {<<>>} :
                  p \in ItemPaths(newDirectories) <=> disk[p].kind # "absent" /\ ~Below(p, Unwanted)
             /\ \A p \in ItemPaths(newDirectories) : Item(newDirectories, p).stats = disk[p]
  BY <1>2, <1>4, FoundAll
<1>5. /\ ItemPaths(directories') = ItemPaths(newDirectories)
      /\ \A q \in ItemPaths(newDirectories) : Item(directories', q).stats = Item(newDirectories, q).stats
  BY <1>1, FinishFacts DEF BaseInv
<1> QED
  BY <1>2, <1>3, <1>4, <1>5 DEF QuietInv

\* Every step keeps the snapshot as the disk was, or notes that they drift apart.
LEMMA QuietNext == BaseInv /\ WalkInv /\ QuietInv /\ [Next]_vars => QuietInv'
<1> SUFFICES ASSUME BaseInv, WalkInv, QuietInv, [Next]_vars PROVE QuietInv'
  OBVIOUS
<1>1. ASSUME UNCHANGED <<disk, excluded, hiding, root, directories, drift>>,
             touched' = touched \/ touched' = FALSE
      PROVE  QuietInv'
  BY <1>1, SameUnwanted DEF QuietInv, ItemPaths, Item
<1>2. ASSUME drift' = TRUE PROVE QuietInv'
  BY <1>2 DEF QuietInv
<1>3. CASE Scan
  <2>1. CASE ScanRefused
    BY <1>1, <2>1 DEF ScanRefused, itemVars
  <2>2. ASSUME NEW opt, StartFails(opt) \/ StartScan(opt) PROVE QuietInv'
    BY <1>1, <2>2 DEF StartFails, StartScan
  <2>3. CASE VisitEntry \/ Abort \/ EndDirectory \/ ReaddirFails
    BY <1>1, <2>3 DEF VisitEntry, Abort, EndDirectory, ReaddirFails, itemVars
  <2> QED
    BY <1>3, <2>1, <2>2, <2>3, FinishQuiet DEF Scan
<1>4. CASE Edits
  <2>1. ASSUME NEW p, SetUserInfo(p) PROVE QuietInv'
    <3>1. /\ EditKeeps /\ touched' = touched /\ drift' = drift
          /\ ItemPaths(directories') = ItemPaths(directories)
          /\ \A q \in ItemPaths(directories) : Item(directories', q).stats = Item(directories, q).stats
          /\ Unwanted' = Unwanted
      BY <2>1, InfoFacts, SameUnwanted DEF BaseInv
    <3>2. disk' = disk /\ root' = root
      BY <3>1 DEF EditKeeps
    <3> QED
      BY <3>1, <3>2 DEF QuietInv
  <2>2. \A p : UpdateItem(p) \/ RemoveItem(p) => drift' = TRUE
    BY DEF UpdateItem, RemoveItem, Edit
  <2>3. \A set : SetExclusionPredicate(set) \/ SetHiding(set) => drift' = TRUE
    BY DEF SetExclusionPredicate, SetHiding, Edit
  <2> QED
    BY <1>2, <1>4, <2>1, <2>2, <2>3 DEF Edits
<1>5. CASE Environment
  BY <1>2, <1>5, EnvironmentOrder DEF BaseInv, ChangeKeeps
<1>6. CASE UNCHANGED vars
  BY <1>1, <1>6 DEF vars, itemVars
<1> QED
  BY <1>3, <1>4, <1>5, <1>6 DEF Next

\* One step of QuietRescanReportsNothing.
QuietRescan ==
    at = "finish" /\ options.compare /\ ~drift /\ errorPaths = {} /\ masked = {} =>
        IsEmpty(report') /\ revision' = revision

\* A scan of a disk that is as the snapshot has it reports nothing.
LEMMA QuietStep == BaseInv /\ WalkInv /\ QuietInv /\ Finished => QuietRescan
<1> SUFFICES ASSUME BaseInv, WalkInv, QuietInv, Finished,
                    at = "finish", options.compare, ~drift, errorPaths = {}, masked = {}
             PROVE  IsEmpty(report') /\ revision' = revision
  BY DEF QuietRescan
<1>1. ~touched
  BY DEF QuietInv
<1>2. /\ newRoot = disk[<<>>]
      /\ \A p \in Paths \ {<<>>} :
           p \in ItemPaths(newDirectories) <=> disk[p].kind # "absent" /\ ~Below(p, Unwanted)
      /\ \A p \in ItemPaths(newDirectories) : Item(newDirectories, p).stats = disk[p]
  BY <1>1, FoundAll
<1>3. /\ root = disk[<<>>]
      /\ \A p \in Paths \ {<<>>} :
           p \in ItemPaths(directories) <=> disk[p].kind # "absent" /\ ~Below(p, Unwanted)
      /\ \A p \in ItemPaths(directories) : Item(directories, p).stats = disk[p]
  BY DEF QuietInv
<1>4. ItemPaths(directories) = ItemPaths(newDirectories)
  <2>1. ItemPaths(directories) \subseteq Paths \ {<<>>} /\ ItemPaths(newDirectories) \subseteq Paths \ {<<>>}
    BY DEF ItemPaths
  <2> QED
    BY <1>2, <1>3, <2>1
<1>5. \A p \in ItemPaths(newDirectories) : Item(newDirectories, p).stats = Item(directories, p).stats
  BY <1>2, <1>3, <1>4
<1>6. /\ Added(newDirectories, directories) = {} /\ Removed(newDirectories, directories) = {}
      /\ Pruned(newDirectories, directories) = {}
  <2>1. \A p \in ItemPaths(newDirectories) : Parent(p) \in DOMAIN newDirectories
    BY DEF ItemPaths
  <2> QED
    BY <1>4, <2>1 DEF Added, Removed, Pruned
<1>7. ModifiedData(newDirectories, directories) = {} /\ ModifiedMetadata(newDirectories, directories) = {}
  BY <1>5 DEF ModifiedData, ModifiedMetadata, ContentsWasModified, MetadataHasChanged
<1>8. PICK m1, m2 : Reported(m1, m2)
  BY DEF Finished
<1>9. report'.moved = {}
  <2>1. m1 = {} /\ m2 = {}
    BY <1>6, <1>8 DEF Reported
  <2> QED
    BY <1>8, <2>1 DEF Reported
<1>10. /\ report'.added = {} /\ report'.removed = {} /\ report'.modData = {}
  BY <1>6, <1>7, <1>8 DEF Reported
<1>11. report'.modMeta = {}
  BY <1>2, <1>3, <1>7, <1>8 DEF Reported
<1>12. IsEmpty(report')
  BY <1>9, <1>10, <1>11 DEF IsEmpty
<1> QED
  BY <1>8, <1>12 DEF Reported

\* Initially the snapshot is nowhere taken for the disk.
LEMMA QuietInit == Init => QuietInv
BY DEF Init, QuietInv

\* A comparison when nothing has changed since the last complete scan reports nothing and
\* keeps the revision, whatever scans failed or were aborted in between.
THEOREM QuietRescansAreQuiet == Spec => QuietRescanReportsNothing
<1>1. BaseInv /\ WalkInv /\ QuietInv /\ [Next]_vars => [QuietRescan]_vars
  BY OnlyFinish, QuietStep DEF QuietRescan
<1> QED
  BY <1>1, BaseInit, BaseNext, AccountsInit, WalkNext, QuietInit, QuietNext, PTL
     DEF Spec, QuietRescanReportsNothing, QuietRescan
=============================================================================
