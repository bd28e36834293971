------------------------ MODULE CandidatePagesProofs ------------------------
(***************************************************************************)
(* The candidate page manager for any number of requests, compositions,    *)
(* candidates, sets and admissions.                                        *)
(*                                                                         *)
(* The argument: at most one cancellation token is not set, the one of the *)
(* newest search.  A request that is still admitted therefore carries that *)
(* token, and so does every set that is not stopped; what a request or a   *)
(* worker found under the lock the last time is still its own set when its *)
(* token is found unset again.                                             *)
(***************************************************************************)
EXTENDS CandidatePages, NaturalLemmas, TLAPS

\* Only the token of the newest search is unset, and it is newer than the
\* last clear.
Tokens ==
    /\ \A t \in 1 .. tokens : t \notin cancelled => latest # None /\ latest.token = t
    /\ latest # None => latest.token > cleared /\ latest.token <= tokens
    /\ \A s \in SetIds : sets[s] # None => sets[s].token <= tokens

\* The live sets that are not stopped, if any, are all of one search.
OneSearch ==
    \A s, t \in Live : sets[s].token \notin cancelled => sets[t].token = sets[s].token

\* What a request has found.
Found(r) ==
    /\ request[r].pc # "idle" => request[r].token > 0 /\ request[r].id \in Identities
    /\ request[r].pc = "retry" =>
            /\ request[r].set \in SetIds
            /\ sets[request[r].set] # None
            /\ sets[request[r].set].token = request[r].token
    /\ request[r].pc = "start" =>
            /\ request[r].set \in SetIds
            /\ sets[request[r].set] # None
            /\ sets[request[r].set].frozen # <<>>

\* Set numbers are given out in order.
Numbered == \A s, t \in SetIds : t <= s /\ sets[s] # None => sets[t] # None

\* Workers have a set; a scorer is told when page zero is frozen, and a
\* preparer starts after that.
Worked(s) ==
    /\ sets[s] = None => /\ lexical[s] = "off" /\ ~Registered(s)
                         /\ s \notin retiring \cup wake /\ preparer[s].pc = "off"
    /\ sets[s] # None /\ sets[s].frozen # <<>> /\ Registered(s) => scorer[s].cancelled
    /\ preparer[s].pc # "off" => sets[s].frozen # <<>>

\* A page was returned after page zero was frozen.
ShownFrozen ==
    \A e \in shown : e.set \in SetIds /\ sets[e.set] # None /\ sets[e.set].frozen # <<>>

\* The inductive invariant.
PagesInv ==
    /\ TypeOK
    /\ Tokens
    /\ OneSearch
    /\ \A r \in Requests : Found(r)
    /\ Numbered
    /\ \A s \in SetIds : Worked(s)
    /\ ShownFrozen
    /\ ClearedStaysCleared

\* The code does not look again whether page zero was published between the
\* two sections of a request (neural_candidate_pages.py 654).  This says that
\* it was not.
RetriesUnpublished ==
    \A r \in Requests : Retry(r) => sets[request[r].set].frozen = <<>>

\* The client was given page zero of s.
Returned(s) == \E e \in shown : e.set = s

\* Later pages of s are due.
Wanted(s) == s \in Live /\ Returned(s) /\ ~Stopped(s) /\ sets[s].more /\ ~Full(sets[s])

\* A worker of the same search is going to look after them.
Busy(s) ==
    \/ preparer[s].pc \notin {"off", "end"}
    \/ lexical[s] \in {"walk", "finish", "start"}
    \/ s \in wake
    \/ \E t \in Live : sets[t].id = sets[s].id /\ (Registered(t) \/ t \in retiring)

\* A preparer ends when nothing is left to prepare.
EndedForGood(s) == preparer[s].pc = "end" => Stopped(s) \/ ~sets[s].more \/ Full(sets[s])

\* LaterPagesComing with the part it needs, for every set.
ComingInv == \A s \in SetIds : EndedForGood(s) /\ (Wanted(s) => Busy(s))

-----------------------------------------------------------------------------
(* The order of the sets in use *)

\* Drop keeps the others, each once.
LEMMA DropKeeps ==
    ASSUME NEW q \in Seq(SetIds), NEW S
    PROVE  /\ Drop(q, S) \in Seq(SetIds)
           /\ ToSet(Drop(q, S)) = ToSet(q) \ S
           /\ IsInjective(q) => IsInjective(Drop(q, S))
<1> DEFINE K == {i \in DOMAIN q : q[i] \notin S}
           d == Drop(q, S)
<1>1. K \in SUBSET DOMAIN q /\ d = KeepAt(q, K)
  BY DEF Drop
<1> HIDE DEF d
<1>2. /\ d \in Seq(SetIds)
      /\ \A n \in DOMAIN d : Nth(K, n) \in K /\ d[n] = q[Nth(K, n)]
      /\ \A i \in K : \E n \in DOMAIN d : d[n] = q[i]
      /\ \A m, n \in DOMAIN d : Nth(K, m) = Nth(K, n) => m = n
  <2> HIDE DEF K
  <2>1. QED
    BY <1>1, KeepAtElements
<1>3. ToSet(d) \subseteq ToSet(q) \ S
  BY <1>2 DEF ToSet
<1>4. ToSet(q) \ S \subseteq ToSet(d)
  BY <1>2 DEF ToSet
<1>5. IsInjective(q) => IsInjective(d)
  BY <1>2 DEF IsInjective
<1>6. QED
  BY <1>2, <1>3, <1>4, <1>5 DEF d

\* Append adds one element at the end.
LEMMA AppendKeeps ==
    ASSUME NEW q \in Seq(SetIds), NEW s \in SetIds
    PROVE  /\ Append(q, s) \in Seq(SetIds)
           /\ ToSet(Append(q, s)) = ToSet(q) \cup {s}
           /\ IsInjective(q) /\ s \notin ToSet(q) => IsInjective(Append(q, s))
<1> DEFINE a == Append(q, s)
<1>1. /\ a \in Seq(SetIds) /\ Len(q) \in Nat /\ Len(a) = Len(q) + 1
      /\ DOMAIN q = 1 .. Len(q) /\ DOMAIN a = 1 .. Len(q) + 1
      /\ a[Len(q) + 1] = s
      /\ \A i \in 1 .. Len(q) : a[i] = q[i]
  OBVIOUS
<1> HIDE DEF a
<1>2. ToSet(a) = ToSet(q) \cup {s}
  <2>1. \A i \in 1 .. Len(q) + 1 : i \in 1 .. Len(q) \/ i = Len(q) + 1
    BY <1>1
  <2>2. \A i \in 1 .. Len(q) : i \in 1 .. Len(q) + 1
    BY <1>1
  <2>3. Len(q) + 1 \in 1 .. Len(q) + 1
    BY <1>1
  <2>4. QED
    BY <1>1, <2>1, <2>2, <2>3 DEF ToSet
<1>3. ASSUME IsInjective(q), s \notin ToSet(q) PROVE IsInjective(a)
  <2>1. \A i \in 1 .. Len(q) : q[i] # s
    BY <1>1, <1>3 DEF ToSet
  <2>2. \A i, j \in 1 .. Len(q) : q[i] = q[j] => i = j
    BY <1>1, <1>3 DEF IsInjective
  <2>3. \A i, j \in 1 .. Len(q) + 1 : a[i] = a[j] => i = j
    BY <1>1, <2>1, <2>2
  <2>4. QED
    BY <1>1, <2>3 DEF IsInjective
<1>4. QED
  BY <1>1, <1>2, <1>3 DEF a

LEMMA MoveToEndKeeps ==
    ASSUME NEW q \in Seq(SetIds), NEW s \in SetIds
    PROVE  /\ MoveToEnd(q, s) \in Seq(SetIds)
           /\ ToSet(MoveToEnd(q, s)) = ToSet(q) \cup {s}
           /\ IsInjective(q) => IsInjective(MoveToEnd(q, s))
<1> DEFINE d == Drop(q, {s})
<1>1. /\ d \in Seq(SetIds) /\ ToSet(d) = ToSet(q) \ {s}
      /\ IsInjective(q) => IsInjective(d)
  BY DropKeeps
<1>2. MoveToEnd(q, s) = Append(d, s)
  BY DEF MoveToEnd
<1> HIDE DEF d
<1>3. /\ Append(d, s) \in Seq(SetIds) /\ ToSet(Append(d, s)) = ToSet(d) \cup {s}
      /\ IsInjective(d) /\ s \notin ToSet(d) => IsInjective(Append(d, s))
  BY <1>1, AppendKeeps
<1>4. s \notin ToSet(d) /\ ToSet(d) \cup {s} = ToSet(q) \cup {s}
  BY <1>1
<1>5. QED
  BY <1>1, <1>2, <1>3, <1>4

\* The first and the last of a list are in it, and the rest is a list.
LEMMA EndsBelong ==
    ASSUME NEW q \in Seq(SetIds), q # <<>>
    PROVE  /\ Head(q) \in ToSet(q) /\ Last(q) \in ToSet(q)
           /\ Tail(q) \in Seq(SetIds) /\ ToSet(Tail(q)) \subseteq ToSet(q)
           /\ IsInjective(q) => IsInjective(Tail(q))
<1>1. Len(q) \in Nat /\ Len(q) > 0 /\ DOMAIN q = 1 .. Len(q) /\ Head(q) = q[1]
  OBVIOUS
<1>2. /\ Tail(q) \in Seq(SetIds) /\ DOMAIN Tail(q) = 1 .. Len(q) - 1
      /\ \A i \in 1 .. Len(q) - 1 : Tail(q)[i] = q[i + 1] /\ i + 1 \in 1 .. Len(q)
  BY <1>1
<1>3. Head(q) \in ToSet(q) /\ Last(q) \in ToSet(q)
  BY <1>1 DEF ToSet, Last
<1>4. ToSet(Tail(q)) \subseteq ToSet(q)
  BY <1>1, <1>2 DEF ToSet
<1>5. ASSUME IsInjective(q) PROVE IsInjective(Tail(q))
  <2>1. \A i, j \in 1 .. Len(q) : q[i] = q[j] => i = j
    BY <1>1, <1>5 DEF IsInjective
  <2>2. \A i, j \in 1 .. Len(q) - 1 : Tail(q)[i] = Tail(q)[j] => i = j
    BY <1>1, <1>2, <2>1
  <2>3. QED
    BY <1>2, <2>2 DEF IsInjective
<1>6. QED
  BY <1>2, <1>3, <1>4, <1>5

-----------------------------------------------------------------------------
(* Candidate sets and their pages *)

\* p is the same search as b, and nothing of it is unpublished again.
Grown(b, p) ==
    /\ p \in SetType /\ p.id = b.id /\ p.token = b.token
    /\ b.frozen # <<>> => p.frozen # <<>>

\* p has the pages of b.
Widened(b, p) ==
    /\ p \in SetType /\ p.id = b.id /\ p.token = b.token
    /\ p.frozen = b.frozen /\ p.more = b.more

LEMMA SupplyWidens ==
    ASSUME NEW b \in SetType, NEW S \in SUBSET Candidates, NEW walked \in BOOLEAN
    PROVE  /\ Widened(b, Supply(b, S))
           /\ Widened(b, [Supply(b, S) EXCEPT !.walked = walked])
           /\ Widened(b, [b EXCEPT !.walked = walked])
BY DEF Widened, Supply, Add, SetType

LEMMA MergeWidens ==
    ASSUME NEW b \in SetType, NEW S \in SUBSET Candidates, NEW noted, NEW out \in BOOLEAN
    PROVE  Widened(b, Merge(b, S, noted, out))
BY DEF Widened, Merge, SetType

LEMMA WideningTwice ==
    ASSUME NEW b, NEW p, NEW z, Widened(b, p), Widened(p, z)
    PROVE  Widened(b, z)
BY DEF Widened

LEMMA WideningGrows ==
    ASSUME NEW b, NEW p, Widened(b, p)
    PROVE  Grown(b, p) /\ (Full(b) <=> Full(p))
BY DEF Widened, Grown, Full, Total

LEMMA WalkTypes ==
    ASSUME NEW b \in SetType, NEW limit, NEW w \in Walks(b, limit)
    PROVE  w.found \in SUBSET Candidates /\ w.walked \in BOOLEAN
<1>1. b.walked \in BOOLEAN
  BY DEF SetType
<1>2. QED
  BY <1>1 DEF Walks

\* A page put in its place.
LEMMA PagePlaced ==
    ASSUME NEW q \in Seq(PageType), NEW page \in PageType, NEW n
    PROVE  /\ [q EXCEPT ![n] = page] \in Seq(PageType)
           /\ Len([q EXCEPT ![n] = page]) = Len(q)
           /\ q # <<>> => [q EXCEPT ![n] = page] # <<>>
           /\ Append(q, page) \in Seq(PageType) /\ Append(q, page) # <<>>
<1> DEFINE x == [q EXCEPT ![n] = page]
<1>1. Len(q) \in Nat /\ q \in [1 .. Len(q) -> PageType]
  OBVIOUS
<1>2. x \in [1 .. Len(q) -> PageType]
  BY <1>1
<1> HIDE DEF x
<1>3. x \in Seq(PageType) /\ Len(x) = Len(q)
  BY <1>1, <1>2
<1>4. q # <<>> => x # <<>>
  BY <1>3
<1>5. Append(q, page) \in Seq(PageType) /\ Append(q, page) # <<>>
  <2>1. Append(q, page) \in Seq(PageType) /\ Len(Append(q, page)) = Len(q) + 1
    OBVIOUS
  <2>2. QED
    BY <1>1, <2>1
<1>6. QED
  BY <1>3, <1>4, <1>5 DEF x

\* b with a page taken and its pages and "more" as given.
Paged(b, page, pages, more) == [Take(b, page) EXCEPT !.frozen = pages, !.more = more]

LEMMA PagedTypes ==
    ASSUME NEW b \in SetType, NEW page, NEW pages \in Seq(PageType), NEW more \in BOOLEAN
    PROVE  /\ Paged(b, page, pages, more) \in SetType
           /\ Paged(b, page, pages, more).id = b.id
           /\ Paged(b, page, pages, more).token = b.token
           /\ Paged(b, page, pages, more).frozen = pages
BY DEF Paged, Take, SetType

LEMMA TopTypes ==
    ASSUME NEW S \in SUBSET Candidates, NEW k
    PROVE  Top(S, k) \in PageType
BY DEF Top, PageType

\* A later page leaves the search what it was.
LEMMA LaterPageGrows ==
    ASSUME NEW b \in SetType, NEW n \in Nat
    PROVE  Grown(b, LaterPage(b, n))
<1> DEFINE page == Top(b.pending, Target(b))
           rest == b.pending \ page
           more == /\ Capacity > Total(b) + Cardinality(page)
                   /\ Cardinality(page) = Target(b) \/ rest # {} \/ ~b.exhausted
           next == IF n = Len(b.frozen) THEN more ELSE b.more
           appended == Append(b.frozen, page)
           placed == [b.frozen EXCEPT ![n] = page]
<1>1. /\ b.pending \in SUBSET Candidates /\ b.frozen \in Seq(PageType) /\ b.more \in BOOLEAN
      /\ page \in PageType
  BY TopTypes DEF SetType
<1>2. more \in BOOLEAN /\ next \in BOOLEAN
  BY <1>1
<1>3. /\ placed \in Seq(PageType) /\ (b.frozen # <<>> => placed # <<>>)
      /\ appended \in Seq(PageType) /\ appended # <<>>
  <2> HIDE DEF page
  <2>1. QED
    BY <1>1, PagePlaced
<1>4. LaterPage(b, n) = IF n > Len(b.frozen)
                        THEN Paged(b, page, appended, more)
                        ELSE Paged(b, page, placed, next)
  BY DEF LaterPage, Paged, Take, SetType
<1> HIDE DEF page, more, next, appended, placed
<1>5. QED
  BY <1>2, <1>3, <1>4, PagedTypes DEF Grown

\* The pages filled from b after n of them were tried.
Fills(f, b, m) == f = [n \in 0 .. m |-> IF n = 0 THEN b ELSE FillPage(f[n - 1])]

LEMMA FillsExist ==
    ASSUME NEW b
    PROVE  \A m \in Nat : \E f : Fills(f, b, m)
<1> DEFINE Bad == {m \in Nat : ~\E f : Fills(f, b, m)}
<1> SUFFICES ASSUME Bad # {} PROVE FALSE
  OBVIOUS
<1>1. PICK m \in Bad : \A n \in Bad : m <= n
  BY LeastNatural
<1>2. m # 0
  <2>1. Fills([n \in 0 .. 0 |-> b], b, 0)
    BY DEF Fills
  <2>2. QED
    BY <2>1
<1>3. m - 1 \in Nat /\ m - 1 \notin Bad
  BY <1>1, <1>2
<1>4. PICK f : Fills(f, b, m - 1)
  BY <1>3
<1> DEFINE g == [n \in 0 .. m |-> IF n = 0 THEN b ELSE FillPage(f[n - 1])]
<1>5. \A n \in 0 .. m - 1 : g[n] = f[n]
  BY <1>1, <1>3, <1>4 DEF Fills
<1>6. \A n \in 0 .. m : n # 0 => n - 1 \in 0 .. m - 1
  BY <1>1, <1>3
<1>7. \A n \in 0 .. m : g[n] = IF n = 0 THEN b ELSE FillPage(g[n - 1])
  <2>1. \A n \in 0 .. m : n # 0 => g[n - 1] = f[n - 1]
    <3> HIDE DEF g
    <3>1. QED
      BY <1>5, <1>6
  <2>2. QED
    BY <2>1
<1>8. Fills(g, b, m)
  <2>1. g = [n \in 0 .. m |-> g[n]]
    OBVIOUS
  <2> HIDE DEF g
  <2>2. QED
    BY <1>7, <2>1 DEF Fills
<1>9. QED
  BY <1>1, <1>8

LEMMA FillPagesGrows ==
    ASSUME NEW b \in SetType
    PROVE  Grown(b, FillPages(b))
<1> DEFINE filled == CHOOSE f : f = [n \in 0 .. Capacity |->
                                        IF n = 0 THEN b ELSE FillPage(f[n - 1])]
<1>1. Capacity \in Nat
  BY PagesAssumption
<1>2. \E f : f = [n \in 0 .. Capacity |-> IF n = 0 THEN b ELSE FillPage(f[n - 1])]
  BY <1>1, FillsExist DEF Fills
<1>3. filled = [n \in 0 .. Capacity |-> IF n = 0 THEN b ELSE FillPage(filled[n - 1])]
  BY <1>2
<1>4. FillPages(b) = filled[Capacity]
  BY DEF FillPages
<1> HIDE DEF filled
<1> DEFINE Bad == {n \in 0 .. Capacity : ~Grown(b, filled[n])}
<1>5. Bad = {}
  <2> SUFFICES ASSUME Bad # {} PROVE FALSE
    OBVIOUS
  <2>1. Bad \in SUBSET Nat
    BY <1>1
  <2>2. PICK n \in Bad : \A k \in Bad : n <= k
    <3> HIDE DEF Bad
    <3>1. QED
      BY <2>1, LeastNatural
  <2>3. n # 0
    <3>1. filled[0] = b
      BY <1>1, <1>3
    <3>2. QED
      BY <3>1 DEF Grown
  <2>4. n - 1 \in 0 .. Capacity /\ n - 1 \notin Bad
    BY <1>1, <2>2, <2>3
  <2>5. Grown(b, filled[n - 1]) /\ filled[n] = FillPage(filled[n - 1])
    BY <1>3, <2>2, <2>3, <2>4
  <2>6. ASSUME NEW p \in SetType PROVE Grown(p, FillPage(p))
    <3>1. Len(p.frozen) + 1 \in Nat
      BY DEF SetType
    <3>2. Grown(p, p)
      BY DEF Grown
    <3>3. QED
      BY <3>1, <3>2, LaterPageGrows DEF FillPage
  <2>7. Grown(b, filled[n])
    <3>1. filled[n - 1] \in SetType
      BY <2>5 DEF Grown
    <3>2. Grown(filled[n - 1], filled[n])
      BY <2>5, <2>6, <3>1
    <3>3. QED
      BY <2>5, <3>2 DEF Grown
  <2>8. QED
    BY <2>2, <2>7
<1>6. Capacity \in 0 .. Capacity
  BY <1>1
<1>7. QED
  BY <1>4, <1>5, <1>6

LEMMA ZeroPageGrows ==
    ASSUME NEW b \in SetType, NEW z \in ZeroPages(b)
    PROVE  Grown(b, z) /\ z.frozen # <<>> /\ z.frozen[1] \in PageType
<1> DEFINE page == IF b.pending = {} /\ b.exhausted THEN {Literal} ELSE Top(b.pending, PageSize)
           more == Len(b.frozen) = 1 \/ b.more
           first == <<page>>
           always == TRUE
           placed == [b.frozen EXCEPT ![1] = page]
<1>1. /\ b.pending \in SUBSET Candidates /\ b.frozen \in Seq(PageType) /\ b.more \in BOOLEAN
      /\ Top(b.pending, PageSize) \in PageType /\ {Literal} \in PageType
  BY TopTypes DEF SetType, PageType
<1>2. page \in PageType /\ more \in BOOLEAN /\ always \in BOOLEAN
  BY <1>1
<1>3. /\ placed \in Seq(PageType) /\ (b.frozen # <<>> => placed # <<>>)
      /\ first \in Seq(PageType) /\ first # <<>>
  <2> HIDE DEF page
  <2>1. QED
    BY <1>1, <1>2, PagePlaced
<1>4. ZeroPage(b) = IF b.frozen = <<>>
                    THEN Paged(b, page, first, always)
                    ELSE Paged(b, page, placed, more)
  BY DEF ZeroPage, Paged, Take, SetType
<1> HIDE DEF page, more, always, first, placed
<1>5. Grown(b, ZeroPage(b)) /\ ZeroPage(b).frozen # <<>>
  <2>1. CASE b.frozen = <<>>
    <3>1. ZeroPage(b) = Paged(b, page, first, always)
      BY <1>4, <2>1
    <3>2. QED
      BY <1>2, <1>3, <3>1, PagedTypes DEF Grown
  <2>2. CASE b.frozen # <<>>
    <3>1. ZeroPage(b) = Paged(b, page, placed, more) /\ placed # <<>>
      BY <1>3, <1>4, <2>2
    <3>2. QED
      BY <1>2, <1>3, <3>1, PagedTypes DEF Grown
  <2>3. QED
    BY <2>1, <2>2
<1>6. Grown(ZeroPage(b), FillPages(ZeroPage(b)))
  BY <1>5, FillPagesGrows DEF Grown
<1>7. Grown(b, z) /\ z.frozen # <<>>
  BY <1>5, <1>6 DEF ZeroPages, Grown
<1>8. z.frozen \in Seq(PageType)
  BY <1>7 DEF Grown, SetType
<1>9. QED
  BY <1>7, <1>8

-----------------------------------------------------------------------------
(* Freezing page zero *)

\* An outcome of page zero of b: without a page, nothing of b's pages changed.
GoodOutcome(b, o) ==
    /\ Grown(b, o.set)
    /\ o.walk \in BOOLEAN /\ o.search \in BOOLEAN
    /\ o.page \in PageType \cup {None}
    /\ o.page = None => Widened(b, o.set)
    /\ o.page # None => o.set.frozen # <<>>

LEMMA WaitIsGood ==
    ASSUME NEW b, NEW p, Widened(b, p), NEW walk \in BOOLEAN, NEW search \in BOOLEAN
    PROVE  GoodOutcome(b, [set |-> p, walk |-> walk, search |-> search, page |-> None])
BY WideningGrows DEF GoodOutcome

LEMMA DoneIsGood ==
    ASSUME NEW b, NEW p, Widened(b, p), NEW z \in ZeroPages(p), NEW search \in BOOLEAN
    PROVE  GoodOutcome(b, [set |-> z, walk |-> FALSE, search |-> search, page |-> z.frozen[1]])
<1>1. p \in SetType
  BY DEF Widened
<1>2. Grown(p, z) /\ z.frozen # <<>> /\ z.frozen[1] \in PageType
  BY <1>1, ZeroPageGrows
<1>3. Grown(b, z)
  BY <1>2 DEF Widened, Grown
<1>4. z.frozen[1] # None
  BY <1>2, NoneAssumption
<1>5. QED
  BY <1>2, <1>3, <1>4 DEF GoodOutcome

LEMMA SuppliedWidens ==
    ASSUME NEW b \in SetType, NEW p \in Supplied(b)
    PROVE  Widened(b, p)
<1>1. Widened(b, b)
  BY DEF Widened
<1> DEFINE slots == PageSize - Cardinality(b.pending)
<1>2. ASSUME NEW w \in Walks(b, slots),
             p = [Supply(b, w.found) EXCEPT !.walked = w.walked] \/ p = [b EXCEPT !.walked = w.walked]
      PROVE  Widened(b, p)
  <2>1. w.found \in SUBSET Candidates /\ w.walked \in BOOLEAN
    BY <1>2, WalkTypes
  <2>2. QED
    BY <1>2, <2>1, SupplyWidens
<1>3. p = b \/ \E w \in Walks(b, slots) : \/ p = [Supply(b, w.found) EXCEPT !.walked = w.walked]
                                          \/ p = [b EXCEPT !.walked = w.walked]
  BY DEF Supplied
<1>4. QED
  BY <1>1, <1>2, <1>3

LEMMA FreezeZeroOutcomes ==
    ASSUME NEW s, NEW b \in SetType, NEW walking \in BOOLEAN, NEW o \in FreezeZero(s, b, walking)
    PROVE  GoodOutcome(b, o)
<1> DEFINE Done(z, search) == [set |-> z, walk |-> FALSE, search |-> search, page |-> z.frozen[1]]
           Wait(p, walk, search) == [set |-> p, walk |-> walk, search |-> search, page |-> None]
<1>1. \/ \E z \in ZeroPages(b) : o = Done(z, FALSE)
      \/ o = Wait(b, FALSE, FALSE)
      \/ \E p \in Supplied(b) :
            \/ \E walk, search \in BOOLEAN : o = Wait(p, walk, search)
            \/ \E search \in BOOLEAN : \E z \in ZeroPages(p) : o = Done(z, search)
  <2> DEFINE Short(p) == Cardinality(p.pending) < PageSize
             Walk(p) == Short(p) /\ Lexical[p.id] = "full" /\ ~p.lexicalDone
             Searches(p) == {FALSE, Short(p) /\ ~p.exhausted /\ ~p.searchDone}
             Outcome(p) ==
                 UNION {IF Walk(p) \/ (p.pending = {} /\ (search \/ Registered(s)))
                        THEN {Wait(p, Walk(p), search)}
                        ELSE {Done(z, search) : z \in ZeroPages(p)} : search \in Searches(p)}
  <2>1. FreezeZero(s, b, walking) =
            CASE Cardinality(b.pending) >= PageSize -> {Done(z, FALSE) : z \in ZeroPages(b)}
              [] Cardinality(b.pending) < PageSize /\ walking -> {Wait(b, FALSE, FALSE)}
              [] OTHER -> UNION {Outcome(p) : p \in Supplied(b)}
    BY DEF FreezeZero
  <2>2. \A p : Walk(p) \in BOOLEAN /\ Searches(p) \subseteq BOOLEAN
    OBVIOUS
  <2> HIDE DEF Walk, Searches
  <2>3. ASSUME NEW p, NEW x \in Outcome(p)
        PROVE  \/ \E walk, search \in BOOLEAN : x = Wait(p, walk, search)
               \/ \E search \in BOOLEAN : \E z \in ZeroPages(p) : x = Done(z, search)
    <3>1. PICK search \in Searches(p) :
              x \in IF Walk(p) \/ (p.pending = {} /\ (search \/ Registered(s)))
                    THEN {Wait(p, Walk(p), search)}
                    ELSE {Done(z, search) : z \in ZeroPages(p)}
      BY <2>3
    <3>2. search \in BOOLEAN /\ Walk(p) \in BOOLEAN
      BY <2>2, <3>1
    <3>3. QED
      BY <3>1, <3>2
  <2> HIDE DEF Outcome
  <2>4. CASE Cardinality(b.pending) >= PageSize
    <3>1. FreezeZero(s, b, walking) = {Done(z, FALSE) : z \in ZeroPages(b)}
          \/ FreezeZero(s, b, walking) = {Wait(b, FALSE, FALSE)}
      BY <2>1, <2>4
    <3>2. QED
      BY <3>1
  <2>5. CASE ~(Cardinality(b.pending) >= PageSize)
    <3>1. \/ FreezeZero(s, b, walking) = {Wait(b, FALSE, FALSE)}
          \/ FreezeZero(s, b, walking) = UNION {Outcome(p) : p \in Supplied(b)}
      BY <2>1, <2>5
    <3>2. CASE o = Wait(b, FALSE, FALSE)
      BY <3>2
    <3>3. CASE \E p \in Supplied(b) : o \in Outcome(p)
      BY <2>3, <3>3
    <3>4. QED
      BY <3>1, <3>2, <3>3
  <2>6. QED
    BY <2>4, <2>5
<1>2. Widened(b, b)
  BY DEF Widened
<1>3. CASE \E z \in ZeroPages(b) : o = Done(z, FALSE)
  BY <1>2, <1>3, DoneIsGood
<1>4. CASE o = Wait(b, FALSE, FALSE)
  BY <1>2, <1>4, WaitIsGood
<1>5. ASSUME NEW p \in Supplied(b), NEW walk \in BOOLEAN, NEW search \in BOOLEAN,
             o = Wait(p, walk, search) \/ \E z \in ZeroPages(p) : o = Done(z, search)
      PROVE  GoodOutcome(b, o)
  <2>1. Widened(b, p)
    BY SuppliedWidens
  <2>2. QED
    BY <1>5, <2>1, DoneIsGood, WaitIsGood
<1>6. QED
  BY <1>1, <1>3, <1>4, <1>5

\* Freeze stores a set, and a scorer of a set with a page is told to stop.
LEMMA FreezeWorks ==
    ASSUME WorkerTypeOK, NEW s \in SetIds, NEW b, NEW o, GoodOutcome(b, o), NEW otherwise,
           otherwise \in {"off", "walk", "finish", "start"}, Freeze(s, b, o, otherwise),
           b.frozen # <<>> /\ Registered(s) => scorer[s].cancelled
    PROVE  /\ sets' = [sets EXCEPT ![s] = o.set]
           /\ lexical' \in [SetIds -> {"off", "walk", "finish", "start"}]
           /\ scorer' \in [SetIds -> ScorerType]
           /\ \A t \in SetIds \ {s} : lexical'[t] = lexical[t] /\ scorer'[t] = scorer[t]
           /\ o.set.frozen # <<>> /\ scorer'[s].pc # "off" => scorer'[s].cancelled
           /\ lexical'[s] = IF o.walk THEN "walk" ELSE otherwise
           /\ scorer[s].pc # "off" => scorer'[s].pc # "off"
<1>1. /\ scorer \in [SetIds -> ScorerType]
      /\ lexical \in [SetIds -> {"off", "walk", "finish", "start"}]
  BY DEF WorkerTypeOK
<1>2. PICK starts \in {FALSE, o.search /\ b.frozen = <<>> /\ ~Registered(s)} :
            scorer' = [scorer EXCEPT
                            ![s].pc = IF starts THEN "loop" ELSE @,
                            ![s].cancelled = (starts \/ Registered(s)) /\ (@ \/ o.page # None)]
  BY DEF Freeze
<1> DEFINE pc == IF starts THEN "loop" ELSE scorer[s].pc
           told == (starts \/ Registered(s)) /\ (scorer[s].cancelled \/ o.page # None)
<1>3. starts \in BOOLEAN /\ (starts => b.frozen = <<>> /\ ~Registered(s))
  BY <1>2 DEF GoodOutcome
<1>4. told \in BOOLEAN /\ pc \in {"off", "loop", "score", "merge"}
  BY <1>1, <1>3 DEF ScorerType
<1>5. /\ scorer' \in [SetIds -> ScorerType]
      /\ \A t \in SetIds \ {s} : scorer'[t] = scorer[t]
      /\ scorer'[s].pc = pc /\ scorer'[s].cancelled = told
  BY <1>1, <1>2, <1>4 DEF ScorerType
<1>6. ASSUME o.set.frozen # <<>>, pc # "off" PROVE told
  <2>1. starts \/ Registered(s)
    BY <1>6 DEF Registered
  <2>2. CASE o.page # None
    BY <2>1, <2>2
  <2>3. CASE o.page = None
    <3>1. b.frozen # <<>>
      BY <1>6, <2>3 DEF GoodOutcome, Widened
    <3>2. QED
      BY <1>3, <2>1, <3>1
  <2>4. QED
    BY <2>2, <2>3
<1>7. /\ sets' = [sets EXCEPT ![s] = o.set]
      /\ lexical' = [lexical EXCEPT ![s] = IF o.walk THEN "walk" ELSE otherwise]
  BY DEF Freeze
<1>8. /\ lexical' \in [SetIds -> {"off", "walk", "finish", "start"}]
      /\ \A t \in SetIds \ {s} : lexical'[t] = lexical[t]
      /\ lexical'[s] = IF o.walk THEN "walk" ELSE otherwise
  BY <1>1, <1>7 DEF GoodOutcome
<1> HIDE DEF told
<1>9. QED
  BY <1>5, <1>6, <1>7, <1>8

-----------------------------------------------------------------------------
(* Steps that change one set *)

USE DEF workerVars, clearVars, serverVars

\* A step that stores p for set s, of the same search, and tells its scorer;
\* the live sets stay, and requests that move have found what they need.
LEMMA SetKeeps ==
    ASSUME PagesInv, UNCHANGED <<latest, tokens, cancelled, clearVars, shown>>, WorkerTypeOK',
           sessions' \in Seq(SetIds), IsInjective(sessions'), Live' = Live,
           request' \in [Requests -> RequestType],
           \A r \in Requests : request'[r] = request[r] \/ Found(r)',
           NEW s \in SetIds, sets[s] # None,
           NEW p, Grown(sets[s], p), sets' = [sets EXCEPT ![s] = p],
           \A t \in SetIds \ {s} : /\ lexical'[t] = lexical[t]
                                   /\ scorer'[t] = scorer[t]
                                   /\ preparer'[t] = preparer[t],
           \A t \in retiring' \cup wake' : sets[t] # None,
           p.frozen # <<>> /\ scorer'[s].pc # "off" => scorer'[s].cancelled,
           preparer'[s].pc # "off" => p.frozen # <<>>
    PROVE  PagesInv'
<1>1. /\ sets \in [SetIds -> SetType \cup {None}] /\ p \in SetType /\ p # None
      /\ p.id = sets[s].id /\ p.token = sets[s].token
  BY NoneAssumption DEF PagesInv, TypeOK, Grown
<1>2. /\ sets' \in [SetIds -> SetType \cup {None}]
      /\ \A t \in SetIds \ {s} : sets'[t] = sets[t]
      /\ sets'[s] = p
  BY <1>1
<1>3. \A t \in SetIds : sets[t] # None =>
            /\ sets'[t] # None /\ sets'[t].id = sets[t].id /\ sets'[t].token = sets[t].token
            /\ sets[t].frozen # <<>> => sets'[t].frozen # <<>>
  BY <1>1, <1>2 DEF Grown
<1>4. \A t \in SetIds : sets'[t] # None => sets[t] # None
  BY <1>2
<1>5. Live \subseteq SetIds /\ \A t \in Live : sets[t] # None
  BY DEF Live, PagesInv, TypeOK, ToSet
<1>6. TypeOK'
  BY <1>2, <1>3, <1>5 DEF PagesInv, TypeOK, RequestType
<1>7. Tokens'
  BY <1>3, <1>4 DEF PagesInv, Tokens
<1>8. OneSearch'
  BY <1>3, <1>5 DEF PagesInv, OneSearch
<1>9. \A r \in Requests : Found(r)'
  BY <1>3 DEF PagesInv, Found
<1>10. Numbered'
  BY <1>3, <1>4 DEF PagesInv, Numbered
<1>11. ASSUME NEW t \in SetIds PROVE Worked(t)'
  <2>1. Worked(t)
    BY DEF PagesInv
  <2>2. CASE t = s
    BY <1>1, <1>2, <2>2 DEF Worked, Registered
  <2>3. CASE t # s
    BY <1>2, <2>1, <2>3 DEF Worked, Registered
  <2>4. QED
    BY <2>2, <2>3
<1>12. ShownFrozen'
  BY <1>3 DEF PagesInv, ShownFrozen
<1>13. ClearedStaysCleared'
  BY <1>3, <1>5 DEF PagesInv, ClearedStaysCleared
<1>14. QED
  BY <1>6, <1>7, <1>8, <1>9, <1>10, <1>11, <1>12, <1>13 DEF PagesInv

\* The same for a step of a worker.
LEMMA WorkerKeeps ==
    ASSUME PagesInv, UNCHANGED serverVars, WorkerTypeOK',
           NEW s \in SetIds, sets[s] # None,
           NEW p, Grown(sets[s], p), sets' = [sets EXCEPT ![s] = p],
           \A t \in SetIds \ {s} : /\ lexical'[t] = lexical[t]
                                   /\ scorer'[t] = scorer[t]
                                   /\ preparer'[t] = preparer[t],
           \A t \in retiring' \cup wake' : sets[t] # None,
           p.frozen # <<>> /\ scorer'[s].pc # "off" => scorer'[s].cancelled,
           preparer'[s].pc # "off" => p.frozen # <<>>
    PROVE  PagesInv'
<1>1. /\ sessions' \in Seq(SetIds) /\ IsInjective(sessions') /\ Live' = Live
      /\ request' \in [Requests -> RequestType]
      /\ \A r \in Requests : request'[r] = request[r]
  BY DEF PagesInv, TypeOK, Live, RequestType
<1>2. QED
  BY <1>1, SetKeeps

\* What the invariant says of the set of a worker.
LEMMA WorkerSet ==
    ASSUME PagesInv, NEW s \in SetIds
    PROVE  /\ WorkerTypeOK
           /\ Worked(s)
           /\ sets[s] # None => sets[s] \in SetType /\ Widened(sets[s], sets[s])
           /\ sets = [sets EXCEPT ![s] = sets[s]]
           /\ lexical[s] # "off" \/ Registered(s) \/ s \in retiring \/ s \in wake
                \/ preparer[s].pc # "off" => sets[s] # None
           /\ \A t \in retiring \cup wake : sets[t] # None
<1>1. TypeOK /\ WorkerTypeOK /\ Worked(s) /\ \A t \in SetIds : Worked(t)
  BY DEF PagesInv, TypeOK
<1>2. sets \in [SetIds -> SetType \cup {None}] /\ retiring \subseteq SetIds /\ wake \subseteq SetIds
  BY <1>1 DEF TypeOK, WorkerTypeOK
<1>3. sets[s] # None => sets[s] \in SetType
  BY <1>2
<1>4. sets = [sets EXCEPT ![s] = sets[s]]
  BY <1>2
<1>5. QED
  BY <1>1, <1>2, <1>3, <1>4 DEF Worked, Widened

\* Page zero of a set is frozen or waited for.
LEMMA FreezeKeeps ==
    ASSUME PagesInv, NEW s \in SetIds, sets[s] # None, NEW b, Widened(sets[s], b),
           NEW o, GoodOutcome(b, o), NEW otherwise \in {"off", "walk", "finish", "start"},
           Freeze(s, b, o, otherwise), UNCHANGED <<retiring, wake, preparer>>
    PROVE  /\ Grown(sets[s], o.set) /\ sets' = [sets EXCEPT ![s] = o.set]
           /\ WorkerTypeOK'
           /\ \A t \in SetIds \ {s} : /\ lexical'[t] = lexical[t]
                                      /\ scorer'[t] = scorer[t]
                                      /\ preparer'[t] = preparer[t]
           /\ o.set.frozen # <<>> /\ scorer'[s].pc # "off" => scorer'[s].cancelled
           /\ preparer'[s].pc # "off" => o.set.frozen # <<>>
           /\ \A t \in retiring' \cup wake' : sets[t] # None
<1>1. WorkerTypeOK /\ Worked(s) /\ \A t \in retiring \cup wake : sets[t] # None
  BY WorkerSet
<1>2. Grown(sets[s], o.set)
  BY DEF GoodOutcome, Grown, Widened
<1>3. b.frozen # <<>> /\ Registered(s) => scorer[s].cancelled
  BY <1>1 DEF Worked, Widened
<1>4. /\ sets' = [sets EXCEPT ![s] = o.set]
      /\ lexical' \in [SetIds -> {"off", "walk", "finish", "start"}]
      /\ scorer' \in [SetIds -> ScorerType]
      /\ \A t \in SetIds \ {s} : lexical'[t] = lexical[t] /\ scorer'[t] = scorer[t]
      /\ o.set.frozen # <<>> /\ scorer'[s].pc # "off" => scorer'[s].cancelled
  BY <1>1, <1>3, FreezeWorks
<1>5. WorkerTypeOK'
  BY <1>1, <1>4 DEF WorkerTypeOK
<1>6. preparer'[s].pc # "off" => o.set.frozen # <<>>
  BY <1>1, <1>2 DEF Worked, Grown
<1>7. QED
  BY <1>1, <1>2, <1>4, <1>5, <1>6

\* Page zero frozen by a worker.
LEMMA WorkerFreezes ==
    ASSUME PagesInv, NEW s \in SetIds, sets[s] # None, NEW b, Widened(sets[s], b),
           NEW o, GoodOutcome(b, o), NEW otherwise \in {"off", "walk", "finish", "start"},
           Freeze(s, b, o, otherwise), UNCHANGED <<retiring, wake, preparer, serverVars>>
    PROVE  PagesInv'
<1> DEFINE p == o.set
<1>1. /\ Grown(sets[s], p) /\ sets' = [sets EXCEPT ![s] = p]
      /\ WorkerTypeOK'
      /\ \A t \in SetIds \ {s} : /\ lexical'[t] = lexical[t]
                                 /\ scorer'[t] = scorer[t]
                                 /\ preparer'[t] = preparer[t]
      /\ p.frozen # <<>> /\ scorer'[s].pc # "off" => scorer'[s].cancelled
      /\ preparer'[s].pc # "off" => p.frozen # <<>>
      /\ \A t \in retiring' \cup wake' : sets[t] # None
  BY FreezeKeeps
<1> HIDE DEF p
<1>2. QED
  BY <1>1, WorkerKeeps

-----------------------------------------------------------------------------
(* The workers *)

LEMMA LexicalBatchKeeps ==
    ASSUME PagesInv, NEW s \in SetIds, LexicalBatch(s)
    PROVE  PagesInv'
<1>1. /\ lexical[s] = "walk" /\ sets[s] # None /\ sets[s] \in SetType
      /\ UNCHANGED <<retiring, wake, preparer, serverVars>>
      /\ WorkerTypeOK /\ Worked(s)
  BY WorkerSet DEF LexicalBatch
<1>2. CASE lexical' = [lexical EXCEPT ![s] = "finish"] /\ UNCHANGED <<sets, scorer>>
  <2>1. WorkerTypeOK' /\ \A t \in SetIds \ {s} : lexical'[t] = lexical[t]
    BY <1>1, <1>2 DEF WorkerTypeOK
  <2>2. QED
    BY <1>1, <1>2, <2>1, WorkerSet, WideningGrows, WorkerKeeps DEF Worked, Registered
<1>3. ASSUME NEW w \in Walks(sets[s], PageSize), NEW b, NEW o, NEW otherwise \in {"finish", "walk"},
             b = [Supply(sets[s], w.found) EXCEPT !.walked = w.walked],
             \/ o \in FreezeZero(s, b, TRUE)
             \/ o = [set |-> b, walk |-> FALSE, search |-> FALSE, page |-> None],
             Freeze(s, b, o, otherwise)
      PROVE  PagesInv'
  <2>1. w.found \in SUBSET Candidates /\ w.walked \in BOOLEAN
    BY <1>1, WalkTypes
  <2>2. Widened(sets[s], b) /\ b \in SetType /\ Widened(b, b)
    BY <1>1, <1>3, <2>1, SupplyWidens DEF Widened
  <2>3. GoodOutcome(b, o)
    BY <1>3, <2>2, FreezeZeroOutcomes, WaitIsGood
  <2>4. otherwise \in {"off", "walk", "finish", "start"}
    OBVIOUS
  <2>5. QED
    BY <1>1, <1>3, <2>2, <2>3, <2>4, WorkerFreezes
<1>4. QED
  BY <1>2, <1>3 DEF LexicalBatch

LEMMA LexicalFinishKeeps ==
    ASSUME PagesInv, NEW s \in SetIds, LexicalFinish(s)
    PROVE  PagesInv'
<1> DEFINE done == ~Stopped(s) /\ (sets[s].frozen # <<>> \/ sets[s].walked)
           b == [sets[s] EXCEPT !.lexicalDone = @ \/ done]
           kept == [set |-> b, walk |-> FALSE, search |-> FALSE, page |-> None]
           otherwise(o) == IF o.set.frozen # <<>> THEN "start" ELSE "off"
<1>1. /\ lexical[s] = "finish" /\ sets[s] # None /\ sets[s] \in SetType
      /\ UNCHANGED <<retiring, wake, preparer, serverVars>>
  BY WorkerSet DEF LexicalFinish
<1>2. PICK o \in IF done /\ b.frozen = <<>> THEN FreezeZero(s, b, FALSE) ELSE {kept} :
          Freeze(s, b, o, otherwise(o))
  BY DEF LexicalFinish
<1>3. done \in BOOLEAN
  OBVIOUS
<1>4. Widened(sets[s], b) /\ b \in SetType /\ Widened(b, b)
  <2> HIDE DEF done
  <2>1. QED
    BY <1>1, <1>3 DEF Widened, SetType
<1> HIDE DEF b, done
<1>5. GoodOutcome(b, o)
  BY <1>2, <1>4, FreezeZeroOutcomes, WaitIsGood
<1>6. otherwise(o) \in {"off", "walk", "finish", "start"}
  OBVIOUS
<1> HIDE DEF otherwise
<1>7. QED
  BY <1>1, <1>2, <1>4, <1>5, <1>6, WorkerFreezes

\* A step of a worker of set s that leaves the sets alone.
LEMMA WorkerStays ==
    ASSUME PagesInv, UNCHANGED <<sets, serverVars>>, WorkerTypeOK',
           NEW s \in SetIds, sets[s] # None,
           \A t \in SetIds \ {s} : /\ lexical'[t] = lexical[t]
                                   /\ scorer'[t] = scorer[t]
                                   /\ preparer'[t] = preparer[t],
           \A t \in retiring' \cup wake' : sets[t] # None,
           sets[s].frozen # <<>> /\ scorer'[s].pc # "off" => scorer'[s].cancelled,
           preparer'[s].pc # "off" => sets[s].frozen # <<>>
    PROVE  PagesInv'
<1> DEFINE p == sets[s]
<1>1. Grown(sets[s], p) /\ sets' = [sets EXCEPT ![s] = p]
  BY WorkerSet, WideningGrows
<1> HIDE DEF p
<1>2. p = sets[s]
  BY DEF p
<1>3. QED
  BY <1>1, <1>2, WorkerKeeps

\* The preparer is started for a live set with a page, or not at all.
LEMMA MaybeStartTypes ==
    ASSUME PagesInv, NEW s \in SetIds, MaybeStart(s)
    PROVE  /\ preparer' \in [SetIds -> PreparerType]
           /\ \A t \in SetIds \ {s} : preparer'[t] = preparer[t]
           /\ preparer'[s].pc # "off" => sets[s].frozen # <<>>
           /\ preparer' # preparer => Allowed(s) /\ preparer'[s].pc = "walk" /\ sets[s] # None
<1>1. WorkerTypeOK /\ Worked(s) /\ \A t \in Live : sets[t] # None
  BY WorkerSet DEF PagesInv, TypeOK
<1>2. CASE Allowed(s)
  <2>1. sets[s].frozen # <<>> /\ preparer' = [preparer EXCEPT ![s].pc = "walk"] /\ sets[s] # None
    BY <1>1, <1>2 DEF Allowed, MaybeStart, Stopped
  <2>2. QED
    BY <1>1, <1>2, <2>1 DEF WorkerTypeOK, PreparerType
<1>3. CASE ~Allowed(s)
  <2>1. preparer' = preparer
    BY <1>3 DEF MaybeStart
  <2>2. QED
    BY <1>1, <2>1 DEF WorkerTypeOK, Worked
<1>4. QED
  BY <1>2, <1>3

LEMMA LexicalRestKeeps ==
    ASSUME PagesInv, NEW s \in SetIds, LexicalCollides(s) \/ LexicalStart(s)
    PROVE  PagesInv'
<1>1. /\ sets[s] # None /\ WorkerTypeOK /\ Worked(s)
      /\ UNCHANGED <<sets, scorer, retiring, wake, serverVars>>
      /\ \A t \in retiring \cup wake : sets[t] # None
  BY WorkerSet DEF LexicalCollides, LexicalStart
<1>2. CASE LexicalCollides(s)
  <2>1. lexical' = [lexical EXCEPT ![s] = "finish"] /\ preparer' = preparer
    BY <1>2 DEF LexicalCollides
  <2>2. WorkerTypeOK'
    BY <1>1, <2>1 DEF WorkerTypeOK
  <2>3. \A t \in SetIds \ {s} : lexical'[t] = lexical[t]
    BY <1>1, <2>1 DEF WorkerTypeOK
  <2>4. QED
    BY <1>1, <2>1, <2>2, <2>3, WorkerStays DEF Worked, Registered
<1>3. CASE LexicalStart(s)
  <2>1. lexical' = [lexical EXCEPT ![s] = "off"] /\ MaybeStart(s)
    BY <1>3 DEF LexicalStart
  <2>2. WorkerTypeOK'
    BY <1>1, <2>1, MaybeStartTypes DEF WorkerTypeOK
  <2>3. \A t \in SetIds \ {s} : lexical'[t] = lexical[t]
    BY <1>1, <2>1 DEF WorkerTypeOK
  <2>4. QED
    BY <1>1, <2>1, <2>2, <2>3, MaybeStartTypes, WorkerStays DEF Worked, Registered
<1>4. QED
  BY <1>2, <1>3

\* A scorer that retires.
LEMMA RetireTypes ==
    ASSUME PagesInv, NEW s \in SetIds, sets[s] # None, Retire(s),
           UNCHANGED <<lexical, wake, preparer>>
    PROVE  /\ WorkerTypeOK'
           /\ \A t \in SetIds \ {s} : scorer'[t] = scorer[t]
           /\ \A t \in retiring' \cup wake' : sets[t] # None
           /\ scorer'[s].pc = "off"
<1>1. WorkerTypeOK /\ \A t \in retiring \cup wake : sets[t] # None
  BY WorkerSet
<1>2. NoScorer \in ScorerType /\ NoScorer.pc = "off"
  BY DEF NoScorer, ScorerType
<1> DEFINE x == NoScorer
<1>3. scorer' = [scorer EXCEPT ![s] = x] /\ retiring' = retiring \cup {s}
  BY DEF Retire
<1> HIDE DEF x
<1>4. QED
  BY <1>1, <1>2, <1>3 DEF WorkerTypeOK, x

LEMMA ScorerMovesKeeps ==
    ASSUME PagesInv, NEW s \in SetIds, ScorerBegin(s) \/ ScorerAnswer(s)
    PROVE  PagesInv'
<1>1. /\ sets[s] # None /\ sets[s] \in SetType /\ WorkerTypeOK /\ Worked(s)
      /\ UNCHANGED <<sets, lexical, wake, preparer, serverVars>>
      /\ scorer[s].pc \in {"loop", "score"}
      /\ \A t \in retiring \cup wake : sets[t] # None
  BY WorkerSet DEF ScorerBegin, ScorerAnswer, Registered
<1>2. CASE Retire(s)
  BY <1>1, <1>2, RetireTypes, WorkerStays DEF Worked
<1>3. CASE UNCHANGED retiring /\ scorer' = [scorer EXCEPT ![s].pc = "score"]
  <2>1. WorkerTypeOK'
    BY <1>1, <1>3 DEF WorkerTypeOK, ScorerType
  <2>2. /\ \A t \in SetIds \ {s} : scorer'[t] = scorer[t]
        /\ scorer'[s].cancelled = scorer[s].cancelled
    BY <1>1, <1>3 DEF WorkerTypeOK, ScorerType
  <2>3. QED
    BY <1>1, <1>3, <2>1, <2>2, WorkerStays DEF Worked, Registered
<1>4. CASE /\ UNCHANGED retiring
           /\ scorer' = [scorer EXCEPT ![s].pc = "merge", ![s].keep = sets[s].supplied]
  <2>1. sets[s].supplied \in SUBSET Candidates
    BY <1>1 DEF SetType
  <2> DEFINE x == [scorer[s] EXCEPT !.pc = "merge", !.keep = sets[s].supplied]
  <2>2. x \in ScorerType /\ scorer' = [scorer EXCEPT ![s] = x] /\ x.cancelled = scorer[s].cancelled
    BY <1>1, <1>4, <2>1 DEF WorkerTypeOK, ScorerType
  <2> HIDE DEF x
  <2>3. /\ WorkerTypeOK'
        /\ \A t \in SetIds \ {s} : scorer'[t] = scorer[t]
        /\ scorer'[s].cancelled = scorer[s].cancelled
    BY <1>1, <1>4, <2>2 DEF WorkerTypeOK
  <2>4. QED
    BY <1>1, <1>4, <2>3, WorkerStays DEF Worked, Registered
<1>5. QED
  BY <1>2, <1>3, <1>4 DEF ScorerBegin, ScorerAnswer

LEMMA ScorerMergeKeeps ==
    ASSUME PagesInv, NEW s \in SetIds, ScorerMerge(s)
    PROVE  PagesInv'
<1>1. /\ sets[s] # None /\ sets[s] \in SetType /\ WorkerTypeOK /\ Worked(s)
      /\ UNCHANGED <<lexical, wake, preparer, serverVars>>
      /\ scorer[s].pc = "merge" /\ scorer[s].keep \in SUBSET Candidates
      /\ \A t \in retiring \cup wake : sets[t] # None
  BY WorkerSet DEF ScorerMerge, Registered, WorkerTypeOK, ScorerType
<1>2. CASE Retire(s) /\ UNCHANGED sets
  BY <1>1, <1>2, RetireTypes, WorkerStays DEF Worked
<1>3. ASSUME NEW S \in SUBSET (scorer[s].keep \cup (Candidates \ sets[s].seen)),
             NEW out \in BOOLEAN, NEW b, b = Merge(sets[s], S, scorer[s].keep, out),
             sets' = [sets EXCEPT ![s] = b],
             \/ Retire(s)
             \/ /\ scorer' = [scorer EXCEPT ![s].pc = "score", ![s].keep = {}]
                /\ UNCHANGED retiring
      PROVE  PagesInv'
  <2>1. S \in SUBSET Candidates
    BY <1>1
  <2>2. Widened(sets[s], b)
    BY <1>1, <1>3, <2>1, MergeWidens
  <2>3. Grown(sets[s], b) /\ b.frozen = sets[s].frozen
    BY <2>2, WideningGrows DEF Widened
  <2>4. CASE Retire(s)
    BY <1>1, <1>3, <2>3, <2>4, RetireTypes, WorkerKeeps DEF Worked
  <2>5. CASE /\ scorer' = [scorer EXCEPT ![s].pc = "score", ![s].keep = {}]
             /\ UNCHANGED retiring
    <3> DEFINE x == [scorer[s] EXCEPT !.pc = "score", !.keep = {}]
    <3>1. x \in ScorerType /\ scorer' = [scorer EXCEPT ![s] = x] /\ x.cancelled = scorer[s].cancelled
      BY <1>1, <2>5 DEF WorkerTypeOK, ScorerType
    <3> HIDE DEF x
    <3>2. /\ WorkerTypeOK'
          /\ \A t \in SetIds \ {s} : scorer'[t] = scorer[t]
          /\ scorer'[s].cancelled = scorer[s].cancelled
      BY <1>1, <2>5, <3>1 DEF WorkerTypeOK
    <3>3. QED
      BY <1>1, <1>3, <2>3, <2>5, <3>2, WorkerKeeps DEF Worked, Registered
  <2>6. QED
    BY <1>3, <2>4, <2>5
<1>4. QED
  BY <1>2, <1>3 DEF ScorerMerge

LEMMA ScorerRetiredKeeps ==
    ASSUME PagesInv, NEW s \in SetIds, ScorerRetired(s)
    PROVE  PagesInv'
<1>1. /\ sets[s] # None /\ sets[s] \in SetType /\ WorkerTypeOK /\ Worked(s)
      /\ UNCHANGED <<lexical, scorer, preparer, serverVars>>
      /\ retiring' = retiring \ {s}
      /\ wake' = wake \cup {t \in Live : sets[t].id = sets[s].id}
      /\ \A t \in retiring \cup wake : sets[t] # None
      /\ Live \subseteq SetIds /\ \A t \in Live : sets[t] # None
  BY WorkerSet DEF ScorerRetired, PagesInv, TypeOK, Live, ToSet
<1> DEFINE done == sets[s].searchDone \/ (s \in Live /\ (sets[s].exhausted \/ sets[s].frozen # <<>>))
           p == [sets[s] EXCEPT !.searchDone = done]
<1>2. sets' = [sets EXCEPT ![s] = p]
  BY DEF ScorerRetired
<1>3. Widened(sets[s], p)
  <2>1. done \in BOOLEAN
    BY <1>1 DEF SetType
  <2> HIDE DEF done
  <2>2. QED
    BY <1>1, <2>1 DEF Widened, SetType
<1> HIDE DEF p
<1>4. Grown(sets[s], p) /\ p.frozen = sets[s].frozen
  BY <1>3, WideningGrows DEF Widened
<1>5. WorkerTypeOK' /\ \A t \in retiring' \cup wake' : sets[t] # None
  BY <1>1 DEF WorkerTypeOK
<1>6. QED
  BY <1>1, <1>2, <1>4, <1>5, WorkerKeeps DEF Worked, Registered

LEMMA ScorerWakesKeeps ==
    ASSUME PagesInv, NEW s \in SetIds, ScorerWakes(s)
    PROVE  PagesInv'
<1>1. /\ sets[s] # None /\ WorkerTypeOK /\ Worked(s)
      /\ UNCHANGED <<sets, lexical, scorer, retiring, serverVars>>
      /\ wake' = wake \ {s} /\ MaybeStart(s)
      /\ \A t \in retiring \cup wake : sets[t] # None
  BY WorkerSet DEF ScorerWakes
<1>2. WorkerTypeOK' /\ \A t \in retiring' \cup wake' : sets[t] # None
  BY <1>1, MaybeStartTypes DEF WorkerTypeOK
<1>3. QED
  BY <1>1, <1>2, MaybeStartTypes, WorkerStays DEF Worked, Registered

\* The preparer of s moves.
LEMMA PreparerKeeps ==
    ASSUME PagesInv, NEW s \in SetIds, preparer[s].pc # "off",
           UNCHANGED <<lexical, scorer, retiring, wake, serverVars>>,
           NEW p, Grown(sets[s], p), sets' = [sets EXCEPT ![s] = p],
           NEW x \in PreparerType, preparer' = [preparer EXCEPT ![s] = x]
    PROVE  PagesInv'
<1>1. /\ sets[s] # None /\ sets[s].frozen # <<>> /\ WorkerTypeOK /\ Worked(s)
      /\ \A t \in retiring \cup wake : sets[t] # None
  BY WorkerSet DEF Worked
<1>2. WorkerTypeOK' /\ \A t \in SetIds \ {s} : preparer'[t] = preparer[t]
  BY <1>1 DEF WorkerTypeOK
<1>3. p.frozen # <<>>
  BY <1>1 DEF Grown
<1>4. QED
  BY <1>1, <1>2, <1>3, WorkerKeeps DEF Worked, Registered

LEMMA PreparerMovesKeeps ==
    ASSUME PagesInv, NEW s \in SetIds,
           PreparerCollides(s) \/ PreparerOut(s) \/ PreparerLoop(s)
    PROVE  PagesInv'
<1>1. /\ preparer[s].pc # "off" /\ preparer[s] \in PreparerType /\ preparer \in [SetIds -> PreparerType]
      /\ UNCHANGED <<sets, lexical, scorer, retiring, wake, serverVars>>
      /\ sets[s] # None /\ sets[s] \in SetType
      /\ Grown(sets[s], sets[s]) /\ sets' = [sets EXCEPT ![s] = sets[s]]
  BY WorkerSet, WideningGrows DEF PreparerCollides, PreparerOut, PreparerLoop, WorkerTypeOK
<1>2. Len(sets[s].frozen) + 1 \in Nat
  BY <1>1 DEF SetType
<1>3. PICK x \in PreparerType : preparer' = [preparer EXCEPT ![s] = x]
  <2>1. ASSUME NEW pc \in {"off", "failed"}, PreparerAt(s, pc)
        PROVE  \E x \in PreparerType : preparer' = [preparer EXCEPT ![s] = x]
    <3>1. [preparer[s] EXCEPT !.pc = pc] \in PreparerType
      BY <1>1 DEF PreparerType
    <3>2. QED
      BY <2>1, <3>1 DEF PreparerAt
  <2>2. ASSUME PreparerEnds(s) \/ PreparerDies(s)
        PROVE  \E x \in PreparerType : preparer' = [preparer EXCEPT ![s] = x]
    <3>1. /\ [NoPreparer EXCEPT !.pc = "end"] \in PreparerType
          /\ [NoPreparer EXCEPT !.pc = "dying"] \in PreparerType
      BY DEF NoPreparer, PreparerType
    <3>2. QED
      BY <2>2, <3>1 DEF PreparerEnds, PreparerDies
  <2>3. ASSUME NEW pc \in {"direct", "search"},
               preparer' = [preparer EXCEPT ![s].pc = pc, ![s].next = Len(sets[s].frozen) + 1]
        PROVE  \E x \in PreparerType : preparer' = [preparer EXCEPT ![s] = x]
    <3>1. [preparer[s] EXCEPT !.pc = pc, !.next = Len(sets[s].frozen) + 1] \in PreparerType
      BY <1>1, <1>2 DEF PreparerType
    <3>2. QED
      BY <2>3, <3>1
  <2>4. QED
    BY <2>1, <2>2, <2>3 DEF PreparerCollides, PreparerOut, PreparerLoop
<1>4. QED
  BY <1>1, <1>3, PreparerKeeps

LEMMA PreparerWalkKeeps ==
    ASSUME PagesInv, NEW s \in SetIds, PreparerWalk(s)
    PROVE  PagesInv'
<1> DEFINE missing == Capacity - Total(sets[s]) - Cardinality(sets[s].pending)
           limit == Max({0, missing, Target(sets[s])})
<1>1. /\ preparer[s].pc # "off" /\ preparer[s] \in PreparerType /\ preparer \in [SetIds -> PreparerType]
      /\ UNCHANGED <<lexical, scorer, retiring, wake, serverVars>>
      /\ sets[s] # None /\ sets[s] \in SetType
      /\ Grown(sets[s], sets[s]) /\ sets = [sets EXCEPT ![s] = sets[s]]
  BY WorkerSet, WideningGrows DEF PreparerWalk, WorkerTypeOK
<1>2. CASE PreparerEnds(s) /\ UNCHANGED sets
  <2>1. [NoPreparer EXCEPT !.pc = "end"] \in PreparerType
    BY DEF NoPreparer, PreparerType
  <2>2. QED
    BY <1>1, <1>2, <2>1, PreparerKeeps DEF PreparerEnds
<1>3. ASSUME NEW w \in Walks(sets[s], limit), NEW b, NEW ready \in BOOLEAN,
             b = [Supply(sets[s], w.found) EXCEPT !.walked = w.walked],
             NEW S \in SUBSET (Candidates \ b.seen), NEW out \in BOOLEAN,
             sets' = [sets EXCEPT ![s] = Merge(b, S, {}, out)],
             preparer' = [preparer EXCEPT ![s].pc = "loop", ![s].ready = ready]
      PROVE  PagesInv'
  <2>1. w.found \in SUBSET Candidates /\ w.walked \in BOOLEAN
    BY <1>1, WalkTypes
  <2>2. Widened(sets[s], b) /\ b \in SetType
    <3>1. Widened(sets[s], [Supply(sets[s], w.found) EXCEPT !.walked = w.walked])
      BY <1>1, <2>1, SupplyWidens
    <3>2. Widened(sets[s], b)
      BY <1>3, <3>1
    <3>3. QED
      BY <3>2 DEF Widened
  <2>3. Widened(b, Merge(b, S, {}, out))
    BY <2>2, MergeWidens
  <2>4. Grown(sets[s], Merge(b, S, {}, out))
    BY <2>2, <2>3, WideningTwice, WideningGrows
  <2>6. [preparer[s] EXCEPT !.pc = "loop", !.ready = ready] \in PreparerType
    BY <1>1 DEF PreparerType
  <2>7. preparer' = [preparer EXCEPT ![s] = [preparer[s] EXCEPT !.pc = "loop", !.ready = ready]]
    BY <1>3
  <2>8. QED
    BY <1>1, <1>3, <2>4, <2>6, <2>7, PreparerKeeps
<1> DEFINE B(w) == [Supply(sets[s], w.found) EXCEPT !.walked = w.walked]
           Ready(w) == Total(B(w)) + Cardinality(B(w).pending) >= Capacity
<1>4. CASE ~(PreparerEnds(s) /\ UNCHANGED sets)
  <2>1. PICK w \in Walks(sets[s], limit) :
            \E S \in SUBSET (Candidates \ B(w).seen), out \in BOOLEAN :
            /\ sets' = [sets EXCEPT ![s] = Merge(B(w), S, {}, out)]
            /\ preparer' = [preparer EXCEPT ![s].pc = "loop", ![s].ready = Ready(w)]
    BY <1>4 DEF PreparerWalk
  <2>2. Ready(w) \in BOOLEAN
    OBVIOUS
  <2> HIDE DEF Ready
  <2>3. QED
    BY <1>3, <2>1, <2>2
<1>5. QED
  BY <1>2, <1>4

\* What the preparer does to its set: nothing, new candidates, or a page.
LEMMA PreparerPageEffects ==
    ASSUME PagesInv, NEW s \in SetIds, PreparerPage(s)
    PROVE  /\ preparer[s].pc # "off" /\ sets[s] # None
           /\ UNCHANGED <<lexical, scorer, retiring, wake, serverVars>>
           /\ \E x \in PreparerType : preparer' = [preparer EXCEPT ![s] = x]
           /\ \E p : Grown(sets[s], p) /\ sets' = [sets EXCEPT ![s] = p]
           /\ Stopped(s) => sets' = sets
           /\ preparer'[s].pc = "off" => preparer[s].pc = "off"
           /\ preparer'[s].pc = "end" => Stopped(s) \/ ~sets'[s].more \/ Full(sets'[s])
<1>1. /\ preparer[s].pc \in {"direct", "search"} /\ preparer[s] \in PreparerType
      /\ preparer \in [SetIds -> PreparerType] /\ preparer[s].next \in Nat
      /\ UNCHANGED <<lexical, scorer, retiring, wake, serverVars>>
      /\ sets[s] # None /\ sets[s] \in SetType /\ sets \in [SetIds -> SetType \cup {None}]
      /\ Grown(sets[s], sets[s]) /\ sets = [sets EXCEPT ![s] = sets[s]]
  BY WorkerSet, WideningGrows DEF PreparerPage, WorkerTypeOK, PreparerType, PagesInv, TypeOK
<1>2. /\ [NoPreparer EXCEPT !.pc = "end"] \in PreparerType
      /\ [NoPreparer EXCEPT !.pc = "dying"] \in PreparerType
      /\ [NoPreparer EXCEPT !.pc = "dying"].pc = "dying"
      /\ [preparer[s] EXCEPT !.pc = "loop"] \in PreparerType
      /\ [preparer[s] EXCEPT !.pc = "loop"].pc = "loop"
  BY <1>1 DEF NoPreparer, PreparerType
<1> DEFINE Moved == \E x \in PreparerType : preparer' = [preparer EXCEPT ![s] = x]
           Kept == /\ \E p : Grown(sets[s], p) /\ sets' = [sets EXCEPT ![s] = p]
                   /\ Stopped(s) => sets' = sets
<1>3. PreparerEnds(s) => Moved /\ preparer'[s].pc # "off"
  BY <1>1, <1>2 DEF PreparerEnds, NoPreparer
<1>4. PreparerDies(s) => Moved /\ preparer'[s].pc = "dying"
  BY <1>1, <1>2 DEF PreparerDies
<1>5. PreparerAt(s, "loop") => Moved /\ preparer'[s].pc = "loop"
  <2>1. PreparerAt(s, "loop") =>
            preparer' = [preparer EXCEPT ![s] = [preparer[s] EXCEPT !.pc = "loop"]]
    BY DEF PreparerAt
  <2>2. QED
    BY <1>1, <1>2, <2>1
<1>6. preparer' = preparer => Moved
  BY <1>1
<1>7. UNCHANGED sets => Kept
  BY <1>1
<1> DEFINE Ended == preparer'[s].pc = "end" => Stopped(s) \/ ~sets'[s].more \/ Full(sets'[s])
           Result == Moved /\ Kept /\ Ended /\ preparer'[s].pc # "off"
<1> SUFFICES Result
  BY <1>1
<1>8. CASE PreparerEnds(s) /\ UNCHANGED sets /\ Stopped(s)
  BY <1>3, <1>7, <1>8
<1>9. CASE PreparerAt(s, "loop") /\ UNCHANGED sets
  BY <1>5, <1>7, <1>9
<1>10. CASE PreparerDies(s) /\ UNCHANGED sets
  BY <1>4, <1>7, <1>10
<1>11. CASE ~Stopped(s) /\ PreparerFreeze(s)
  <2> DEFINE b == LaterPage(sets[s], preparer[s].next)
  <2>1. Grown(sets[s], b)
    BY <1>1, LaterPageGrows
  <2>2. CASE Full(sets[s]) /\ PreparerEnds(s) /\ UNCHANGED sets
    BY <1>3, <1>7, <2>2
  <2>3. CASE /\ sets' = [sets EXCEPT ![s] = b]
             /\ (~b.more /\ PreparerEnds(s)) \/ PreparerAt(s, "loop")
    <3> HIDE DEF b
    <3>1. Kept /\ sets'[s] = b
      BY <1>1, <1>11, <2>1, <2>3
    <3>2. QED
      BY <1>3, <1>5, <2>3, <3>1
  <2>4. QED
    BY <1>11, <2>2, <2>3 DEF PreparerFreeze
<1>12. CASE ~Stopped(s) /\ PreparerExpand(s)
  <2>1. ASSUME NEW S \in SUBSET (Candidates \ sets[s].seen), NEW out \in BOOLEAN,
               sets' = [sets EXCEPT ![s] = Merge(sets[s], S, {}, out)], UNCHANGED preparer
        PROVE  Result
    <3>1. Grown(sets[s], Merge(sets[s], S, {}, out))
      BY <1>1, MergeWidens, WideningGrows
    <3>2. QED
      BY <1>1, <1>6, <1>12, <2>1, <3>1
  <2>2. QED
    BY <1>9, <1>10, <1>12, <2>1 DEF PreparerExpand
<1>13. QED
  BY <1>8, <1>9, <1>10, <1>11, <1>12 DEF PreparerPage

LEMMA PreparerPageKeeps ==
    ASSUME PagesInv, NEW s \in SetIds, PreparerPage(s)
    PROVE  PagesInv'
BY PreparerPageEffects, PreparerKeeps

LEMMA WorkersKeep ==
    ASSUME PagesInv, WorkerStep
    PROVE  PagesInv'
BY LexicalBatchKeeps, LexicalFinishKeeps, LexicalRestKeeps, ScorerMovesKeeps, ScorerMergeKeeps,
   ScorerRetiredKeeps, ScorerWakesKeeps, PreparerWalkKeeps, PreparerMovesKeeps, PreparerPageKeeps
   DEF WorkerStep

-----------------------------------------------------------------------------
(* The requests *)

\* A step that leaves the sets alone: the searches it leaves unset, and the
\* sets it leaves in use, were there before.
LEMMA SearchKeeps ==
    ASSUME PagesInv, UNCHANGED sets,
           latest' \in Search \cup {None}, tokens' \in 0 .. MaxTokens, tokens <= tokens',
           cancelled \subseteq cancelled', cancelled' \subseteq 1 .. tokens',
           \A t \in 1 .. tokens' : t \notin cancelled' => latest' # None /\ latest'.token = t,
           latest' # None => latest'.token > cleared' /\ latest'.token <= tokens',
           sessions' \in Seq(SetIds), IsInjective(sessions'), Live' \subseteq Live,
           request' \in [Requests -> RequestType'],
           \A r \in Requests : request'[r] = request[r] \/ Found(r)',
           WorkerTypeOK', \A s \in SetIds : Worked(s)', ShownFrozen',
           clearing' \in BOOLEAN, cleared' \in 0 .. tokens', ClearedStaysCleared'
    PROVE  PagesInv'
<1>1. /\ sets \in [SetIds -> SetType \cup {None}] /\ tokens \in Nat /\ tokens' \in Nat
      /\ \A s \in Live : sets[s] # None
  BY DEF PagesInv, TypeOK
<1>2. TypeOK'
  BY <1>1 DEF TypeOK
<1>3. Tokens'
  <2>1. \A s \in SetIds : sets[s] # None => sets[s].token \in Nat /\ sets[s].token <= tokens
    BY <1>1, PagesAssumption DEF PagesInv, Tokens, SetType
  <2>2. \A s \in SetIds : sets'[s] # None => sets'[s].token <= tokens'
    BY <1>1, <2>1
  <2>3. QED
    BY <2>2 DEF Tokens
<1>4. OneSearch'
  BY DEF PagesInv, OneSearch
<1>5. \A r \in Requests : Found(r)'
  BY DEF PagesInv, Found
<1>6. Numbered'
  BY DEF PagesInv, Numbered
<1>7. QED
  BY <1>2, <1>3, <1>4, <1>5, <1>6 DEF PagesInv

\* The same when the workers are left alone too.
LEMMA RequestKeeps ==
    ASSUME PagesInv, UNCHANGED <<sets, workerVars, shown>>,
           latest' \in Search \cup {None}, tokens' \in 0 .. MaxTokens, tokens <= tokens',
           cancelled \subseteq cancelled', cancelled' \subseteq 1 .. tokens',
           \A t \in 1 .. tokens' : t \notin cancelled' => latest' # None /\ latest'.token = t,
           latest' # None => latest'.token > cleared' /\ latest'.token <= tokens',
           sessions' \in Seq(SetIds), IsInjective(sessions'), Live' \subseteq Live,
           request' \in [Requests -> RequestType'],
           \A r \in Requests : request'[r] = request[r] \/ Found(r)',
           clearing' \in BOOLEAN, cleared' \in 0 .. tokens', ClearedStaysCleared'
    PROVE  PagesInv'
<1>1. WorkerTypeOK'
  BY DEF PagesInv, TypeOK, WorkerTypeOK
<1>2. \A s \in SetIds : Worked(s)'
  BY DEF PagesInv, Worked, Registered
<1>3. ShownFrozen'
  BY DEF PagesInv, ShownFrozen
<1>4. QED
  BY <1>1, <1>2, <1>3, SearchKeeps

\* Only request r moves.
LEMMA OneMoves ==
    ASSUME PagesInv, NEW r \in Requests, NEW x, request' = [request EXCEPT ![r] = x],
           x \in RequestType', tokens' \in Nat, tokens <= tokens'
    PROVE  /\ request' \in [Requests -> RequestType']
           /\ \A q \in Requests \ {r} : request'[q] = request[q]
           /\ request'[r] = x
<1>1. tokens \in Nat /\ request \in [Requests -> RequestType]
  BY DEF PagesInv, TypeOK
<1>2. 0 .. tokens \subseteq 0 .. tokens'
  BY <1>1
<1>3. RequestType \subseteq RequestType'
  BY <1>2 DEF RequestType
<1>4. QED
  BY <1>1, <1>3

\* A request that is still admitted, and a set that is not stopped, belong to
\* the newest search.
LEMMA StillAdmitted ==
    ASSUME PagesInv, NEW r \in Requests, request[r].pc # "idle", Admitted(r)
    PROVE  /\ latest # None /\ latest.token = request[r].token
           /\ request[r].token \in 1 .. tokens
           /\ request[r].id \in Identities
           /\ request[r].token > cleared
           /\ \A s \in SetIds : sets[s] # None /\ sets[s].token \notin cancelled =>
                    sets[s].token = request[r].token
<1>1. /\ request[r].token \in 0 .. tokens /\ tokens \in Nat /\ Found(r) /\ Tokens
      /\ sets \in [SetIds -> SetType \cup {None}]
  BY DEF PagesInv, TypeOK, RequestType
<1>2. request[r].token \in 1 .. tokens /\ request[r].token \notin cancelled
  BY <1>1 DEF Found, Admitted
<1>3. \A s \in SetIds : sets[s] # None => sets[s].token \in 1 .. tokens
  BY <1>1, PagesAssumption DEF Tokens, SetType
<1>4. QED
  BY <1>1, <1>2, <1>3 DEF Tokens, Found

\* What the invariant says of the sets in use.
LEMMA InUse ==
    ASSUME PagesInv
    PROVE  /\ sessions \in Seq(SetIds) /\ IsInjective(sessions) /\ Live = ToSet(sessions)
           /\ Live \subseteq SetIds
           /\ \A s \in Live : sets[s] # None /\ sets[s] \in SetType /\ sets[s].token \in 1 .. tokens
<1>1. /\ sets \in [SetIds -> SetType \cup {None}] /\ sessions \in Seq(SetIds) /\ Tokens
      /\ \A s \in Live : sets[s] # None
  BY DEF PagesInv, TypeOK
<1>2. Live \subseteq SetIds
  BY <1>1 DEF Live, ToSet
<1>3. \A s \in Live : sets[s].token \in 1 .. tokens
  BY <1>1, <1>2, PagesAssumption DEF PagesInv, TypeOK, Tokens, SetType
<1>4. QED
  BY <1>1, <1>2, <1>3 DEF PagesInv, TypeOK, Live

LEMMA AdmitKeeps ==
    ASSUME PagesInv, NEW r \in Requests, NEW i \in Identities, Admit(r, i)
    PROVE  PagesInv'
<1> DEFINE shares == latest # None /\ latest.id = i /\ latest.token \notin cancelled
           token == IF shares THEN latest.token ELSE tokens + 1
           x == [NoRequest EXCEPT !.pc = "lookup", !.id = i, !.token = token]
<1>1. /\ latest \in Search \cup {None} /\ tokens \in Nat /\ cancelled \subseteq 1 .. tokens
      /\ clearing \in BOOLEAN /\ cleared \in 0 .. tokens /\ Tokens /\ tokens <= MaxTokens
      /\ MaxTokens \in Nat
  BY PagesAssumption DEF PagesInv, TypeOK
<1>2. /\ token <= MaxTokens
      /\ tokens' = IF shares THEN tokens ELSE token
      /\ latest' = [id |-> i, token |-> token]
      /\ cancelled' = IF shares \/ latest = None THEN cancelled ELSE cancelled \cup {latest.token}
      /\ request' = [request EXCEPT ![r] = x]
      /\ UNCHANGED <<sessions, sets, workerVars, clearVars, shown>>
  BY DEF Admit
<1>3. latest # None => latest.token \in 1 .. tokens /\ latest.token > cleared
  BY <1>1 DEF Tokens, Search
<1>4. /\ tokens' \in 0 .. MaxTokens /\ tokens' \in Nat /\ tokens <= tokens' /\ token \in 1 .. tokens'
      /\ token > cleared /\ token \in 1 .. MaxTokens
  BY <1>1, <1>2, <1>3
<1>5. latest' \in Search /\ latest' # None /\ latest'.token = token
  BY <1>2, <1>4, NoneAssumption DEF Search
<1>6. cancelled \subseteq cancelled' /\ cancelled' \subseteq 1 .. tokens'
  BY <1>1, <1>2, <1>3, <1>4
<1>7. ASSUME NEW t \in 1 .. tokens', t \notin cancelled' PROVE token = t
  <2>1. CASE t \in 1 .. tokens
    <3>1. latest # None /\ latest.token = t
      BY <1>1, <1>6, <1>7, <2>1 DEF Tokens
    <3>2. shares
      BY <1>2, <1>7, <3>1
    <3>3. QED
      BY <3>1, <3>2
  <2>2. CASE t \notin 1 .. tokens
    BY <1>1, <1>2, <1>3, <1>4, <2>2
  <2>3. QED
    BY <2>1, <2>2
<1> HIDE DEF token
<1>8. /\ x \in RequestType' /\ x.pc = "lookup" /\ x.token = token /\ x.id = i
  <2>2. token \in 0 .. tokens' /\ 0 \in 0 .. MaxSets
    BY <1>4, PagesAssumption
  <2>3. QED
    BY <2>2 DEF NoRequest, RequestType
<1> HIDE DEF x
<1>9. request' \in [Requests -> RequestType'] /\ \A q \in Requests : request'[q] = request[q] \/ Found(q)'
  <2>1. /\ request' \in [Requests -> RequestType'] /\ request'[r] = x
        /\ \A q \in Requests \ {r} : request'[q] = request[q]
    BY <1>2, <1>4, <1>8, OneMoves
  <2>2. Found(r)'
    BY <1>1, <1>4, <1>8, <2>1 DEF Found
  <2>3. QED
    BY <2>1, <2>2
<1>10. /\ sessions' \in Seq(SetIds) /\ IsInjective(sessions') /\ Live' \subseteq Live
       /\ ClearedStaysCleared'
  BY <1>2 DEF PagesInv, TypeOK, Live, ClearedStaysCleared
<1>11. cleared' \in 0 .. tokens' /\ clearing' \in BOOLEAN
  BY <1>1, <1>2, <1>4
<1>12. latest' # None => latest'.token > cleared' /\ latest'.token <= tokens'
  BY <1>1, <1>2, <1>4, <1>5
<1>13. QED
  BY <1>2, <1>4, <1>5, <1>6, <1>7, <1>9, <1>10, <1>11, <1>12, RequestKeeps

\* A step between admissions and clears that stops searches and drops sets.
LEMMA DroppingKeeps ==
    ASSUME PagesInv, UNCHANGED <<latest, tokens, sets, workerVars, clearVars, shown>>,
           cancelled \subseteq cancelled', cancelled' \subseteq 1 .. tokens,
           sessions' \in Seq(SetIds), IsInjective(sessions'), Live' \subseteq Live,
           request' \in [Requests -> RequestType],
           \A r \in Requests : request'[r] = request[r] \/ Found(r)'
    PROVE  PagesInv'
<1>1. /\ latest \in Search \cup {None} /\ tokens \in 0 .. MaxTokens /\ tokens \in Nat
      /\ clearing \in BOOLEAN /\ cleared \in 0 .. tokens /\ Tokens /\ ClearedStaysCleared
  BY DEF PagesInv, TypeOK
<1>2. RequestType' = RequestType
  BY DEF RequestType
<1>3. /\ \A t \in 1 .. tokens' : t \notin cancelled' => latest' # None /\ latest'.token = t
      /\ latest' # None => latest'.token > cleared' /\ latest'.token <= tokens'
  BY <1>1 DEF Tokens
<1>4. ClearedStaysCleared'
  BY <1>1 DEF ClearedStaysCleared
<1>5. QED
  BY <1>1, <1>2, <1>3, <1>4, RequestKeeps

LEMMA ExpiresKeeps ==
    ASSUME PagesInv, NEW r \in Requests, Expires(r)
    PROVE  PagesInv'
<1> DEFINE x == NoRequest
<1>1. /\ UNCHANGED <<latest, tokens, cancelled, sessions, sets, workerVars, clearVars, shown>>
      /\ request' = [request EXCEPT ![r] = x]
  BY DEF Expires
<1>2. /\ tokens \in Nat /\ sessions \in Seq(SetIds) /\ IsInjective(sessions) /\ cancelled \subseteq 1 .. tokens
      /\ MaxSets \in Nat
  BY PagesAssumption DEF PagesInv, TypeOK
<1>3. x \in RequestType /\ x.pc = "idle"
  BY <1>2 DEF NoRequest, RequestType
<1>4. RequestType' = RequestType /\ Live' = Live /\ tokens' \in Nat /\ tokens <= tokens'
  BY <1>1, <1>2 DEF RequestType, Live
<1> HIDE DEF x
<1>5. /\ request' \in [Requests -> RequestType'] /\ request'[r] = x
      /\ \A q \in Requests \ {r} : request'[q] = request[q]
  <2>1. x \in RequestType'
    BY <1>3, <1>4
  <2>2. QED
    BY <1>1, <1>4, <2>1, OneMoves
<1>6. Found(r)'
  BY <1>3, <1>5 DEF Found
<1>7. QED
  BY <1>1, <1>2, <1>4, <1>5, <1>6, DroppingKeeps

LEMMA NavigateKeeps ==
    ASSUME PagesInv, NEW s \in SetIds, Navigate(s)
    PROVE  PagesInv'
<1>1. /\ s \in Live /\ sessions' = MoveToEnd(Purged(cancelled), s)
      /\ UNCHANGED <<latest, tokens, cancelled, sets, request, workerVars, clearVars, shown>>
  BY DEF Navigate
<1> DEFINE left == Purged(cancelled)
<1>2. left \in Seq(SetIds) /\ ToSet(left) \subseteq Live /\ IsInjective(left)
  BY InUse, DropKeeps DEF Purged
<1> HIDE DEF left
<1>3. sessions' \in Seq(SetIds) /\ IsInjective(sessions') /\ ToSet(sessions') = ToSet(left) \cup {s}
  BY <1>1, <1>2, MoveToEndKeeps DEF left
<1>4. Live' \subseteq Live
  BY <1>1, <1>2, <1>3 DEF Live
<1>5. request \in [Requests -> RequestType] /\ cancelled \subseteq 1 .. tokens
  BY DEF PagesInv, TypeOK
<1>6. QED
  BY <1>1, <1>3, <1>4, <1>5, DroppingKeeps

LEMMA EvictKeeps ==
    ASSUME PagesInv, Evict
    PROVE  PagesInv'
<1>1. /\ sessions # <<>> /\ sessions' = Tail(sessions)
      /\ cancelled' = cancelled \cup {sets[Head(sessions)].token}
      /\ UNCHANGED <<latest, tokens, sets, request, workerVars, clearVars, shown>>
  BY DEF Evict
<1>2. /\ Head(sessions) \in Live /\ ToSet(sessions') \subseteq Live
      /\ sessions' \in Seq(SetIds) /\ IsInjective(sessions')
  BY <1>1, InUse, EndsBelong
<1>3. Live' \subseteq Live
  BY <1>2 DEF Live
<1>4. request \in [Requests -> RequestType] /\ cancelled \subseteq 1 .. tokens
  BY DEF PagesInv, TypeOK
<1>5. cancelled' \subseteq 1 .. tokens
  BY <1>1, <1>2, <1>4, InUse
<1>6. QED
  BY <1>1, <1>2, <1>3, <1>4, <1>5, DroppingKeeps

LEMMA ClearKeeps ==
    ASSUME PagesInv, ClearBegin \/ ClearEnd
    PROVE  PagesInv'
<1>1. /\ latest \in Search \cup {None} /\ tokens \in 0 .. MaxTokens /\ tokens \in Nat
      /\ clearing \in BOOLEAN /\ cleared \in 0 .. tokens /\ Tokens
      /\ cancelled \subseteq 1 .. tokens /\ request \in [Requests -> RequestType]
      /\ sessions \in Seq(SetIds) /\ IsInjective(sessions)
  BY DEF PagesInv, TypeOK
<1>2. CASE ClearBegin
  <2>1. /\ clearing' = TRUE /\ cleared' = tokens /\ latest' = None
        /\ cancelled' = IF latest = None THEN cancelled ELSE cancelled \cup {latest.token}
        /\ UNCHANGED <<tokens, sessions, sets, request, workerVars, shown>>
    BY <1>2 DEF ClearBegin
  <2>2. latest # None => latest.token \in 1 .. tokens
    BY <1>1 DEF Tokens, Search
  <2>3. cancelled \subseteq cancelled' /\ cancelled' \subseteq 1 .. tokens'
    BY <1>1, <2>1, <2>2
  <2>4. \A t \in 1 .. tokens' : t \in cancelled'
    BY <1>1, <2>1 DEF Tokens
  <2>5. RequestType' = RequestType /\ Live' = Live /\ ClearedStaysCleared'
    BY <2>1 DEF RequestType, Live, ClearedStaysCleared
  <2>6. QED
    BY <1>1, <2>1, <2>3, <2>4, <2>5, RequestKeeps
<1>3. CASE ClearEnd
  <2>1. /\ clearing' = FALSE /\ sessions' = <<>>
        /\ cancelled' = cancelled \cup {sets[s].token : s \in Live}
        /\ UNCHANGED <<latest, tokens, sets, request, workerVars, cleared, shown>>
    BY <1>3 DEF ClearEnd
  <2>2. cancelled \subseteq cancelled' /\ cancelled' \subseteq 1 .. tokens'
    BY <1>1, <2>1, InUse
  <2>3. Live' = {} /\ sessions' \in Seq(SetIds) /\ IsInjective(sessions')
    BY <2>1 DEF Live, ToSet, IsInjective
  <2>4. RequestType' = RequestType /\ ClearedStaysCleared'
    BY <2>1, <2>3 DEF RequestType, ClearedStaysCleared
  <2>5. /\ \A t \in 1 .. tokens' : t \notin cancelled' => latest' # None /\ latest'.token = t
        /\ latest' # None => latest'.token > cleared' /\ latest'.token <= tokens'
    BY <1>1, <2>1, <2>2 DEF Tokens
  <2>6. /\ latest' \in Search \cup {None} /\ tokens' \in 0 .. MaxTokens /\ tokens <= tokens'
        /\ cleared' \in 0 .. tokens' /\ Live' \subseteq Live
    BY <1>1, <2>1, <2>3
  <2>7. request' \in [Requests -> RequestType'] /\ \A r \in Requests : request'[r] = request[r]
    BY <1>1, <2>1, <2>4
  <2>8. clearing' \in BOOLEAN
    BY <2>1
  <2>9. QED
    BY <2>1, <2>2, <2>3, <2>4, <2>5, <2>6, <2>7, <2>8, RequestKeeps
<1>4. QED
  BY <1>2, <1>3

\* The number of a set is one a request can hold.
LEMMA SetNumbers ==
    ASSUME NEW s \in SetIds
    PROVE  s \in 0 .. MaxSets
BY PagesAssumption DEF SetIds

\* A request finds a published set.
LEMMA PageFound ==
    ASSUME PagesInv, UNCHANGED <<tokens, sets>>, NEW r \in Requests, request[r].pc # "idle",
           NEW s \in Live, sets[s].frozen # <<>>, NEW page, page = sets[s].frozen[1],
           request' = [request EXCEPT ![r] = [request[r] EXCEPT !.pc = "start", !.set = s,
                                                                !.page = page]]
    PROVE  /\ request' \in [Requests -> RequestType]
           /\ \A q \in Requests : request'[q] = request[q] \/ Found(q)'
<1> DEFINE x == [request[r] EXCEPT !.pc = "start", !.set = s, !.page = page]
<1>1. /\ request \in [Requests -> RequestType] /\ request[r] \in RequestType /\ Found(r)
      /\ tokens \in Nat
  BY DEF PagesInv, TypeOK
<1>2. s \in SetIds /\ sets[s] # None /\ sets[s] \in SetType
  BY InUse
<1>3. page \in PageType
  BY <1>2 DEF SetType
<1>4. /\ request' = [request EXCEPT ![r] = x]
      /\ x = [request[r] EXCEPT !.pc = "start", !.set = s, !.page = page]
  OBVIOUS
<1> HIDE DEF x
<1>5. x \in RequestType /\ x.pc = "start" /\ x.set = s /\ x.id = request[r].id /\ x.token = request[r].token
  BY <1>1, <1>2, <1>3, <1>4, SetNumbers DEF RequestType
<1>6. request' \in [Requests -> RequestType] /\ request'[r] = x /\ \A q \in Requests \ {r} : request'[q] = request[q]
  BY <1>1, <1>4, <1>5
<1>7. Found(r)'
  BY <1>1, <1>2, <1>5, <1>6 DEF Found
<1>8. QED
  BY <1>6, <1>7

LEMMA LookupKeeps ==
    ASSUME PagesInv, NEW r \in Requests, Lookup(r)
    PROVE  PagesInv'
<1> DEFINE i == request[r].id
           C == Superseded(i)
           left == Purged(C)
           ours == Drop(left, {s \in ToSet(left) : sets[s].id # i})
           published == Drop(ours, {s \in ToSet(ours) : sets[s].frozen = <<>>})
<1>1. /\ request[r].pc = "lookup" /\ Admitted(r) /\ cancelled' = C
      /\ UNCHANGED <<latest, tokens, sets, workerVars, clearVars, shown>>
      /\ \/ /\ published # <<>>
            /\ sessions' = MoveToEnd(left, Last(published))
            /\ request' = [request EXCEPT ![r].pc = "start", ![r].set = Last(published),
                                          ![r].page = sets[Last(published)].frozen[1]]
         \/ /\ ours # <<>>
            /\ sessions' = left
            /\ request' = [request EXCEPT ![r].pc = "retry", ![r].set = Head(ours)]
         \/ /\ sessions' = left
            /\ request' = [request EXCEPT ![r].pc = "create"]
  BY DEF Lookup
<1>2. /\ cancelled \subseteq 1 .. tokens /\ request \in [Requests -> RequestType] /\ Found(r)
      /\ request[r] \in RequestType /\ tokens \in Nat
  BY DEF PagesInv, TypeOK
<1>3. cancelled \subseteq C /\ C \subseteq 1 .. tokens
  BY <1>2, InUse DEF Superseded
<1> HIDE DEF C
<1>4. /\ left \in Seq(SetIds) /\ IsInjective(left)
      /\ ToSet(left) = Live \ {s \in Live : sets[s].token \in C}
  BY InUse, DropKeeps DEF Purged
<1> HIDE DEF left
<1>5. /\ ours \in Seq(SetIds) /\ ToSet(ours) \subseteq ToSet(left)
  BY <1>4, DropKeeps
<1> HIDE DEF ours
<1>6. /\ published \in Seq(SetIds)
      /\ ToSet(published) \subseteq ToSet(left) /\ \A s \in ToSet(published) : sets[s].frozen # <<>>
  BY <1>5, DropKeeps
<1> HIDE DEF published
<1>7. CASE /\ published # <<>>
           /\ sessions' = MoveToEnd(left, Last(published))
           /\ request' = [request EXCEPT ![r].pc = "start", ![r].set = Last(published),
                                         ![r].page = sets[Last(published)].frozen[1]]
  <2> DEFINE s == Last(published)
             page == sets[s].frozen[1]
  <2>1. s \in ToSet(left) /\ s \in Live /\ s \in SetIds /\ sets[s].frozen # <<>>
    BY <1>4, <1>6, <1>7, EndsBelong, InUse
  <2>2. request' = [request EXCEPT ![r] = [request[r] EXCEPT !.pc = "start", !.set = s,
                                                             !.page = page]]
    BY <1>2, <1>7
  <2> HIDE DEF s
  <2>3. /\ request' \in [Requests -> RequestType]
        /\ \A q \in Requests : request'[q] = request[q] \/ Found(q)'
    BY <1>1, <2>1, <2>2, PageFound DEF page
  <2>4. sessions' \in Seq(SetIds) /\ IsInjective(sessions') /\ ToSet(sessions') = ToSet(left) \cup {s}
    BY <1>4, <1>7, <2>1, MoveToEndKeeps DEF s
  <2>5. Live' \subseteq Live
    BY <1>4, <2>1, <2>4 DEF Live
  <2>6. QED
    BY <1>1, <1>3, <2>3, <2>4, <2>5, DroppingKeeps
<1>8. sessions' = left => sessions' \in Seq(SetIds) /\ IsInjective(sessions') /\ Live' \subseteq Live
  BY <1>4 DEF Live
<1>9. CASE /\ ours # <<>>
           /\ sessions' = left
           /\ request' = [request EXCEPT ![r].pc = "retry", ![r].set = Head(ours)]
  <2> DEFINE s == Head(ours)
             x == [request[r] EXCEPT !.pc = "retry", !.set = s]
  <2>1. s \in Live /\ s \in SetIds /\ sets[s].token \notin C /\ sets[s] # None
    BY <1>4, <1>5, <1>9, EndsBelong, InUse
  <2>2. sets[s].token = request[r].token
    BY <1>1, <1>3, <2>1, StillAdmitted
  <2>3. request' = [request EXCEPT ![r] = x] /\ x = [request[r] EXCEPT !.pc = "retry", !.set = s]
    BY <1>2, <1>9
  <2> HIDE DEF s, x
  <2>4. x \in RequestType /\ x.pc = "retry" /\ x.set = s /\ x.id = request[r].id /\ x.token = request[r].token
    BY <1>2, <2>1, <2>3, SetNumbers DEF RequestType
  <2>5. /\ request' \in [Requests -> RequestType] /\ request'[r] = x
        /\ \A q \in Requests \ {r} : request'[q] = request[q]
    BY <1>2, <2>3, <2>4
  <2>6. Found(r)'
    BY <1>1, <1>2, <2>1, <2>2, <2>4, <2>5 DEF Found
  <2>7. QED
    BY <1>1, <1>3, <1>8, <1>9, <2>5, <2>6, DroppingKeeps
<1>10. CASE /\ sessions' = left
            /\ request' = [request EXCEPT ![r].pc = "create"]
  <2> DEFINE x == [request[r] EXCEPT !.pc = "create"]
  <2>1. request' = [request EXCEPT ![r] = x]
    BY <1>2, <1>10
  <2>2. x \in RequestType /\ x.pc = "create" /\ x.id = request[r].id /\ x.token = request[r].token
    BY <1>2 DEF RequestType
  <2> HIDE DEF x
  <2>3. /\ request' \in [Requests -> RequestType] /\ request'[r] = x
        /\ \A q \in Requests \ {r} : request'[q] = request[q]
    BY <1>2, <2>1, <2>2
  <2>4. Found(r)'
    BY <1>1, <1>2, <2>2, <2>3 DEF Found
  <2>5. QED
    BY <1>1, <1>3, <1>8, <1>10, <2>3, <2>4, DroppingKeeps
<1>11. QED
  BY <1>1, <1>7, <1>9, <1>10

\* Where a request goes after page zero.
LEMMA AfterFreezeFinds ==
    ASSUME PagesInv, UNCHANGED tokens, NEW r \in Requests, request[r].pc # "idle",
           NEW s \in SetIds, NEW b, NEW o, GoodOutcome(b, o), AfterFreeze(r, s, o),
           sets'[s] = o.set
    PROVE  /\ request' \in [Requests -> RequestType]
           /\ \A q \in Requests : request'[q] = request[q] \/ Found(q)'
<1> DEFINE page == o.page
           started == [request[r] EXCEPT !.pc = "start", !.set = s, !.page = page]
           x == IF o.page = None THEN NoRequest ELSE started
<1>1. /\ request \in [Requests -> RequestType] /\ request[r] \in RequestType /\ Found(r)
      /\ tokens \in Nat /\ MaxSets \in Nat
  BY PagesAssumption DEF PagesInv, TypeOK
<1>2. request' = [request EXCEPT ![r] = x]
  BY <1>1 DEF AfterFreeze
<1>3. NoRequest \in RequestType /\ NoRequest.pc = "idle"
  BY <1>1 DEF NoRequest, RequestType
<1>4. o.page # None => /\ started \in RequestType /\ started.pc = "start" /\ started.set = s
                       /\ started.id = request[r].id /\ started.token = request[r].token
  <2>1. o.page # None => page \in PageType
    BY DEF GoodOutcome
  <2>2. started = [request[r] EXCEPT !.pc = "start", !.set = s, !.page = page]
    OBVIOUS
  <2> HIDE DEF page, started
  <2>3. QED
    BY <1>1, <2>1, <2>2, SetNumbers DEF RequestType
<1>5. o.set # None /\ (o.page # None => o.set.frozen # <<>>)
  BY NoneAssumption DEF GoodOutcome, Grown
<1> HIDE DEF started
<1>6. x \in RequestType
  BY <1>3, <1>4
<1>7. request' \in [Requests -> RequestType] /\ request'[r] = x /\ \A q \in Requests \ {r} : request'[q] = request[q]
  <2> HIDE DEF x
  <2>1. QED
    BY <1>1, <1>2, <1>6
<1>8. Found(r)'
  BY <1>1, <1>3, <1>4, <1>5, <1>7 DEF Found
<1>9. QED
  BY <1>7, <1>8

LEMMA RetryKeeps ==
    ASSUME PagesInv, NEW r \in Requests, Retry(r)
    PROVE  PagesInv'
<1> DEFINE s == request[r].set
           walking == lexical[s] \in {"walk", "finish"}
<1>1. /\ request[r].pc = "retry" /\ s \in Live
      /\ UNCHANGED <<latest, tokens, cancelled, retiring, wake, preparer, clearVars, shown>>
  BY DEF Retry
<1>2. PICK o \in FreezeZero(s, sets[s], walking) :
          /\ Freeze(s, sets[s], o, lexical[s])
          /\ AfterFreeze(r, s, o)
          /\ sessions' = IF o.page = None THEN sessions ELSE MoveToEnd(sessions, s)
  BY DEF Retry
<1> HIDE DEF s
<1>3. /\ s \in SetIds /\ sets[s] # None /\ sets[s] \in SetType /\ Widened(sets[s], sets[s])
      /\ lexical[s] \in {"off", "walk", "finish", "start"}
      /\ sets \in [SetIds -> SetType \cup {None}]
  BY <1>1, InUse, WorkerSet DEF WorkerTypeOK, PagesInv, TypeOK
<1>4. GoodOutcome(sets[s], o)
  <2>1. walking \in BOOLEAN
    OBVIOUS
  <2> HIDE DEF walking
  <2>2. QED
    BY <1>2, <1>3, <2>1, FreezeZeroOutcomes
<1> HIDE DEF walking
<1> DEFINE p == o.set
<1>5. /\ Grown(sets[s], p) /\ sets' = [sets EXCEPT ![s] = p]
      /\ WorkerTypeOK'
      /\ \A t \in SetIds \ {s} : /\ lexical'[t] = lexical[t]
                                 /\ scorer'[t] = scorer[t]
                                 /\ preparer'[t] = preparer[t]
      /\ p.frozen # <<>> /\ scorer'[s].pc # "off" => scorer'[s].cancelled
      /\ preparer'[s].pc # "off" => p.frozen # <<>>
      /\ \A t \in retiring' \cup wake' : sets[t] # None
  BY <1>1, <1>2, <1>3, <1>4, FreezeKeeps
<1>6. sessions' \in Seq(SetIds) /\ IsInjective(sessions') /\ Live' = Live
  <2>1. /\ MoveToEnd(sessions, s) \in Seq(SetIds) /\ IsInjective(MoveToEnd(sessions, s))
        /\ ToSet(MoveToEnd(sessions, s)) = Live
    <3>1. sessions \in Seq(SetIds) /\ IsInjective(sessions) /\ Live = ToSet(sessions)
      BY InUse
    <3>2. /\ MoveToEnd(sessions, s) \in Seq(SetIds) /\ IsInjective(MoveToEnd(sessions, s))
          /\ ToSet(MoveToEnd(sessions, s)) = ToSet(sessions) \cup {s}
      BY <1>3, <3>1, MoveToEndKeeps
    <3>3. QED
      BY <1>1, <3>1, <3>2
  <2>2. CASE sessions' = sessions
    BY <2>2, InUse DEF Live
  <2>3. CASE sessions' = MoveToEnd(sessions, s)
    BY <2>1, <2>3 DEF Live
  <2>4. QED
    BY <1>2, <2>2, <2>3
<1>7. sets'[s] = p
  BY <1>3, <1>5
<1>8. /\ request' \in [Requests -> RequestType]
      /\ \A q \in Requests : request'[q] = request[q] \/ Found(q)'
  BY <1>1, <1>2, <1>3, <1>4, <1>7, AfterFreezeFinds
<1> HIDE DEF p
<1>9. QED
  BY <1>1, <1>3, <1>5, <1>6, <1>8, SetKeeps

LEMMA StartKeeps ==
    ASSUME PagesInv, NEW r \in Requests, Start(r)
    PROVE  PagesInv'
<1> DEFINE s == request[r].set
           x == NoRequest
<1>1. /\ request[r].pc = "start" /\ MaybeStart(s)
      /\ shown' = shown \cup {[set |-> s, page |-> request[r].page]}
      /\ request' = [request EXCEPT ![r] = x]
      /\ UNCHANGED <<latest, tokens, cancelled, sessions, sets, lexical, scorer, retiring, wake,
                     clearVars>>
  BY DEF Start
<1>2. /\ latest \in Search \cup {None} /\ tokens \in 0 .. MaxTokens /\ tokens \in Nat
      /\ cancelled \subseteq 1 .. tokens /\ sessions \in Seq(SetIds) /\ IsInjective(sessions)
      /\ clearing \in BOOLEAN /\ cleared \in 0 .. tokens /\ Tokens /\ ClearedStaysCleared
      /\ WorkerTypeOK /\ Found(r) /\ MaxSets \in Nat
  BY PagesAssumption DEF PagesInv, TypeOK
<1>3. s \in SetIds /\ sets[s] # None /\ sets[s].frozen # <<>>
  BY <1>1, <1>2 DEF Found
<1>4. ShownFrozen'
  BY <1>1, <1>3 DEF PagesInv, ShownFrozen
<1>5. x \in RequestType /\ x.pc = "idle"
  BY <1>2 DEF NoRequest, RequestType
<1> HIDE DEF s, x
<1>6. /\ RequestType' = RequestType /\ Live' = Live /\ ClearedStaysCleared' /\ tokens' \in Nat
      /\ tokens <= tokens'
  BY <1>1, <1>2 DEF RequestType, Live, ClearedStaysCleared
<1>7. /\ request' \in [Requests -> RequestType'] /\ request'[r] = x
      /\ \A q \in Requests \ {r} : request'[q] = request[q]
  <2>1. x \in RequestType'
    BY <1>5, <1>6
  <2>2. QED
    BY <1>1, <1>6, <2>1, OneMoves
<1>8. Found(r)'
  BY <1>5, <1>7 DEF Found
<1>9. WorkerTypeOK'
  BY <1>1, <1>2, <1>3, MaybeStartTypes DEF WorkerTypeOK
<1>10. ASSUME NEW t \in SetIds PROVE Worked(t)'
  <2>1. Worked(t)
    BY DEF PagesInv
  <2>2. CASE t = s
    BY <1>1, <1>3, <2>1, <2>2, MaybeStartTypes DEF Worked, Registered
  <2>3. CASE t # s
    BY <1>1, <1>3, <2>1, <2>3, MaybeStartTypes DEF Worked, Registered
  <2>4. QED
    BY <2>2, <2>3
<1>11. /\ \A t \in 1 .. tokens' : t \notin cancelled' => latest' # None /\ latest'.token = t
       /\ latest' # None => latest'.token > cleared' /\ latest'.token <= tokens'
  BY <1>1, <1>2 DEF Tokens
<1>12. QED
  BY <1>1, <1>2, <1>4, <1>6, <1>7, <1>8, <1>9, <1>10, <1>11, SearchKeeps

\* The next number is free, and the ones below it are given out.
LEMMA NextIsFree ==
    ASSUME PagesInv, NEW new, new = Cardinality({s \in SetIds : sets[s] # None}) + 1
    PROVE  /\ \A s \in SetIds : sets[s] # None <=> s < new
           /\ new \in Nat
<1> DEFINE A == {s \in SetIds : sets[s] # None}
<1>1. A \in SUBSET Nat /\ MaxSets \in Nat /\ \A s \in A : s <= MaxSets
  BY PagesAssumption DEF SetIds
<1>2. \A s, t \in SetIds : t <= s /\ s \in A => t \in A
  BY DEF PagesInv, Numbered
<1>3. \A s \in A : s \in SetIds
  OBVIOUS
<1>4. \A s \in SetIds : sets[s] # None <=> s \in A
  OBVIOUS
<1>5. new = Cardinality(A) + 1
  OBVIOUS
<1> HIDE DEF A
<1>6. CASE A = {}
  <2>1. Cardinality(A) = 0
    BY <1>6, FS_EmptySet
  <2>2. new = 1
    BY <1>5, <2>1
  <2>3. QED
    BY <1>4, <1>6, <2>2, PagesAssumption DEF SetIds
<1>7. CASE A # {}
  <2>1. PICK m \in A : \A s \in A : s <= m
    BY <1>1, <1>7, GreatestNatural
  <2>2. m \in Nat /\ m \in SetIds /\ \A t \in 1 .. m : t \in SetIds
    BY <1>1, <1>3, <2>1 DEF SetIds
  <2>3. A = 1 .. m
    <3>1. \A t \in 1 .. m : t \in A
      BY <1>2, <2>1, <2>2
    <3>2. \A t \in A : t \in 1 .. m
      BY <1>1, <1>3, <2>1, <2>2 DEF SetIds
    <3>3. QED
      BY <3>1, <3>2
  <2>4. Cardinality(A) = m
    <3>1. Cardinality(1 .. m) = IF 1 > m THEN 0 ELSE m - 1 + 1
      BY <2>2, FS_Interval
    <3>2. m > 0
      BY <2>2 DEF SetIds
    <3>3. QED
      BY <2>2, <2>3, <3>1, <3>2
  <2>5. new = m + 1
    BY <1>5, <2>4
  <2>6. \A s \in SetIds : s \in 1 .. m <=> s < m + 1
    BY <2>2, PagesAssumption DEF SetIds
  <2>7. \A s \in SetIds : s \in A <=> s < new
    BY <2>3, <2>5, <2>6
  <2>8. new \in Nat
    BY <2>2, <2>5
  <2>9. QED
    BY <1>4, <2>7, <2>8
<1>8. QED
  BY <1>6, <1>7

\* A new set takes the next number, with the token of its request.
LEMMA NewSetKeeps ==
    ASSUME PagesInv, UNCHANGED <<latest, tokens, retiring, wake, preparer, clearVars, shown>>,
           NEW new \in SetIds, \A s \in SetIds : sets[s] # None <=> s < new,
           NEW b \in SetType, b.frozen = <<>>, b.token > cleared, b.token <= tokens,
           NEW p, Grown(b, p), sets' = [sets EXCEPT ![new] = p],
           WorkerTypeOK',
           \A t \in SetIds \ {new} : lexical'[t] = lexical[t] /\ scorer'[t] = scorer[t],
           p.frozen # <<>> /\ scorer'[new].pc # "off" => scorer'[new].cancelled,
           cancelled \subseteq cancelled', cancelled' \subseteq 1 .. tokens,
           sessions' \in Seq(SetIds), IsInjective(sessions'),
           \A s \in Live' : s = new \/ (s \in Live /\ sets[s].token = b.token),
           request' \in [Requests -> RequestType],
           \A q \in Requests : request'[q] = request[q] \/ Found(q)'
    PROVE  PagesInv'
<1>1. /\ sets \in [SetIds -> SetType \cup {None}] /\ p \in SetType /\ p # None
      /\ p.id = b.id /\ p.token = b.token /\ tokens \in Nat
  BY NoneAssumption DEF PagesInv, TypeOK, Grown
<1>2. /\ sets[new] = None /\ new \in Nat
      /\ \A s \in SetIds : sets[s] # None <=> s < new
  BY PagesAssumption DEF SetIds
<1>3. /\ sets' \in [SetIds -> SetType \cup {None}]
      /\ \A t \in SetIds \ {new} : sets'[t] = sets[t]
      /\ sets'[new] = p
  BY <1>1
<1>4. \A t \in SetIds : sets[t] # None => t # new /\ sets'[t] = sets[t]
  BY <1>2, <1>3
<1>5. Live \subseteq SetIds /\ \A t \in Live : sets[t] # None
  BY InUse
<1>6. \A s \in Live' : s \in SetIds /\ sets'[s] # None /\ sets'[s].token = b.token
  BY <1>1, <1>3, <1>4, <1>5
<1>7. TypeOK'
  BY <1>3, <1>6 DEF PagesInv, TypeOK, RequestType
<1>8. Tokens'
  <2>1. \A s \in SetIds : sets'[s] # None => sets'[s].token <= tokens'
    BY <1>1, <1>3 DEF PagesInv, Tokens
  <2>2. QED
    BY <2>1 DEF PagesInv, Tokens
<1>9. OneSearch'
  BY <1>6 DEF OneSearch
<1>10. \A r \in Requests : Found(r)'
  BY <1>4 DEF PagesInv, Found
<1>11. Numbered'
  <2>1. \A s \in SetIds : sets'[s] # None <=> s <= new
    BY <1>1, <1>2, <1>3, PagesAssumption DEF SetIds
  <2>2. QED
    BY <1>2, <2>1, PagesAssumption DEF Numbered, SetIds
<1>12. ASSUME NEW t \in SetIds PROVE Worked(t)'
  <2>1. Worked(t)
    BY DEF PagesInv
  <2>2. CASE t = new
    BY <1>1, <1>2, <1>3, <2>1, <2>2 DEF Worked, Registered
  <2>3. CASE t # new
    BY <1>3, <2>1, <2>3 DEF Worked, Registered
  <2>4. QED
    BY <2>2, <2>3
<1>13. ShownFrozen'
  BY <1>4 DEF PagesInv, ShownFrozen
<1>14. ClearedStaysCleared'
  BY <1>6 DEF ClearedStaysCleared
<1>15. QED
  BY <1>7, <1>8, <1>9, <1>10, <1>11, <1>12, <1>13, <1>14 DEF PagesInv

LEMMA NewSessionKeeps ==
    ASSUME PagesInv, NEW r \in Requests, request[r].pc = "create", Admitted(r),
           NEW left, left = Purged(cancelled), NewSession(r, left),
           UNCHANGED <<latest, tokens, retiring, wake, preparer, clearVars, shown>>
    PROVE  PagesInv'
<1> DEFINE i == request[r].id
           others == {s \in ToSet(left) : sets[s].id # i}
           new == Cardinality({s \in SetIds : sets[s] # None}) + 1
           B(P, exhausted) == NewSet(i, request[r].token, P, exhausted)
           Late(b) == [set |-> b, walk |-> FALSE, search |-> FALSE, page |-> None]
<1>1. /\ new \in SetIds
      /\ sessions' = Append(Drop(left, others), new)
      /\ cancelled' = cancelled \cup {sets[s].token : s \in others}
  BY DEF NewSession
<1>2. PICK P \in SUBSET Candidates, exhausted \in BOOLEAN :
          \E o \in {Late(B(P, exhausted))} \cup FreezeZero(new, B(P, exhausted), FALSE) :
              Freeze(new, B(P, exhausted), o, "off") /\ AfterFreeze(r, new, o)
  BY DEF NewSession
<1> DEFINE b == B(P, exhausted)
<1>3. PICK o : /\ o = Late(b) \/ o \in FreezeZero(new, b, FALSE)
               /\ Freeze(new, b, o, "off") /\ AfterFreeze(r, new, o)
  BY <1>2
<1>4. /\ request[r].token \in 1 .. tokens /\ i \in Identities /\ request[r].token > cleared
      /\ \A s \in SetIds : sets[s] # None /\ sets[s].token \notin cancelled =>
              sets[s].token = request[r].token
  BY StillAdmitted
<1>5. /\ tokens \in Nat /\ tokens <= MaxTokens /\ MaxTokens \in Nat /\ cancelled \subseteq 1 .. tokens
      /\ sets \in [SetIds -> SetType \cup {None}] /\ WorkerTypeOK
  BY PagesAssumption DEF PagesInv, TypeOK
<1>6. b \in SetType /\ b.frozen = <<>> /\ b.token = request[r].token /\ Widened(b, b)
  <2>1. request[r].token \in 1 .. MaxTokens /\ <<>> \in Seq(PageType)
    BY <1>4, <1>5
  <2>2. b \in SetType /\ b.frozen = <<>> /\ b.token = request[r].token
    BY <1>4, <2>1 DEF NewSet, SetType
  <2>3. QED
    BY <2>2 DEF Widened
<1>7. left \in Seq(SetIds) /\ IsInjective(left) /\ ToSet(left) = Live \ {s \in Live : sets[s].token \in cancelled}
  BY InUse, DropKeeps DEF Purged
<1>8. \A s \in ToSet(left) : s \in Live /\ s \in SetIds /\ sets[s] # None /\ sets[s].token = request[r].token
  BY <1>4, <1>7, InUse
<1>9. cancelled \subseteq cancelled' /\ cancelled' \subseteq 1 .. tokens
  BY <1>1, <1>4, <1>5, <1>8
<1> DEFINE d == Drop(left, others)
<1>10. d \in Seq(SetIds) /\ IsInjective(d) /\ ToSet(d) \subseteq ToSet(left)
  BY <1>7, DropKeeps
<1> HIDE DEF b, d
<1>11. \A s \in SetIds : sets[s] # None <=> s < new
  <2> HIDE DEF new
  <2>1. new = Cardinality({s \in SetIds : sets[s] # None}) + 1
    BY DEF new
  <2>2. QED
    BY <2>1, NextIsFree
<1>12. new \in SetIds /\ sets[new] = None
  <2>1. new \in SetIds
    BY <1>1
  <2> HIDE DEF new
  <2>2. ~(new < new)
    BY <2>1, PagesAssumption DEF SetIds
  <2>3. QED
    BY <1>11, <2>1, <2>2
<1> HIDE DEF new
<1>13. /\ sessions' \in Seq(SetIds) /\ IsInjective(sessions')
       /\ \A s \in Live' : s = new \/ (s \in Live /\ sets[s].token = b.token)
  <2>1. new \notin ToSet(d)
    BY <1>8, <1>10, <1>12
  <2>2. sessions' \in Seq(SetIds) /\ IsInjective(sessions') /\ ToSet(sessions') = ToSet(d) \cup {new}
    BY <1>1, <1>10, <2>1, AppendKeeps DEF d
  <2>3. QED
    BY <1>6, <1>8, <1>10, <2>2 DEF Live
<1>14. GoodOutcome(b, o)
  BY <1>3, <1>6, FreezeZeroOutcomes, WaitIsGood
<1> DEFINE p == o.set
<1>15. /\ sets' = [sets EXCEPT ![new] = p]
       /\ lexical' \in [SetIds -> {"off", "walk", "finish", "start"}]
       /\ scorer' \in [SetIds -> ScorerType]
       /\ \A t \in SetIds \ {new} : lexical'[t] = lexical[t] /\ scorer'[t] = scorer[t]
       /\ p.frozen # <<>> /\ scorer'[new].pc # "off" => scorer'[new].cancelled
  BY <1>1, <1>3, <1>5, <1>6, <1>14, FreezeWorks
<1>16. WorkerTypeOK' /\ Grown(b, p) /\ sets'[new] = p
  BY <1>1, <1>5, <1>14, <1>15 DEF WorkerTypeOK, GoodOutcome
<1>17. /\ request' \in [Requests -> RequestType]
       /\ \A q \in Requests : request'[q] = request[q] \/ Found(q)'
  BY <1>1, <1>3, <1>14, <1>16, AfterFreezeFinds
<1>18. b.token > cleared /\ b.token <= tokens
  BY <1>4, <1>5, <1>6
<1> HIDE DEF p
<1>19. QED
  BY <1>6, <1>9, <1>11, <1>12, <1>13, <1>15, <1>16, <1>17, <1>18, NewSetKeeps, ZenonT(60)

LEMMA CreateKeeps ==
    ASSUME PagesInv, NEW r \in Requests, Create(r)
    PROVE  PagesInv'
<1> DEFINE left == Purged(cancelled)
           published == Drop(left, {s \in ToSet(left) : \/ sets[s].id # request[r].id
                                                        \/ sets[s].frozen = <<>>})
<1>1. /\ request[r].pc = "create" /\ Admitted(r)
      /\ UNCHANGED <<latest, tokens, retiring, wake, preparer, clearVars, shown>>
      /\ \/ /\ published # <<>>
            /\ sessions' = MoveToEnd(left, Head(published))
            /\ request' = [request EXCEPT ![r].pc = "start", ![r].set = Head(published),
                                          ![r].page = sets[Head(published)].frozen[1]]
            /\ UNCHANGED <<cancelled, sets, lexical, scorer>>
         \/ NewSession(r, left)
  BY DEF Create
<1>2. left \in Seq(SetIds) /\ IsInjective(left) /\ ToSet(left) \subseteq Live
  BY InUse, DropKeeps DEF Purged
<1>3. left = Purged(cancelled)
  OBVIOUS
<1> HIDE DEF left
<1>4. /\ published \in Seq(SetIds)
      /\ ToSet(published) \subseteq ToSet(left) /\ \A s \in ToSet(published) : sets[s].frozen # <<>>
  BY <1>2, DropKeeps
<1> HIDE DEF published
<1>5. CASE /\ published # <<>>
           /\ sessions' = MoveToEnd(left, Head(published))
           /\ request' = [request EXCEPT ![r].pc = "start", ![r].set = Head(published),
                                         ![r].page = sets[Head(published)].frozen[1]]
           /\ UNCHANGED <<cancelled, sets, lexical, scorer>>
  <2> DEFINE s == Head(published)
             page == sets[s].frozen[1]
  <2>1. s \in ToSet(left) /\ s \in Live /\ s \in SetIds /\ sets[s].frozen # <<>>
    BY <1>2, <1>4, <1>5, EndsBelong, InUse
  <2>2. request \in [Requests -> RequestType] /\ cancelled \subseteq 1 .. tokens
    BY DEF PagesInv, TypeOK
  <2>3. request' = [request EXCEPT ![r] = [request[r] EXCEPT !.pc = "start", !.set = s,
                                                             !.page = page]]
    BY <1>5, <2>2
  <2> HIDE DEF s
  <2>4. /\ request' \in [Requests -> RequestType]
        /\ \A q \in Requests : request'[q] = request[q] \/ Found(q)'
    BY <1>1, <1>5, <2>1, <2>3, PageFound DEF page
  <2>5. sessions' \in Seq(SetIds) /\ IsInjective(sessions') /\ ToSet(sessions') = ToSet(left) \cup {s}
    BY <1>2, <1>5, <2>1, MoveToEndKeeps DEF s
  <2>6. Live' \subseteq Live
    BY <1>2, <2>1, <2>5 DEF Live
  <2>7. QED
    BY <1>1, <1>5, <2>2, <2>4, <2>5, <2>6, DroppingKeeps
<1>6. CASE NewSession(r, left)
  BY <1>1, <1>3, <1>6, NewSessionKeeps
<1>7. QED
  BY <1>1, <1>5, <1>6

LEMMA RequestsKeep ==
    ASSUME PagesInv, RequestStep
    PROVE  PagesInv'
BY AdmitKeeps, ExpiresKeeps, LookupKeeps, RetryKeeps, CreateKeeps, StartKeeps, NavigateKeeps,
   EvictKeeps, ClearKeeps DEF RequestStep

-----------------------------------------------------------------------------
(* The invariant *)

LEMMA InitHolds == Init => PagesInv
<1> SUFFICES ASSUME Init PROVE PagesInv
  OBVIOUS
<1>1. /\ tokens = 0 /\ sessions = <<>> /\ Live = {} /\ MaxSets \in Nat /\ MaxTokens \in Nat
      /\ latest = None /\ cancelled = {} /\ clearing = FALSE /\ cleared = 0 /\ shown = {}
      /\ \A s \in SetIds : sets[s] = None
      /\ retiring = {} /\ wake = {}
  BY PagesAssumption DEF Init, Live, ToSet
<1>2. NoRequest \in RequestType /\ NoRequest.pc = "idle"
  BY <1>1 DEF NoRequest, RequestType
<1>3. NoScorer \in ScorerType /\ NoScorer.pc = "off" /\ NoPreparer \in PreparerType /\ NoPreparer.pc = "off"
  BY DEF NoScorer, ScorerType, NoPreparer, PreparerType
<1>4. /\ request \in [Requests -> RequestType] /\ \A r \in Requests : request[r].pc = "idle"
      /\ sets \in [SetIds -> SetType \cup {None}]
      /\ scorer \in [SetIds -> ScorerType] /\ preparer \in [SetIds -> PreparerType]
      /\ lexical \in [SetIds -> {"off", "walk", "finish", "start"}]
      /\ \A s \in SetIds : scorer[s].pc = "off" /\ preparer[s].pc = "off" /\ lexical[s] = "off"
  BY <1>2, <1>3 DEF Init
<1>5. TypeOK
  <2>1. IsInjective(sessions) /\ sessions \in Seq(SetIds)
    BY <1>1 DEF IsInjective
  <2>2. WorkerTypeOK
    BY <1>1, <1>4 DEF WorkerTypeOK
  <2>3. clearing \in BOOLEAN
    BY <1>1
  <2>4. latest \in Search \cup {None} /\ tokens \in 0 .. MaxTokens /\ cancelled \subseteq 1 .. tokens
    BY <1>1
  <2>5. \A s \in Live : sets[s] # None
    BY <1>1
  <2>6. cleared \in 0 .. tokens
    BY <1>1
  <2>7. QED
    BY <1>4, <2>1, <2>2, <2>3, <2>4, <2>5, <2>6 DEF TypeOK
<1>6. Tokens /\ OneSearch /\ Numbered /\ ShownFrozen /\ ClearedStaysCleared
  BY <1>1 DEF Tokens, OneSearch, Numbered, ShownFrozen, ClearedStaysCleared
<1>7. \A r \in Requests : Found(r)
  BY <1>4 DEF Found
<1>8. \A s \in SetIds : Worked(s)
  BY <1>1, <1>4 DEF Worked, Registered
<1>9. QED
  BY <1>5, <1>6, <1>7, <1>8 DEF PagesInv

LEMMA StepKeeps ==
    ASSUME PagesInv, [Next]_vars
    PROVE  PagesInv'
<1>1. CASE Next
  BY <1>1, RequestsKeep, WorkersKeep DEF Next
<1>2. CASE UNCHANGED vars
  BY <1>2 DEF vars, PagesInv, TypeOK, WorkerTypeOK, RequestType, Live, Tokens, OneSearch, Found,
              Numbered, Worked, Registered, ShownFrozen, ClearedStaysCleared
<1>3. QED
  BY <1>1, <1>2

\* At most one search is not told to stop, requests and workers find their
\* sets where they left them, and set numbers are given out in order: the
\* inductive invariant of the page manager.
THEOREM Invariance == Spec => []PagesInv
<1>1. Init => PagesInv
  BY InitHolds
<1>2. PagesInv /\ [Next]_vars => PagesInv'
  BY StepKeeps
<1>3. QED
  BY <1>1, <1>2, PTL DEF Spec

\* The values the variables take.
THEOREM TypeCorrect == Spec => []TypeOK
<1>1. PagesInv => TypeOK
  BY DEF PagesInv
<1>2. QED
  BY <1>1, Invariance, PTL

\* After clear_sessions has returned, no candidate set admitted before it
\* began is in use again, however a request that was between two sections of
\* query_page goes on.
THEOREM ClearedForGood == Spec => []ClearedStaysCleared
<1>1. PagesInv => ClearedStaysCleared
  BY DEF PagesInv
<1>2. QED
  BY <1>1, Invariance, PTL

-----------------------------------------------------------------------------
(* Late results *)

\* What a step may do to the sets: only a set that is new, or not stopped,
\* gets other candidates or pages.
Guarded ==
    \/ sets' = sets
    \/ \E s \in SetIds : \E p :
            /\ sets' = [sets EXCEPT ![s] = p]
            /\ \/ sets[s] = None
               \/ ~Stopped(s)
               \/ p.pending = sets[s].pending /\ p.frozen = sets[s].frozen

LEMMA RequestsGuarded ==
    ASSUME PagesInv, RequestStep
    PROVE  Guarded
<1>1. ASSUME NEW r \in Requests, Retry(r) PROVE Guarded
  <2> DEFINE s == request[r].set
  <2>1. /\ s \in Live /\ request[r].pc = "retry" /\ Admitted(r) /\ s \in SetIds
        /\ \E p : sets' = [sets EXCEPT ![s] = p]
    BY <1>1, InUse DEF Retry, Freeze
  <2>2. sets[s].token = request[r].token
    BY <2>1 DEF PagesInv, Found
  <2>3. ~Stopped(s)
    BY <2>1, <2>2 DEF Stopped, Admitted
  <2> HIDE DEF s
  <2>4. QED
    BY <2>1, <2>3 DEF Guarded
<1>2. ASSUME NEW r \in Requests, Create(r) PROVE Guarded
  <2> DEFINE new == Cardinality({s \in SetIds : sets[s] # None}) + 1
  <2>1. sets' = sets \/ (new \in SetIds /\ \E p : sets' = [sets EXCEPT ![new] = p])
    BY <1>2 DEF Create, NewSession, Freeze
  <2>2. new = Cardinality({s \in SetIds : sets[s] # None}) + 1
    OBVIOUS
  <2> HIDE DEF new
  <2>3. \A s \in SetIds : sets[s] # None <=> s < new
    BY <2>2, NextIsFree
  <2>4. new \in SetIds => sets[new] = None
    BY <2>3, PagesAssumption DEF SetIds
  <2>5. QED
    BY <2>1, <2>4 DEF Guarded
<1>3. CASE sets' = sets
  BY <1>3 DEF Guarded
<1>4. QED
  BY <1>1, <1>2, <1>3 DEF RequestStep, Admit, Expires, Lookup, Start, Navigate, Evict, ClearBegin,
                          ClearEnd

LEMMA WorkersGuarded ==
    ASSUME PagesInv, NEW s \in SetIds,
           \/ LexicalBatch(s) \/ LexicalCollides(s) \/ LexicalFinish(s) \/ LexicalStart(s)
           \/ ScorerBegin(s) \/ ScorerAnswer(s) \/ ScorerMerge(s)
           \/ ScorerRetired(s) \/ ScorerWakes(s)
           \/ PreparerWalk(s) \/ PreparerCollides(s) \/ PreparerOut(s) \/ PreparerLoop(s)
           \/ PreparerPage(s)
    PROVE  Guarded
<1>1. CASE sets' = sets
  BY <1>1 DEF Guarded
<1>2. ASSUME ~Stopped(s), NEW p, sets' = [sets EXCEPT ![s] = p] PROVE Guarded
  BY <1>2 DEF Guarded
<1>3. CASE LexicalBatch(s)
  BY <1>1, <1>2, <1>3 DEF LexicalBatch, Freeze
<1>4. CASE ScorerMerge(s)
  BY <1>1, <1>2, <1>4 DEF ScorerMerge
<1>5. CASE PreparerWalk(s)
  BY <1>1, <1>2, <1>5 DEF PreparerWalk
<1>6. CASE PreparerPage(s)
  BY <1>1, <1>2, <1>6, PreparerPageEffects
<1>7. CASE LexicalFinish(s)
  <2> DEFINE done == ~Stopped(s) /\ (sets[s].frozen # <<>> \/ sets[s].walked)
             b == [sets[s] EXCEPT !.lexicalDone = @ \/ done]
             kept == [set |-> b, walk |-> FALSE, search |-> FALSE, page |-> None]
  <2>1. PICK o \in IF done /\ b.frozen = <<>> THEN FreezeZero(s, b, FALSE) ELSE {kept} :
            sets' = [sets EXCEPT ![s] = o.set]
    BY <1>7 DEF LexicalFinish, Freeze
  <2>2. CASE ~Stopped(s)
    BY <1>2, <2>1, <2>2
  <2>3. CASE Stopped(s)
    <3>1. o = kept /\ o.set = b
      BY <2>1, <2>3
    <3>2. sets[s] \in SetType
      BY <1>7, WorkerSet DEF LexicalFinish
    <3>3. b.pending = sets[s].pending /\ b.frozen = sets[s].frozen
      BY <3>2 DEF SetType
    <3> HIDE DEF b
    <3>4. QED
      BY <2>1, <3>1, <3>3 DEF Guarded
  <2>4. QED
    BY <2>2, <2>3
<1>8. CASE ScorerRetired(s)
  <2> DEFINE done == sets[s].searchDone \/ (s \in Live /\ (sets[s].exhausted \/ sets[s].frozen # <<>>))
             p == [sets[s] EXCEPT !.searchDone = done]
  <2>1. sets' = [sets EXCEPT ![s] = p]
    BY <1>8 DEF ScorerRetired
  <2>2. sets[s] \in SetType
    BY <1>8, WorkerSet DEF ScorerRetired
  <2>3. p.pending = sets[s].pending /\ p.frozen = sets[s].frozen
    BY <2>2 DEF SetType
  <2> HIDE DEF p
  <2>4. QED
    BY <2>1, <2>3 DEF Guarded
<1>9. QED
  BY <1>1, <1>3, <1>4, <1>5, <1>6, <1>7, <1>8
     DEF LexicalCollides, LexicalStart, ScorerBegin, ScorerAnswer, ScorerWakes, PreparerCollides,
         PreparerOut, PreparerLoop

LEMMA StepGuarded ==
    ASSUME PagesInv, [Next]_vars
    PROVE  Guarded
<1>1. CASE RequestStep
  BY <1>1, RequestsGuarded
<1>2. CASE WorkerStep
  BY <1>2, WorkersGuarded DEF WorkerStep
<1>3. CASE UNCHANGED vars
  BY <1>3 DEF vars, Guarded
<1>4. QED
  BY <1>1, <1>2, <1>3 DEF Next

\* A result that arrives after its composition was superseded, cleared or
\* evicted is dropped, whatever the worker or the request was waiting for:
\* every path takes the lock again and looks at the token before it writes.
THEOREM LateResultsDropped == Spec => NoLateResult
<1>1. ASSUME PagesInv, Guarded, NEW s \in SetIds, sets[s] # None, Stopped(s)
      PROVE  sets'[s].pending = sets[s].pending /\ sets'[s].frozen = sets[s].frozen
  <2>1. sets \in [SetIds -> SetType \cup {None}]
    BY <1>1 DEF PagesInv, TypeOK
  <2>2. QED
    BY <1>1, <2>1 DEF Guarded
<1>2. PagesInv /\ [Next]_vars =>
        [\A s \in SetIds :
            sets[s] # None /\ Stopped(s) =>
                /\ sets'[s].pending = sets[s].pending
                /\ sets'[s].frozen = sets[s].frozen]_vars
  BY <1>1, StepGuarded
<1>3. QED
  BY <1>2, Invariance, PTL DEF Spec, NoLateResult

-----------------------------------------------------------------------------
(* Later pages *)

\* A returned set has a page.
LEMMA ReturnedFrozen ==
    ASSUME PagesInv, NEW s \in SetIds, Returned(s)
    PROVE  sets[s] # None /\ sets[s].frozen # <<>>
BY DEF PagesInv, ShownFrozen, Returned

\* A step of the server that stops searches and drops sets takes no worker
\* from a set that stays: the sets of one search stop together.
LEMMA DroppingComes ==
    ASSUME PagesInv, ComingInv, UNCHANGED <<retiring, wake, preparer, shown>>,
           cancelled \subseteq cancelled',
           \A t \in SetIds : sets[t] # None => /\ sets'[t] = sets[t]
                                               /\ lexical'[t] = lexical[t]
                                               /\ scorer'[t] = scorer[t],
           \A t \in Live : t \notin Live' => sets[t].token \in cancelled',
           \A t \in Live' : t \notin Live => sets[t] = None
    PROVE  ComingInv'
<1>1. Live \subseteq SetIds /\ \A t \in Live : sets[t] # None
  BY InUse
<1>2. ASSUME NEW s \in SetIds PROVE EndedForGood(s)'
  <2>1. CASE sets[s] = None
    BY <2>1 DEF PagesInv, Worked, EndedForGood
  <2>2. CASE sets[s] # None
    <3>1. sets'[s] = sets[s] /\ (Stopped(s) => Stopped(s)')
      BY <2>2 DEF Stopped
    <3>2. EndedForGood(s)
      BY DEF ComingInv
    <3>3. QED
      BY <3>1, <3>2 DEF EndedForGood, Full, Total
  <2>3. QED
    BY <2>1, <2>2
<1>3. ASSUME NEW s \in SetIds, Wanted(s)' PROVE Busy(s)'
  <2>1. Returned(s) /\ s \in Live' /\ sets'[s].token \notin cancelled'
    BY <1>3 DEF Wanted, Returned, Stopped
  <2>2. sets[s] # None /\ sets'[s] = sets[s] /\ lexical'[s] = lexical[s] /\ s \in Live
    BY <2>1, ReturnedFrozen
  <2>3. sets[s].token \notin cancelled' /\ sets[s].token \notin cancelled
    BY <2>1, <2>2
  <2>4. Wanted(s)
    BY <1>3, <2>1, <2>2, <2>3 DEF Wanted, Stopped, Full, Total
  <2>5. Busy(s)
    BY <2>4 DEF ComingInv
  <2>6. ASSUME NEW t \in Live PROVE t \in Live' /\ sets'[t] = sets[t] /\ (Registered(t) => Registered(t)')
    <3>1. sets[t].token = sets[s].token
      BY <2>2, <2>3 DEF PagesInv, OneSearch
    <3>2. QED
      BY <1>1, <2>3, <3>1 DEF Registered
  <2>7. QED
    BY <2>2, <2>5, <2>6 DEF Busy
<1>4. QED
  BY <1>2, <1>3 DEF ComingInv

\* Steps that change set s and its workers only.  No scorer goes without
\* waking the sets of its composition.
LEMMA WorkerComes ==
    ASSUME PagesInv, ComingInv, UNCHANGED <<cancelled, shown>>, Live' = Live,
           NEW s \in SetIds, sets[s] # None,
           \A t \in SetIds \ {s} : /\ sets'[t] = sets[t]
                                   /\ lexical'[t] = lexical[t]
                                   /\ scorer'[t] = scorer[t]
                                   /\ preparer'[t] = preparer[t],
           sets'[s].id = sets[s].id, sets'[s].token = sets[s].token,
           \A t \in wake : t # s => t \in wake',
           \A t \in retiring : t # s => t \in retiring',
           Registered(s) \/ s \in retiring =>
                \/ Registered(s)' \/ s \in retiring'
                \/ \A t \in Live : sets[t].id = sets[s].id => t \in wake',
           EndedForGood(s)', Wanted(s)' => Busy(s)'
    PROVE  ComingInv'
<1>1. Live \subseteq SetIds /\ \A t \in Live : sets[t] # None
  BY InUse
<1>2. \A t \in SetIds : sets'[t].id = sets[t].id /\ sets'[t].token = sets[t].token
  OBVIOUS
<1>3. \A t \in SetIds : Stopped(t)' <=> Stopped(t)
  BY <1>2 DEF Stopped
<1>4. ASSUME NEW u \in SetIds, u # s PROVE EndedForGood(u)'
  <2>1. EndedForGood(u) /\ sets'[u] = sets[u] /\ preparer'[u] = preparer[u]
    BY <1>4 DEF ComingInv
  <2>2. QED
    BY <1>3, <2>1 DEF EndedForGood, Full, Total
<1>5. ASSUME NEW u \in SetIds, u # s, Wanted(u)' PROVE Busy(u)'
  <2>1. sets'[u] = sets[u] /\ preparer'[u] = preparer[u] /\ lexical'[u] = lexical[u]
    BY <1>5
  <2>2. Wanted(u)
    BY <1>3, <1>5, <2>1 DEF Wanted, Returned, Full, Total
  <2>3. u \in Live /\ Busy(u)
    BY <2>2 DEF ComingInv, Wanted
  <2>4. CASE preparer[u].pc \notin {"off", "end"} \/ lexical[u] \in {"walk", "finish", "start"} \/ u \in wake
    BY <1>5, <2>1, <2>4 DEF Busy
  <2>5. ASSUME NEW t \in Live, sets[t].id = sets[u].id, Registered(t) \/ t \in retiring
        PROVE  Busy(u)'
    <3>1. t \in Live' /\ sets'[t].id = sets'[u].id
      BY <1>1, <1>2, <2>5
    <3>2. CASE Registered(t)' \/ t \in retiring'
      BY <3>1, <3>2 DEF Busy
    <3>3. CASE t = s /\ \A v \in Live : sets[v].id = sets[s].id => v \in wake'
      BY <2>3, <2>5, <3>3 DEF Busy
    <3>4. CASE t # s
      BY <1>1, <2>5, <3>2, <3>4 DEF Registered
    <3>5. QED
      BY <2>5, <3>2, <3>3, <3>4
  <2>6. QED
    BY <2>3, <2>4, <2>5 DEF Busy
<1>6. QED
  BY <1>4, <1>5 DEF ComingInv

\* A set whose pages stay: it is wanted only if it was, and an ended preparer
\* stays ended for good.
LEMMA StillWanted ==
    ASSUME PagesInv, ComingInv, UNCHANGED <<cancelled, shown>>, Live' = Live,
           NEW s \in SetIds, sets'[s].token = sets[s].token,
           sets[s] # None /\ sets[s].frozen # <<>> =>
                sets'[s].frozen = sets[s].frozen /\ sets'[s].more = sets[s].more,
           sets[s] # None
    PROVE  /\ Wanted(s)' => Wanted(s) /\ Busy(s)
           /\ preparer'[s].pc = preparer[s].pc => EndedForGood(s)'
<1>1. Stopped(s)' <=> Stopped(s)
  BY DEF Stopped
<1>2. sets[s].frozen # <<>> => (Full(sets'[s]) <=> Full(sets[s]))
  BY DEF Full, Total
<1>3. EndedForGood(s) /\ (Wanted(s) => Busy(s)) /\ Worked(s)
  BY DEF ComingInv, PagesInv
<1>4. ASSUME Wanted(s)' PROVE Wanted(s)
  <2>1. Returned(s)
    BY <1>4 DEF Wanted, Returned
  <2>2. sets[s].frozen # <<>>
    BY <2>1, ReturnedFrozen
  <2>3. QED
    BY <1>1, <1>2, <1>4, <2>1, <2>2 DEF Wanted
<1>5. ASSUME preparer'[s].pc = preparer[s].pc PROVE EndedForGood(s)'
  BY <1>1, <1>2, <1>3, <1>5 DEF EndedForGood, Worked
<1>6. QED
  BY <1>3, <1>4, <1>5

\* Asked to start the preparer of s, _maybe_start_page_preparation starts it,
\* or somebody else is at work, or nothing is left.
LEMMA MaybeStartComes ==
    ASSUME PagesInv, ComingInv, NEW s \in SetIds, sets[s] # None, sets[s].frozen # <<>>,
           MaybeStart(s), UNCHANGED <<cancelled, sets, scorer>>, Live' = Live
    PROVE  EndedForGood(s)' /\ (Wanted(s)' => Busy(s)')
<1>1. Stopped(s)' <=> Stopped(s)
  BY DEF Stopped
<1>2. EndedForGood(s) /\ preparer \in [SetIds -> PreparerType]
  BY DEF ComingInv, PagesInv, TypeOK, WorkerTypeOK
<1>3. CASE Allowed(s)
  <2>1. preparer'[s].pc = "walk"
    BY <1>2, <1>3 DEF MaybeStart, PreparerType
  <2>2. QED
    BY <2>1 DEF EndedForGood, Busy
<1>4. CASE ~Allowed(s)
  <2>1. preparer' = preparer
    BY <1>4 DEF MaybeStart
  <2>2. EndedForGood(s)'
    BY <1>1, <1>2, <2>1 DEF EndedForGood, Full, Total
  <2>3. ASSUME Wanted(s)' PROVE Busy(s)'
    <3>1. ~Stopped(s) /\ sets[s].more /\ ~Full(sets[s])
      BY <1>1, <2>3 DEF Wanted, Full, Total
    <3>2. CASE preparer[s].pc \notin {"off", "failed"}
      BY <1>2, <2>1, <3>1, <3>2 DEF EndedForGood, Busy
    <3>3. CASE \E t \in Live : sets[t].id = sets[s].id /\ Registered(t)
      BY <3>3 DEF Busy, Registered
    <3>4. QED
      BY <1>4, <3>1, <3>2, <3>3 DEF Allowed
  <2>4. QED
    BY <2>2, <2>3
<1>5. QED
  BY <1>3, <1>4

\* Freeze changes nothing but its set.
LEMMA FreezeElsewhere ==
    ASSUME NEW s, NEW b, NEW o, NEW otherwise, Freeze(s, b, o, otherwise),
           NEW t \in SetIds, t # s,
           sets \in [SetIds -> SetType \cup {None}], WorkerTypeOK
    PROVE  sets'[t] = sets[t] /\ lexical'[t] = lexical[t] /\ scorer'[t] = scorer[t]
BY DEF Freeze, WorkerTypeOK

\* What _expire_sessions leaves.
LEMMA PurgedLeaves ==
    ASSUME PagesInv, NEW C
    PROVE  /\ Purged(C) \in Seq(SetIds)
           /\ ToSet(Purged(C)) = Live \ {s \in Live : sets[s].token \in C}
BY InUse, DropKeeps DEF Purged

LEMMA LookupComes ==
    ASSUME PagesInv, ComingInv, NEW r \in Requests, Lookup(r)
    PROVE  ComingInv'
<1> DEFINE C == Superseded(request[r].id)
           left == Purged(C)
<1>1. /\ cancelled' = C /\ cancelled \subseteq C
      /\ sessions' = left \/ \E s : sessions' = MoveToEnd(left, s) /\ s \in ToSet(left)
      /\ UNCHANGED <<latest, tokens, sets, workerVars, clearVars, shown>>
  <2> DEFINE ours == Drop(left, {s \in ToSet(left) : sets[s].id # request[r].id})
             published == Drop(ours, {s \in ToSet(ours) : sets[s].frozen = <<>>})
  <2>1. /\ cancelled' = C /\ cancelled \subseteq C
        /\ sessions' = left \/ (published # <<>> /\ sessions' = MoveToEnd(left, Last(published)))
        /\ UNCHANGED <<latest, tokens, sets, workerVars, clearVars, shown>>
    BY DEF Lookup, Superseded
  <2>2. left \in Seq(SetIds)
    BY PurgedLeaves
  <2> HIDE DEF left, C
  <2>3. ours \in Seq(SetIds) /\ ToSet(ours) \subseteq ToSet(left)
    BY <2>2, DropKeeps
  <2> HIDE DEF ours
  <2>4. published \in Seq(SetIds) /\ ToSet(published) \subseteq ToSet(left)
    BY <2>3, DropKeeps
  <2> HIDE DEF published
  <2>5. published # <<>> => Last(published) \in ToSet(left)
    BY <2>4, EndsBelong
  <2>6. QED
    BY <2>1, <2>5
<1>2. left \in Seq(SetIds) /\ ToSet(left) = Live \ {s \in Live : sets[s].token \in C}
  BY PurgedLeaves
<1> HIDE DEF left, C
<1>3. Live' = ToSet(left)
  <2>1. CASE sessions' = left
    BY <2>1 DEF Live
  <2>2. ASSUME NEW s \in ToSet(left), sessions' = MoveToEnd(left, s) PROVE Live' = ToSet(left)
    <3>1. s \in SetIds
      BY <1>2, InUse
    <3>2. ToSet(MoveToEnd(left, s)) = ToSet(left) \cup {s}
      BY <1>2, <3>1, MoveToEndKeeps
    <3>3. QED
      BY <2>2, <3>2 DEF Live
  <2>3. QED
    BY <1>1, <2>1, <2>2
<1>4. /\ \A t \in Live : t \notin Live' => sets[t].token \in cancelled'
      /\ \A t \in Live' : t \in Live
  BY <1>1, <1>2, <1>3
<1>5. QED
  BY <1>1, <1>4, DroppingComes

LEMMA CreateComes ==
    ASSUME PagesInv, ComingInv, NEW r \in Requests, Create(r)
    PROVE  ComingInv'
<1> DEFINE left == Purged(cancelled)
           published == Drop(left, {s \in ToSet(left) : \/ sets[s].id # request[r].id
                                                        \/ sets[s].frozen = <<>>})
<1>1. /\ UNCHANGED <<latest, tokens, retiring, wake, preparer, clearVars, shown>>
      /\ \/ /\ published # <<>>
            /\ sessions' = MoveToEnd(left, Head(published))
            /\ UNCHANGED <<cancelled, sets, lexical, scorer>>
         \/ NewSession(r, left)
  BY DEF Create
<1>2. left \in Seq(SetIds) /\ ToSet(left) = Live \ {s \in Live : sets[s].token \in cancelled}
  BY PurgedLeaves
<1> HIDE DEF left
<1>3. published \in Seq(SetIds) /\ ToSet(published) \subseteq ToSet(left)
  BY <1>2, DropKeeps
<1> HIDE DEF published
<1>4. CASE /\ published # <<>>
           /\ sessions' = MoveToEnd(left, Head(published))
           /\ UNCHANGED <<cancelled, sets, lexical, scorer>>
  <2> DEFINE s == Head(published)
  <2>1. s \in ToSet(left) /\ s \in SetIds
    BY <1>2, <1>3, <1>4, EndsBelong, InUse
  <2>2. sessions' = MoveToEnd(left, s)
    BY <1>4
  <2> HIDE DEF s
  <2>3. ToSet(MoveToEnd(left, s)) = ToSet(left) \cup {s}
    BY <1>2, <2>1, MoveToEndKeeps
  <2>4. Live' = ToSet(left)
    BY <2>1, <2>2, <2>3 DEF Live
  <2>5. QED
    BY <1>1, <1>2, <1>4, <2>4, DroppingComes
<1>5. CASE NewSession(r, left)
  <2> DEFINE others == {s \in ToSet(left) : sets[s].id # request[r].id}
             new == Cardinality({s \in SetIds : sets[s] # None}) + 1
             d == Drop(left, others)
  <2>1. /\ new \in SetIds
        /\ sessions' = Append(d, new)
        /\ cancelled' = cancelled \cup {sets[s].token : s \in others}
        /\ \E b, o : Freeze(new, b, o, "off")
    BY <1>5 DEF NewSession
  <2>2. d \in Seq(SetIds) /\ ToSet(d) = ToSet(left) \ others
    BY <1>2, DropKeeps
  <2>3. new = Cardinality({s \in SetIds : sets[s] # None}) + 1
    OBVIOUS
  <2> HIDE DEF new, d
  <2>4. \A s \in SetIds : sets[s] # None <=> s < new
    BY <2>3, NextIsFree
  <2>5. sets[new] = None
    BY <2>1, <2>4, PagesAssumption DEF SetIds
  <2>6. Live' = ToSet(d) \cup {new}
    BY <2>1, <2>2, AppendKeeps DEF Live
  <2>7. /\ \A t \in Live : t \notin Live' => sets[t].token \in cancelled'
        /\ \A t \in Live' : t \notin Live => sets[t] = None
    BY <1>2, <2>1, <2>2, <2>5, <2>6
  <2>8. sets \in [SetIds -> SetType \cup {None}] /\ WorkerTypeOK
    BY DEF PagesInv, TypeOK
  <2>9. \A t \in SetIds : sets[t] # None => /\ sets'[t] = sets[t]
                                            /\ lexical'[t] = lexical[t]
                                            /\ scorer'[t] = scorer[t]
    BY <2>1, <2>5, <2>8, FreezeElsewhere
  <2>10. cancelled \subseteq cancelled'
    BY <2>1
  <2>11. QED
    BY <1>1, <2>7, <2>9, <2>10, DroppingComes
<1>6. QED
  BY <1>1, <1>4, <1>5

LEMMA ServerComes ==
    ASSUME PagesInv, ComingInv,
           \/ \E r \in Requests : (\E i \in Identities : Admit(r, i)) \/ Expires(r)
           \/ \E s \in SetIds : Navigate(s)
           \/ Evict \/ ClearBegin \/ ClearEnd
    PROVE  ComingInv'
<1>1. UNCHANGED <<sets, workerVars, shown>> /\ cancelled \subseteq cancelled'
  BY DEF Admit, Expires, Navigate, Evict, ClearBegin, ClearEnd
<1>2. CASE UNCHANGED sessions
  <2>1. Live' = Live
    BY <1>2 DEF Live
  <2>2. QED
    BY <1>1, <2>1, DroppingComes
<1>3. ASSUME NEW s \in SetIds, Navigate(s) PROVE ComingInv'
  <2> DEFINE left == Purged(cancelled)
  <2>1. s \in Live /\ sets[s].token \notin cancelled /\ sessions' = MoveToEnd(left, s) /\ cancelled' = cancelled
    BY <1>3 DEF Navigate
  <2>2. left \in Seq(SetIds) /\ ToSet(left) = Live \ {t \in Live : sets[t].token \in cancelled}
    BY PurgedLeaves
  <2> HIDE DEF left
  <2>3. ToSet(MoveToEnd(left, s)) = ToSet(left) \cup {s}
    BY <2>2, MoveToEndKeeps
  <2>4. Live' = ToSet(left)
    BY <2>1, <2>2, <2>3 DEF Live
  <2>5. QED
    BY <1>1, <2>1, <2>2, <2>4, DroppingComes
<1>4. CASE Evict
  <2>1. /\ sessions # <<>> /\ sessions' = Tail(sessions) /\ sessions \in Seq(SetIds)
        /\ cancelled' = cancelled \cup {sets[Head(sessions)].token}
    BY <1>4, InUse DEF Evict
  <2>2. \A t \in Live : t \in Live' \/ t = Head(sessions)
    <3>1. /\ Len(sessions) \in Nat /\ DOMAIN sessions = 1 .. Len(sessions)
          /\ Head(sessions) = sessions[1]
          /\ DOMAIN Tail(sessions) = 1 .. Len(sessions) - 1
          /\ \A i \in 1 .. Len(sessions) - 1 : Tail(sessions)[i] = sessions[i + 1]
      BY <2>1
    <3>2. ASSUME NEW i \in 1 .. Len(sessions), i # 1
          PROVE  i - 1 \in 1 .. Len(sessions) - 1 /\ Tail(sessions)[i - 1] = sessions[i]
      BY <3>1, <3>2
    <3>3. ASSUME NEW i \in 1 .. Len(sessions)
          PROVE  sessions[i] = Head(sessions) \/ \E j \in DOMAIN Tail(sessions) : Tail(sessions)[j] = sessions[i]
      BY <3>1, <3>2
    <3>4. QED
      BY <2>1, <3>1, <3>3 DEF Live, ToSet
  <2>3. \A t \in Live' : t \in Live
    BY <2>1, EndsBelong DEF Live
  <2>4. QED
    BY <1>1, <2>1, <2>2, <2>3, DroppingComes
<1>5. CASE ClearEnd
  <2>1. Live' = {} /\ \A t \in Live : sets[t].token \in cancelled'
    BY <1>5 DEF ClearEnd, Live, ToSet
  <2>2. QED
    BY <1>1, <2>1, DroppingComes
<1>6. QED
  BY <1>2, <1>3, <1>4, <1>5 DEF Admit, Expires, ClearBegin

\* Page zero is frozen for the first time: nobody was given it yet.
LEMMA RetryComes ==
    ASSUME PagesInv, ComingInv, NEW r \in Requests, Retry(r), RetriesUnpublished
    PROVE  ComingInv'
<1>0. PICK s \in SetIds : s = request[r].set
  BY InUse DEF Retry
<1> DEFINE walking == lexical[s] \in {"walk", "finish"}
<1>1. /\ s \in Live /\ sets[s].frozen = <<>> /\ sets[s] \in SetType /\ sets[s] # None
      /\ UNCHANGED <<latest, tokens, cancelled, retiring, wake, preparer, clearVars, shown>>
  BY <1>0, InUse DEF Retry, RetriesUnpublished
<1>2. PICK o \in FreezeZero(s, sets[s], walking) :
          /\ Freeze(s, sets[s], o, lexical[s])
          /\ sessions' = IF o.page = None THEN sessions ELSE MoveToEnd(sessions, s)
  BY <1>0 DEF Retry
<1>3. GoodOutcome(sets[s], o)
  <2>1. walking \in BOOLEAN
    OBVIOUS
  <2> HIDE DEF walking
  <2>2. QED
    BY <1>1, <1>2, <2>1, FreezeZeroOutcomes
<1> HIDE DEF walking
<1>4. Live' = Live
  <2>1. ToSet(MoveToEnd(sessions, s)) = ToSet(sessions) \cup {s}
    BY <1>1, InUse, MoveToEndKeeps
  <2>2. QED
    BY <1>1, <1>2, <2>1 DEF Live
<1>5. /\ sets \in [SetIds -> SetType \cup {None}] /\ WorkerTypeOK /\ Worked(s)
      /\ lexical[s] \in {"off", "walk", "finish", "start"}
  BY <1>1 DEF PagesInv, TypeOK, WorkerTypeOK
<1>6. /\ sets' = [sets EXCEPT ![s] = o.set]
      /\ \A t \in SetIds \ {s} : lexical'[t] = lexical[t] /\ scorer'[t] = scorer[t]
      /\ scorer[s].pc # "off" => scorer'[s].pc # "off"
  BY <1>1, <1>2, <1>3, <1>5, FreezeWorks
<1>7. /\ sets'[s].id = sets[s].id /\ sets'[s].token = sets[s].token
      /\ \A t \in SetIds \ {s} : sets'[t] = sets[t]
  BY <1>1, <1>3, <1>5, <1>6 DEF GoodOutcome, Grown
<1>8. preparer'[s].pc = "off" /\ ~Returned(s)'
  <2>1. ~Returned(s)
    BY <1>1, ReturnedFrozen
  <2>2. preparer[s].pc = "off"
    BY <1>1, <1>5 DEF Worked
  <2>3. QED
    BY <1>1, <2>1, <2>2 DEF Returned
<1>9. EndedForGood(s)' /\ ~Wanted(s)'
  BY <1>8 DEF EndedForGood, Wanted
<1>10. Registered(s) => Registered(s)'
  BY <1>6 DEF Registered
<1>11. QED
  BY <1>1, <1>4, <1>6, <1>7, <1>9, <1>10, WorkerComes

LEMMA StartComes ==
    ASSUME PagesInv, ComingInv, NEW r \in Requests, Start(r)
    PROVE  ComingInv'
<1>0. PICK s \in SetIds : s = request[r].set
  BY DEF PagesInv, Found, Start
<1>1. /\ MaybeStart(s) /\ request[r].pc = "start"
      /\ shown' = shown \cup {[set |-> s, page |-> request[r].page]}
      /\ UNCHANGED <<latest, tokens, cancelled, sessions, sets, lexical, scorer, retiring, wake,
                     clearVars>>
  BY <1>0 DEF Start
<1>2. s \in SetIds /\ sets[s] # None /\ sets[s].frozen # <<>> /\ Live' = Live
  BY <1>0, <1>1 DEF PagesInv, Found, Live
<1>3. EndedForGood(s)' /\ (Wanted(s)' => Busy(s)')
  BY <1>1, <1>2, MaybeStartComes
<1>4. \A t \in SetIds \ {s} : preparer'[t] = preparer[t]
  BY <1>1, <1>2, MaybeStartTypes
<1>5. \A t : Stopped(t)' <=> Stopped(t)
  BY <1>1, <1>2 DEF Stopped
<1>6. ASSUME NEW u \in SetIds, u # s PROVE EndedForGood(u)' /\ (Wanted(u)' => Busy(u)')
  <2>1. EndedForGood(u) /\ (Wanted(u) => Busy(u)) /\ preparer'[u] = preparer[u]
    BY <1>4, <1>6 DEF ComingInv
  <2>2. EndedForGood(u)'
    BY <1>1, <1>5, <2>1 DEF EndedForGood, Full, Total
  <2>3. Returned(u)' => Returned(u)
    BY <1>1, <1>6 DEF Returned
  <2>4. Wanted(u)' => Wanted(u)
    BY <1>1, <1>2, <1>5, <2>3 DEF Wanted, Full, Total
  <2>5. Busy(u) => Busy(u)'
    BY <1>1, <1>2, <2>1 DEF Busy, Registered
  <2>6. QED
    BY <2>1, <2>2, <2>4, <2>5
<1>7. QED
  BY <1>3, <1>6 DEF ComingInv

\* A step of a worker of s that leaves the pages of s and does not touch its
\* preparer, and leaves it busy if it was.
LEMMA QuietComes ==
    ASSUME PagesInv, ComingInv, UNCHANGED <<preparer, serverVars>>,
           NEW s \in SetIds, sets[s] # None,
           \A t \in SetIds \ {s} : /\ sets'[t] = sets[t]
                                   /\ lexical'[t] = lexical[t]
                                   /\ scorer'[t] = scorer[t],
           sets'[s].id = sets[s].id, sets'[s].token = sets[s].token,
           sets[s].frozen # <<>> => sets'[s].frozen = sets[s].frozen /\ sets'[s].more = sets[s].more,
           \A t \in wake : t \in wake',
           \A t \in retiring : t # s => t \in retiring',
           Registered(s) \/ s \in retiring =>
                \/ Registered(s)' \/ s \in retiring'
                \/ \A t \in Live : sets[t].id = sets[s].id => t \in wake',
           \/ lexical'[s] \in {"walk", "finish", "start"}
           \/ lexical'[s] = lexical[s]
           \/ sets[s].frozen = <<>>
    PROVE  ComingInv'
<1>1. Live' = Live /\ UNCHANGED <<cancelled, shown>>
  BY DEF Live
<1>2. Live \subseteq SetIds /\ \A t \in Live : sets'[t].id = sets[t].id
  BY InUse
<1>3. EndedForGood(s)' /\ (Wanted(s)' => Wanted(s) /\ Busy(s))
  BY <1>1, StillWanted
<1>4. ASSUME Wanted(s)' PROVE Busy(s)'
  <2>1. Wanted(s) /\ Busy(s) /\ s \in Live /\ sets[s].frozen # <<>>
    BY <1>3, <1>4, ReturnedFrozen DEF Wanted
  <2>2. CASE lexical'[s] \in {"walk", "finish", "start"}
    BY <2>2 DEF Busy
  <2>3. CASE preparer[s].pc \notin {"off", "end"} \/ s \in wake
    BY <2>3 DEF Busy
  <2>4. CASE lexical'[s] = lexical[s] /\ lexical[s] \in {"walk", "finish", "start"}
    BY <2>4 DEF Busy
  <2>5. ASSUME NEW t \in Live, sets[t].id = sets[s].id, Registered(t) \/ t \in retiring
        PROVE  Busy(s)'
    <3>1. t \in Live' /\ sets'[t].id = sets'[s].id
      BY <1>1, <1>2, <2>5
    <3>2. CASE Registered(t)' \/ t \in retiring'
      BY <3>1, <3>2 DEF Busy
    <3>3. CASE t = s /\ \A v \in Live : sets[v].id = sets[s].id => v \in wake'
      BY <2>1, <3>3 DEF Busy
    <3>4. CASE t # s
      BY <1>2, <2>5, <3>2, <3>4 DEF Registered
    <3>5. QED
      BY <2>5, <3>2, <3>3, <3>4
  <2>6. QED
    BY <2>1, <2>2, <2>3, <2>4, <2>5 DEF Busy
<1>5. QED
  BY <1>1, <1>3, <1>4, WorkerComes

\* Freezing or keeping page zero by a worker of s.
LEMMA FreezeComes ==
    ASSUME PagesInv, ComingInv, NEW s \in SetIds, sets[s] # None, NEW b, Widened(sets[s], b),
           NEW o, GoodOutcome(b, o), NEW otherwise \in {"off", "walk", "finish", "start"},
           Freeze(s, b, o, otherwise), UNCHANGED <<retiring, wake, preparer, serverVars>>,
           sets[s].frozen # <<>> => o.page = None /\ otherwise # "off"
    PROVE  ComingInv'
<1>1. /\ sets \in [SetIds -> SetType \cup {None}] /\ WorkerTypeOK /\ Worked(s)
  BY DEF PagesInv, TypeOK
<1>2. b.frozen # <<>> /\ Registered(s) => scorer[s].cancelled
  BY <1>1 DEF Worked, Widened
<1>3. /\ sets' = [sets EXCEPT ![s] = o.set]
      /\ \A t \in SetIds \ {s} : lexical'[t] = lexical[t] /\ scorer'[t] = scorer[t]
      /\ scorer[s].pc # "off" => scorer'[s].pc # "off"
      /\ lexical'[s] = IF o.walk THEN "walk" ELSE otherwise
  BY <1>1, <1>2, FreezeWorks
<1>4. /\ sets'[s] = o.set /\ \A t \in SetIds \ {s} : sets'[t] = sets[t]
  BY <1>1, <1>3
<1>5. sets'[s].id = sets[s].id /\ sets'[s].token = sets[s].token
  BY <1>4 DEF GoodOutcome, Grown, Widened
<1>6. sets[s].frozen # <<>> => sets'[s].frozen = sets[s].frozen /\ sets'[s].more = sets[s].more
  BY <1>4 DEF GoodOutcome, Widened
<1>7. lexical'[s] \in {"walk", "finish", "start"} \/ sets[s].frozen = <<>>
  BY <1>3
<1>8. Registered(s) => Registered(s)'
  BY <1>3 DEF Registered
<1>9. QED
  BY <1>3, <1>4, <1>5, <1>6, <1>7, <1>8, QuietComes

LEMMA LexicalComes ==
    ASSUME PagesInv, ComingInv, NEW s \in SetIds, LexicalBatch(s) \/ LexicalFinish(s)
    PROVE  ComingInv'
<1>1. /\ sets[s] # None /\ sets[s] \in SetType /\ WorkerTypeOK
      /\ UNCHANGED <<retiring, wake, preparer, serverVars>>
  BY WorkerSet DEF LexicalBatch, LexicalFinish
<1>2. CASE lexical' = [lexical EXCEPT ![s] = "finish"] /\ UNCHANGED <<sets, scorer>>
  <2>1. lexical'[s] = "finish" /\ \A t \in SetIds \ {s} : lexical'[t] = lexical[t]
    BY <1>1, <1>2 DEF WorkerTypeOK
  <2>2. QED
    BY <1>1, <1>2, <2>1, QuietComes DEF Registered
<1>3. ASSUME NEW w \in Walks(sets[s], PageSize), NEW b, NEW o, NEW otherwise \in {"finish", "walk"},
             b = [Supply(sets[s], w.found) EXCEPT !.walked = w.walked],
             \/ o \in FreezeZero(s, b, TRUE) /\ b.frozen = <<>>
             \/ o = [set |-> b, walk |-> FALSE, search |-> FALSE, page |-> None],
             Freeze(s, b, o, otherwise)
      PROVE  ComingInv'
  <2>1. w.found \in SUBSET Candidates /\ w.walked \in BOOLEAN
    BY <1>1, WalkTypes
  <2>2. Widened(sets[s], b) /\ b \in SetType /\ Widened(b, b)
    BY <1>1, <1>3, <2>1, SupplyWidens DEF Widened
  <2>3. GoodOutcome(b, o)
    BY <1>3, <2>2, FreezeZeroOutcomes, WaitIsGood
  <2>4. sets[s].frozen # <<>> => o.page = None /\ otherwise # "off"
    <3>1. b.frozen = sets[s].frozen
      BY <2>2 DEF Widened
    <3>2. b.frozen = <<>> \/ o = [set |-> b, walk |-> FALSE, search |-> FALSE, page |-> None]
      BY <1>3
    <3>3. QED
      BY <3>1, <3>2
  <2>5. otherwise \in {"off", "walk", "finish", "start"}
    OBVIOUS
  <2>6. QED
    BY <1>1, <1>3, <2>2, <2>3, <2>4, <2>5, FreezeComes
<1>4. CASE LexicalBatch(s)
  BY <1>2, <1>3, <1>4 DEF LexicalBatch
<1>5. CASE LexicalFinish(s)
  <2> DEFINE done == ~Stopped(s) /\ (sets[s].frozen # <<>> \/ sets[s].walked)
             b == [sets[s] EXCEPT !.lexicalDone = @ \/ done]
             kept == [set |-> b, walk |-> FALSE, search |-> FALSE, page |-> None]
             otherwise(o) == IF o.set.frozen # <<>> THEN "start" ELSE "off"
  <2>1. PICK o \in IF done /\ b.frozen = <<>> THEN FreezeZero(s, b, FALSE) ELSE {kept} :
            Freeze(s, b, o, otherwise(o))
    BY <1>5 DEF LexicalFinish
  <2>2. done \in BOOLEAN
    OBVIOUS
  <2>3. Widened(sets[s], b) /\ b \in SetType /\ Widened(b, b)
    <3> HIDE DEF done
    <3>1. QED
      BY <1>1, <2>2 DEF Widened, SetType
  <2> HIDE DEF b, done
  <2>4. GoodOutcome(b, o)
    BY <2>1, <2>3, FreezeZeroOutcomes, WaitIsGood
  <2>5. sets[s].frozen # <<>> => o.page = None /\ otherwise(o) # "off"
    <3>1. b.frozen = sets[s].frozen
      BY <2>3 DEF Widened
    <3>2. sets[s].frozen # <<>> => o = kept
      BY <2>1, <3>1
    <3>3. QED
      BY <3>1, <3>2
  <2>6. otherwise(o) \in {"off", "walk", "finish", "start"}
    OBVIOUS
  <2> HIDE DEF otherwise
  <2>7. QED
    BY <1>1, <2>1, <2>3, <2>4, <2>5, <2>6, FreezeComes
<1>6. QED
  BY <1>4, <1>5

LEMMA LexicalRestComes ==
    ASSUME PagesInv, ComingInv, NEW s \in SetIds, LexicalCollides(s) \/ LexicalStart(s) \/ ScorerWakes(s)
    PROVE  ComingInv'
<1>1. /\ sets[s] # None /\ WorkerTypeOK
      /\ UNCHANGED <<sets, scorer, retiring, serverVars>>
      /\ \A t \in SetIds \ {s} : lexical'[t] = lexical[t]
      /\ Live' = Live
  BY WorkerSet DEF LexicalCollides, LexicalStart, ScorerWakes, WorkerTypeOK, Live
<1>2. CASE LexicalCollides(s)
  <2>1. lexical'[s] = "finish" /\ UNCHANGED <<wake, preparer>>
    BY <1>1, <1>2 DEF LexicalCollides, WorkerTypeOK
  <2>2. QED
    BY <1>1, <2>1, QuietComes DEF Registered
<1>3. CASE MaybeStart(s) /\ \A t \in wake : t # s => t \in wake'
  <2>1. \A t \in SetIds \ {s} : preparer'[t] = preparer[t]
    BY <1>3, MaybeStartTypes
  <2>2. CASE sets[s].frozen # <<>>
    <3>1. EndedForGood(s)' /\ (Wanted(s)' => Busy(s)')
      BY <1>1, <1>3, <2>2, MaybeStartComes
    <3>2. QED
      BY <1>1, <1>3, <2>1, <3>1, WorkerComes DEF Registered
  <2>3. CASE sets[s].frozen = <<>>
    <3>1. preparer' = preparer /\ preparer[s].pc = "off"
      BY <1>3, <2>3 DEF MaybeStart, Allowed, PagesInv, Worked
    <3>2. ~Returned(s)'
      BY <1>1, <2>3, ReturnedFrozen DEF Returned
    <3>3. EndedForGood(s)' /\ ~Wanted(s)'
      BY <3>1, <3>2 DEF EndedForGood, Wanted
    <3>4. QED
      BY <1>1, <1>3, <2>1, <3>3, WorkerComes DEF Registered
  <2>4. QED
    BY <2>2, <2>3
<1>4. QED
  BY <1>2, <1>3 DEF LexicalStart, ScorerWakes

LEMMA ScorerComes ==
    ASSUME PagesInv, ComingInv, NEW s \in SetIds,
           ScorerBegin(s) \/ ScorerAnswer(s) \/ ScorerMerge(s) \/ ScorerRetired(s)
    PROVE  ComingInv'
<1>1. /\ sets[s] # None /\ sets[s] \in SetType /\ WorkerTypeOK
      /\ sets \in [SetIds -> SetType \cup {None}]
      /\ UNCHANGED <<lexical, preparer, serverVars>>
  BY WorkerSet DEF ScorerBegin, ScorerAnswer, ScorerMerge, ScorerRetired, Registered, PagesInv, TypeOK
<1>2. ASSUME UNCHANGED wake,
             Retire(s) \/ (UNCHANGED retiring /\ scorer'[s].pc # "off"
                            /\ \A t \in SetIds \ {s} : scorer'[t] = scorer[t]),
             NEW p, Widened(sets[s], p), sets' = [sets EXCEPT ![s] = p]
      PROVE  ComingInv'
  <2>1. /\ \A t \in SetIds \ {s} : scorer'[t] = scorer[t]
        /\ Registered(s)' \/ s \in retiring'
        /\ \A t \in retiring : t \in retiring'
    BY <1>1, <1>2 DEF Retire, Registered, WorkerTypeOK
  <2>2. /\ sets'[s] = p /\ \A t \in SetIds \ {s} : sets'[t] = sets[t]
        /\ p.id = sets[s].id /\ p.token = sets[s].token /\ p.frozen = sets[s].frozen /\ p.more = sets[s].more
    BY <1>1, <1>2 DEF Widened
  <2>3. QED
    BY <1>1, <1>2, <2>1, <2>2, QuietComes
<1>3. Widened(sets[s], sets[s]) /\ sets = [sets EXCEPT ![s] = sets[s]]
  BY <1>1 DEF Widened
<1>4. CASE ScorerBegin(s) \/ ScorerAnswer(s)
  <2>1. UNCHANGED <<sets, wake>>
    BY <1>4 DEF ScorerBegin, ScorerAnswer
  <2>2. \/ Retire(s)
        \/ /\ UNCHANGED retiring /\ scorer'[s].pc # "off"
           /\ \A t \in SetIds \ {s} : scorer'[t] = scorer[t]
    BY <1>1, <1>4 DEF ScorerBegin, ScorerAnswer, WorkerTypeOK, ScorerType
  <2>3. QED
    BY <1>2, <1>3, <2>1, <2>2
<1>5. CASE ScorerMerge(s)
  <2>1. UNCHANGED wake
    BY <1>5 DEF ScorerMerge
  <2>2. CASE Retire(s) /\ UNCHANGED sets
    BY <1>2, <1>3, <2>1, <2>2
  <2>3. ASSUME NEW S \in SUBSET (scorer[s].keep \cup (Candidates \ sets[s].seen)),
               NEW out \in BOOLEAN, NEW b, b = Merge(sets[s], S, scorer[s].keep, out),
               sets' = [sets EXCEPT ![s] = b],
               \/ Retire(s)
               \/ /\ scorer' = [scorer EXCEPT ![s].pc = "score", ![s].keep = {}]
                  /\ UNCHANGED retiring
        PROVE  ComingInv'
    <3>1. S \in SUBSET Candidates
      BY <1>1 DEF WorkerTypeOK, ScorerType
    <3>2. Widened(sets[s], b)
      BY <1>1, <2>3, <3>1, MergeWidens
    <3>3. \/ Retire(s)
          \/ /\ UNCHANGED retiring /\ scorer'[s].pc # "off"
             /\ \A t \in SetIds \ {s} : scorer'[t] = scorer[t]
      BY <1>1, <2>3 DEF WorkerTypeOK, ScorerType
    <3>4. QED
      BY <1>2, <2>1, <2>3, <3>2, <3>3
  <2>4. QED
    BY <1>5, <2>2, <2>3 DEF ScorerMerge
<1>6. CASE ScorerRetired(s)
  <2> DEFINE done == sets[s].searchDone \/ (s \in Live /\ (sets[s].exhausted \/ sets[s].frozen # <<>>))
             p == [sets[s] EXCEPT !.searchDone = done]
  <2>1. /\ sets' = [sets EXCEPT ![s] = p] /\ retiring' = retiring \ {s}
        /\ wake' = wake \cup {t \in Live : sets[t].id = sets[s].id} /\ scorer' = scorer
    BY <1>6 DEF ScorerRetired
  <2>2. /\ p.id = sets[s].id /\ p.token = sets[s].token /\ p.frozen = sets[s].frozen /\ p.more = sets[s].more
    BY <1>1 DEF SetType
  <2> HIDE DEF p
  <2>3. sets'[s] = p /\ \A t \in SetIds \ {s} : sets'[t] = sets[t]
    BY <1>1, <2>1
  <2>4. QED
    BY <1>1, <2>1, <2>2, <2>3, QuietComes
<1>7. QED
  BY <1>4, <1>5, <1>6

\* The preparer of s moves: it is at work, or has nothing left to do.
LEMMA PreparerMoved ==
    ASSUME PagesInv, ComingInv, NEW s \in SetIds, sets[s] # None,
           UNCHANGED <<lexical, scorer, retiring, wake, serverVars>>,
           NEW p, Grown(sets[s], p), sets' = [sets EXCEPT ![s] = p],
           \A t \in SetIds \ {s} : preparer'[t] = preparer[t],
           preparer'[s].pc \in {"off", "end"} => Stopped(s) \/ ~p.more \/ Full(p)
    PROVE  ComingInv'
<1>1. Live' = Live /\ sets \in [SetIds -> SetType \cup {None}]
  BY DEF Live, PagesInv, TypeOK
<1>2. /\ sets'[s] = p /\ \A t \in SetIds \ {s} : sets'[t] = sets[t]
      /\ sets'[s].id = sets[s].id /\ sets'[s].token = sets[s].token
  BY <1>1 DEF Grown
<1>3. Stopped(s)' <=> Stopped(s)
  BY <1>1, <1>2 DEF Stopped
<1>4. EndedForGood(s)'
  BY <1>2, <1>3 DEF EndedForGood, Full, Total
<1>5. Wanted(s)' => Busy(s)'
  BY <1>2, <1>3 DEF Wanted, Busy, Full, Total
<1>6. QED
  BY <1>1, <1>2, <1>4, <1>5, WorkerComes DEF Registered

LEMMA PreparerComes ==
    ASSUME PagesInv, ComingInv, NEW s \in SetIds,
           \/ PreparerWalk(s) \/ PreparerCollides(s) \/ PreparerOut(s) \/ PreparerLoop(s)
           \/ PreparerPage(s)
    PROVE  ComingInv'
<1>1. /\ preparer[s].pc # "off" /\ preparer[s] \in PreparerType /\ preparer \in [SetIds -> PreparerType]
      /\ UNCHANGED <<lexical, scorer, retiring, wake, serverVars>>
      /\ sets[s] # None /\ sets[s] \in SetType /\ Worked(s) /\ EndedForGood(s)
      /\ Grown(sets[s], sets[s]) /\ sets = [sets EXCEPT ![s] = sets[s]]
  BY WorkerSet, WideningGrows
     DEF PreparerWalk, PreparerCollides, PreparerOut, PreparerLoop, PreparerPage, WorkerTypeOK, ComingInv
<1>2. CASE PreparerWalk(s)
  <2>1. \A t \in SetIds \ {s} : preparer'[t] = preparer[t]
    BY <1>1, <1>2 DEF PreparerWalk, PreparerEnds
  <2>2. CASE PreparerEnds(s) /\ UNCHANGED sets /\ Stopped(s)
    BY <1>1, <2>1, <2>2, PreparerMoved
  <2>3. CASE ~(PreparerEnds(s) /\ UNCHANGED sets /\ Stopped(s))
    <3> DEFINE missing == Capacity - Total(sets[s]) - Cardinality(sets[s].pending)
               limit == Max({0, missing, Target(sets[s])})
               B(w) == [Supply(sets[s], w.found) EXCEPT !.walked = w.walked]
               Ready(w) == Total(B(w)) + Cardinality(B(w).pending) >= Capacity
    <3>1. PICK w \in Walks(sets[s], limit) :
              /\ \E S \in SUBSET (Candidates \ B(w).seen), out \in BOOLEAN :
                    sets' = [sets EXCEPT ![s] = Merge(B(w), S, {}, out)]
              /\ preparer' = [preparer EXCEPT ![s].pc = "loop", ![s].ready = Ready(w)]
      BY <1>2, <2>3 DEF PreparerWalk
    <3> DEFINE b == B(w)
    <3>2. preparer'[s].pc = "loop"
      <4> HIDE DEF Ready
      <4>1. QED
        BY <1>1, <3>1 DEF PreparerType
    <3>3. w.found \in SUBSET Candidates /\ w.walked \in BOOLEAN
      BY <1>1, WalkTypes
    <3>4. Widened(sets[s], b) /\ b \in SetType
      <4>1. Widened(sets[s], b)
        BY <1>1, <3>3, SupplyWidens
      <4>2. QED
        BY <4>1 DEF Widened
    <3>5. \E S \in SUBSET (Candidates \ b.seen), out \in BOOLEAN :
              sets' = [sets EXCEPT ![s] = Merge(b, S, {}, out)]
      BY <3>1
    <3> HIDE DEF b
    <3>6. ASSUME NEW S \in SUBSET (Candidates \ b.seen), NEW out \in BOOLEAN
          PROVE  Grown(sets[s], Merge(b, S, {}, out))
      <4>1. Widened(b, Merge(b, S, {}, out))
        BY <3>4, MergeWidens
      <4>2. QED
        BY <3>4, <4>1, WideningTwice, WideningGrows
    <3>7. QED
      BY <1>1, <2>1, <3>2, <3>5, <3>6, PreparerMoved
  <2>4. QED
    BY <2>2, <2>3
<1>3. CASE PreparerCollides(s)
  <2>1. UNCHANGED sets /\ preparer'[s].pc = "dying" /\ \A t \in SetIds \ {s} : preparer'[t] = preparer[t]
    BY <1>1, <1>3 DEF PreparerCollides, PreparerDies, NoPreparer
  <2>2. QED
    BY <1>1, <2>1, PreparerMoved
<1>4. CASE PreparerOut(s)
  <2>1. UNCHANGED sets /\ \A t \in SetIds \ {s} : preparer'[t] = preparer[t]
    BY <1>1, <1>4 DEF PreparerOut, PreparerAt
  <2>2. preparer'[s].pc = "failed" \/ preparer[s].pc = "end"
    BY <1>1, <1>4 DEF PreparerOut, PreparerAt, PreparerType
  <2>3. preparer'[s].pc \in {"off", "end"} => Stopped(s) \/ ~sets[s].more \/ Full(sets[s])
    BY <1>1, <2>2 DEF EndedForGood
  <2>4. QED
    BY <1>1, <2>1, <2>3, PreparerMoved
<1>5. CASE PreparerLoop(s)
  <2>1. UNCHANGED sets /\ \A t \in SetIds \ {s} : preparer'[t] = preparer[t]
    BY <1>1, <1>5 DEF PreparerLoop, PreparerEnds
  <2>2. Registered(s) => scorer[s].cancelled
    BY <1>1 DEF Worked
  <2>3. CASE Stopped(s) \/ ~sets[s].more
    BY <1>1, <2>1, <2>3, PreparerMoved
  <2>4. CASE ~(Stopped(s) \/ ~sets[s].more)
    <3>1. preparer'[s].pc \in {"direct", "search"}
      BY <1>1, <1>5, <2>2, <2>4 DEF PreparerLoop, PreparerType
    <3>2. QED
      BY <1>1, <2>1, <3>1, PreparerMoved
  <2>5. QED
    BY <2>3, <2>4
<1>6. CASE PreparerPage(s)
  <2>1. PICK p : Grown(sets[s], p) /\ sets' = [sets EXCEPT ![s] = p]
    BY <1>6, PreparerPageEffects
  <2>2. /\ preparer'[s].pc # "off"
        /\ preparer'[s].pc = "end" => Stopped(s) \/ ~sets'[s].more \/ Full(sets'[s])
        /\ \A t \in SetIds \ {s} : preparer'[t] = preparer[t]
    BY <1>1, <1>6, PreparerPageEffects
  <2>3. sets'[s] = p
    BY <2>1 DEF PagesInv, TypeOK
  <2>4. QED
    BY <1>1, <2>1, <2>2, <2>3, PreparerMoved
<1>7. QED
  BY <1>2, <1>3, <1>4, <1>5, <1>6

LEMMA StepComes ==
    ASSUME PagesInv, ComingInv, [Next]_vars, [RetriesUnpublished]_vars
    PROVE  ComingInv'
<1>1. CASE UNCHANGED vars
  BY <1>1 DEF vars, ComingInv, EndedForGood, Wanted, Busy, Returned, Stopped, Live, Registered, Full, Total
<1>2. CASE Next /\ RetriesUnpublished
  <2>1. CASE RequestStep
    BY <1>2, <2>1, LookupComes, CreateComes, ServerComes, RetryComes, StartComes DEF RequestStep
  <2>2. CASE WorkerStep
    BY <2>2, LexicalComes, LexicalRestComes, ScorerComes, PreparerComes DEF WorkerStep
  <2>3. QED
    BY <1>2, <2>1, <2>2 DEF Next
<1>3. QED
  BY <1>1, <1>2

\* Once the client holds page zero of a set that promises more pages, a worker
\* of that composition is going to prepare them: no order of requests,
\* scorers, lexical workers and preparers loses the wakeup, as long as no
\* request freezes page zero of a set whose page zero was published between
\* its two sections.
THEOREM PreparationsComing == Spec /\ [][RetriesUnpublished]_vars => []LaterPagesComing
<1>1. Init => ComingInv
  <2> SUFFICES ASSUME Init PROVE ComingInv
    OBVIOUS
  <2>1. \A s \in SetIds : preparer[s].pc = "off" /\ Live = {}
    BY DEF Init, NoPreparer, Live, ToSet
  <2>2. QED
    BY <2>1 DEF ComingInv, EndedForGood, Wanted
<1>2. PagesInv /\ ComingInv /\ [Next]_vars /\ [RetriesUnpublished]_vars => ComingInv'
  BY StepComes
<1>3. PagesInv /\ ComingInv => LaterPagesComing
  <2> SUFFICES ASSUME PagesInv, ComingInv, NEW s \in Live,
                      [set |-> s, page |-> sets[s].frozen[1]] \in shown,
                      ~Stopped(s), sets[s].more, ~Full(sets[s])
               PROVE  Busy(s)
    BY DEF LaterPagesComing, Busy
  <2>1. s \in SetIds
    BY InUse
  <2>2. Wanted(s)
    BY DEF Wanted, Returned
  <2>3. QED
    BY <2>1, <2>2 DEF ComingInv
<1>4. QED
  BY <1>1, <1>2, <1>3, Invariance, PTL DEF Spec

=============================================================================
