-------------------------- MODULE LexicalWalkProofs --------------------------
(***************************************************************************)
(* Proofs about the trie walk of PinyinMatch (iter_neural_matches) and     *)
(* about the lexical walk of LexicalWalk                                   *)
(* (_iter_lexical_completion_candidates), for every finite index, every    *)
(* alphabet and all typed keys.                                            *)
(*                                                                         *)
(* The trie walk cuts off a visit of a state it has seen with no more      *)
(* shorthand.  WalkInv says why that is safe: every call a visit would     *)
(* make is covered by a visit or a waiting call that is at least as good,  *)
(* and every match it would record is stood for by one that was found.     *)
(*                                                                         *)
(* TailInv is the same idea for the heap.  A path that was taken has been  *)
(* given to the caller, or each of its children is due: taken, in the      *)
(* heap, set aside, or among the seeds some item in the heap takes along.  *)
(* With an empty heap only "taken" is left, and everything follows by      *)
(* induction on the number of matches laid end to end.                     *)
(*                                                                         *)
(* TurnInv is about the order.  An item was pushed no later in the turn of *)
(* its root than now, so nothing of an earlier root is left in the heap    *)
(* when an up-to-date item is first; and until every exact text is out,    *)
(* the exact part of the index is walked through on its own.               *)
(*                                                                         *)
(* LexicalTailOffered needs no invariant beyond the form of the query: it  *)
(* compares three recursive counts with the spellings and paths they       *)
(* count, each by induction over the letters.                              *)
(***************************************************************************)
EXTENDS LexicalWalk, NaturalLemmas, SequenceTheorems, TLAPS

-----------------------------------------------------------------------------
(* Types, and the steps along one syllable. *)

Texts == Seq(Letters)           \* syllables
Nodes == Seq(Texts)

QueryOK(q) ==
    /\ q.raw \in Seq(Letters)
    /\ q.start \in Nat /\ q.start < Len(q.raw)
    /\ q.boundaries \in SUBSET Nat
    /\ q.flavour \in Flavours

FrameType == [node : Nodes, pos : Nat, shorthand : Nat, incomplete : BOOLEAN]
ReadingType == [pos : Nat, shorthand : Nat, incomplete : BOOLEAN]

\* The three ways to read syllable s at position p.
ReadsWhole(q, s, p) ==
    StartsWith(q.raw, s, p) /\ ~\E c \in q.boundaries : p < c /\ c < p + Len(s)
ReadsInitial(q, s, p) == q.flavour # "exact" /\ q.raw[p + 1] = s[1]
ReadsUnfinished(q, s, p) ==
    /\ q.flavour # "exact" /\ 1 < Len(q.raw) - p /\ Len(q.raw) - p < Len(s)
    /\ SubSeq(s, 1, Len(q.raw) - p) = SubSeq(q.raw, p + 1, Len(q.raw))
    /\ ~\E c \in q.boundaries : p < c /\ c < Len(q.raw)

\* Steps is the three ways of search to go on from one child: a whole
\* syllable, an initial, or the unfinished last syllable.
LEMMA StepCases ==
    ASSUME NEW q, NEW s, NEW r, NEW t
    PROVE  t \in Steps(q, s, r) <=>
              \/ ReadsWhole(q, s, r.pos) /\ t = Reading(r.pos + Len(s), r.shorthand, r.incomplete)
              \/ ReadsInitial(q, s, r.pos) /\ t = Reading(r.pos + 1, r.shorthand + 1, r.incomplete)
              \/ ReadsUnfinished(q, s, r.pos) /\ t = Reading(Len(q.raw), r.shorthand, TRUE)
BY DEF Steps, ReadsWhole, ReadsInitial, ReadsUnfinished

\* A set as a sequence.
LEMMA SetAsSeq ==
    ASSUME NEW S, IsFiniteSet(S)
    PROVE  SetToSeq(S) \in Seq(S) /\ ToSet(SetToSeq(S)) = S
<1>1. Cardinality(S) \in Nat /\ ExistsBijection(1 .. Cardinality(S), S)
  BY FS_CardinalityType
<1>2. \E f \in [1 .. Cardinality(S) -> S] : IsInjective(f)
  BY <1>1 DEF ExistsBijection, Bijection, Injection
<1> DEFINE f == SetToSeq(S)
<1>3. f \in [1 .. Cardinality(S) -> S] /\ IsInjective(f)
  BY <1>2 DEF SetToSeq
<1> HIDE DEF f
<1>4. f \in Injection(1 .. Cardinality(S), S)
  BY <1>3 DEF Injection
<1>5. IsFiniteSet(1 .. Cardinality(S)) /\ Cardinality(1 .. Cardinality(S)) = Cardinality(S)
  BY <1>1, FS_Interval
<1>6. f \in Surjection(1 .. Cardinality(S), S)
  BY <1>4, <1>5, FS_Injection
<1>7. f \in Seq(S)
  BY <1>1, <1>3
<1>8. ToSet(f) = S
  BY <1>1, <1>3, <1>6 DEF Surjection, ToSet
<1>9. QED
  BY <1>7, <1>8 DEF f

-----------------------------------------------------------------------------
(* The calls of visit() *)

\* What MatchAssumption says of the syllables of one entry.
LEMMA EntryFacts ==
    ASSUME NEW e \in Entries
    PROVE  /\ e.syllables \in Nodes /\ Len(e.syllables) \in Nat \ {0}
           /\ \A i \in 1 .. Len(e.syllables) : /\ e.syllables[i] \in Texts
                                               /\ Len(e.syllables[i]) \in Nat \ {0}
<1>1. e.syllables \in Nodes /\ e.syllables # <<>>
  BY MatchAssumption DEF Nodes, Texts
<1>2. Len(e.syllables) \in Nat \ {0}
  BY <1>1, EmptySeq DEF Nodes
<1>3. ASSUME NEW i \in 1 .. Len(e.syllables)
      PROVE  e.syllables[i] \in Texts /\ Len(e.syllables[i]) \in Nat \ {0}
  <2>1. e.syllables[i] \in Texts
    BY <1>1, ElementOfSeq DEF Nodes
  <2>2. e.syllables[i] # <<>>
    BY <1>1, MatchAssumption DEF Nodes
  <2>3. QED
    BY <2>1, <2>2, EmptySeq DEF Texts
<1>4. QED
  BY <1>1, <1>2, <1>3

\* A node of the trie has finitely many children, none of them empty.
LEMMA ChildrenFacts ==
    ASSUME NEW node \in Nodes
    PROVE  /\ IsFiniteSet(Children(node))
           /\ \A s \in Children(node) : s \in Texts /\ Len(s) \in Nat \ {0}
<1> DEFINE D == {f \in Entries : IsStrictPrefix(node, f.syllables)}
           F == [e \in D |-> e.syllables[Len(node) + 1]]
<1>1. IsFiniteSet(D)
  BY MatchAssumption, FS_Subset
<1>2. F \in Surjection(D, Children(node))
  BY DEF Surjection, Children
<1>3. IsFiniteSet(Children(node))
  BY <1>1, <1>2, FS_Surjection
<1>4. ASSUME NEW e \in D PROVE Len(node) + 1 \in 1 .. Len(e.syllables)
  <2>1. Len(node) \in Nat /\ e.syllables \in Nodes /\ Len(e.syllables) \in Nat
    BY EntryFacts DEF Nodes
  <2>2. Len(node) <= Len(e.syllables)
    BY DEF IsStrictPrefix, IsPrefix
  <2>3. Len(node) # Len(e.syllables)
    <3> SUFFICES ASSUME Len(node) = Len(e.syllables) PROVE FALSE
      OBVIOUS
    <3>1. SubSeq(node, 1, Len(node)) = node /\ SubSeq(e.syllables, 1, Len(e.syllables)) = e.syllables
      BY <2>1, SubSeqFull DEF Nodes
    <3>2. QED
      BY <3>1 DEF IsStrictPrefix, IsPrefix
  <2>4. QED
    BY <2>1, <2>2, <2>3
<1>5. \A s \in Children(node) : s \in Texts /\ Len(s) \in Nat \ {0}
  BY <1>4, EntryFacts DEF Children
<1>6. QED
  BY <1>3, <1>5

\* The syllable after a strict prefix, and the prefix with it.
LEMMA PrefixStep ==
    ASSUME NEW e \in Entries, NEW node \in Nodes, IsStrictPrefix(node, e.syllables)
    PROVE  /\ Len(node) + 1 \in 1 .. Len(e.syllables)
           /\ node = SubSeq(e.syllables, 1, Len(node))
           /\ Append(node, e.syllables[Len(node) + 1]) = SubSeq(e.syllables, 1, Len(node) + 1)
           /\ e.syllables[Len(node) + 1] \in Children(node)
<1>1. Len(node) \in Nat /\ e.syllables \in Nodes /\ Len(e.syllables) \in Nat
  BY EntryFacts DEF Nodes
<1>2. SubSeq(node, 1, Len(node)) = node /\ SubSeq(e.syllables, 1, Len(e.syllables)) = e.syllables
  BY <1>1, SubSeqFull DEF Nodes
<1>3. Len(node) <= Len(e.syllables) /\ node = SubSeq(e.syllables, 1, Len(node))
  BY <1>2 DEF IsStrictPrefix, IsPrefix
<1>4. Len(node) # Len(e.syllables)
  BY <1>2, <1>3 DEF IsStrictPrefix
<1>5. Len(node) + 1 \in 1 .. Len(e.syllables)
  BY <1>1, <1>3, <1>4
<1>6. Append(node, e.syllables[Len(node) + 1]) = SubSeq(e.syllables, 1, Len(node) + 1)
  <2> DEFINE k == Len(node) + 1
  <2>1. 1 \in 1 .. Len(e.syllables) /\ k \in 1 .. Len(e.syllables)
    BY <1>1, <1>5
  <2>2. SubSeq(e.syllables, 1, k) = SubSeq(e.syllables, 1, k - 1) \o <<e.syllables[k]>>
    BY <1>1, <2>1, SubSeqRecursiveSecond DEF Nodes
  <2>3. k - 1 = Len(node)
    BY <1>1
  <2>4. e.syllables[k] \in Texts
    BY <2>1, EntryFacts
  <2>5. Append(node, e.syllables[k]) = node \o <<e.syllables[k]>>
    BY <2>4, AppendIsConcat DEF Nodes
  <2>6. QED
    BY <1>3, <2>2, <2>3, <2>5
<1>7. e.syllables[Len(node) + 1] \in Children(node)
  BY DEF Children
<1>8. QED
  BY <1>3, <1>5, <1>6, <1>7

\* Every step moves forward and never past the typed letters.
LEMMA StepTypes ==
    ASSUME NEW q, QueryOK(q), NEW s \in Texts, Len(s) \in Nat \ {0},
           NEW r, r.pos \in Nat, r.pos < Len(q.raw), r.shorthand \in Nat, r.incomplete \in BOOLEAN,
           NEW t \in Steps(q, s, r)
    PROVE  t \in ReadingType /\ r.pos < t.pos /\ t.pos <= Len(q.raw)
<1>1. Len(q.raw) \in Nat
  BY DEF QueryOK
<1>2. ReadsWhole(q, s, r.pos) => r.pos + Len(s) <= Len(q.raw)
  BY DEF ReadsWhole, StartsWith
<1>3. \/ ReadsWhole(q, s, r.pos) /\ t = Reading(r.pos + Len(s), r.shorthand, r.incomplete)
      \/ ReadsInitial(q, s, r.pos) /\ t = Reading(r.pos + 1, r.shorthand + 1, r.incomplete)
      \/ ReadsUnfinished(q, s, r.pos) /\ t = Reading(Len(q.raw), r.shorthand, TRUE)
  BY StepCases
<1>4. \A p \in Nat, h \in Nat, i \in BOOLEAN :
          Reading(p, h, i) \in ReadingType /\ Reading(p, h, i).pos = p
  BY DEF Reading, ReadingType
<1>5. CASE ReadsWhole(q, s, r.pos) /\ t = Reading(r.pos + Len(s), r.shorthand, r.incomplete)
  BY <1>1, <1>2, <1>4, <1>5
<1>6. CASE t = Reading(r.pos + 1, r.shorthand + 1, r.incomplete)
  BY <1>1, <1>4, <1>6
<1>7. CASE t = Reading(Len(q.raw), r.shorthand, TRUE)
  <2>1. t \in ReadingType
    BY <1>1, <1>7 DEF Reading, ReadingType
  <2>2. t.pos = Len(q.raw)
    BY <1>7 DEF Reading
  <2>3. QED
    BY <1>1, <2>1, <2>2
<1>8. QED
  BY <1>3, <1>5, <1>6, <1>7


\* The frame visit() is called with for a reading t of syllable s.
CallOf(f, s, t) == Frame(Append(f.node, s), t.pos, t.shorthand, t.incomplete)

\* search is called with well-typed frames only.
LEMMA CallTypes ==
    ASSUME NEW q, QueryOK(q), NEW f \in FrameType, f.pos < Len(q.raw),
           NEW s \in Children(f.node), NEW t \in Steps(q, s, f)
    PROVE  CallOf(f, s, t) \in FrameType
<1>1. /\ f.node \in Nodes /\ f.pos \in Nat /\ f.shorthand \in Nat /\ f.incomplete \in BOOLEAN
  BY DEF FrameType
<1>2. s \in Texts /\ Len(s) \in Nat \ {0}
  BY <1>1, ChildrenFacts
<1>3. t \in ReadingType
  BY <1>1, <1>2, StepTypes
<1>4. Append(f.node, s) \in Nodes
  BY <1>1, <1>2, AppendProperties DEF Nodes
<1>5. QED
  BY <1>3, <1>4 DEF CallOf, Frame, FrameType, ReadingType

\* The frames a visit pushes are those of the steps of the node's children,
\* all of them and no other.
LEMMA CallsAreSteps ==
    ASSUME NEW q, QueryOK(q), NEW f \in FrameType, f.pos < Len(q.raw)
    PROVE  /\ Calls(q, f) \in Seq(FrameType)
           /\ \A s \in Children(f.node) : \A t \in Steps(q, s, f) :
                 \E i \in DOMAIN Calls(q, f) : Calls(q, f)[i] = CallOf(f, s, t)
           /\ \A i \in DOMAIN Calls(q, f) :
                 \E s \in Children(f.node) : \E t \in Steps(q, s, f) : Calls(q, f)[i] = CallOf(f, s, t)
<1> DEFINE rest == Len(q.raw) - f.pos
           remaining == SubSeq(q.raw, f.pos + 1, Len(q.raw))
           next(s) == Append(f.node, s)
           W == {t \in Children(f.node) : /\ StartsWith(q.raw, t, f.pos)
                                          /\ ~CrossesBoundary(q.boundaries, f.pos, f.pos + Len(t))}
           I == {t \in Children(f.node) : /\ q.raw[f.pos + 1] = t[1]
                                          /\ ~CrossesBoundary(q.boundaries, f.pos, f.pos + 1)}
           U == {t \in Children(f.node) : /\ 1 < rest /\ rest < Len(t)
                                          /\ IsPrefix(remaining, t)
                                          /\ ~CrossesBoundary(q.boundaries, f.pos, Len(q.raw))}
           whole == {Frame(next(s), f.pos + Len(s), f.shorthand, f.incomplete) : s \in W}
           initial == {Frame(next(s), f.pos + 1, f.shorthand + 1, f.incomplete) : s \in I}
           unfinished == {Frame(next(s), Len(q.raw), f.shorthand, TRUE) : s \in U}
           second == IF q.flavour = "exact" THEN <<>> ELSE SetToSeq(initial \cup unfinished)
<1>0. /\ Len(q.raw) \in Nat /\ q.raw \in Seq(Letters) /\ q.boundaries \in SUBSET Nat
      /\ f.pos \in Nat /\ f.shorthand \in Nat /\ f.incomplete \in BOOLEAN /\ f.node \in Nodes
      /\ rest \in Nat /\ rest > 0
  BY DEF QueryOK, FrameType
<1>1. Calls(q, f) = SetToSeq(whole) \o second
  <2>1. ~(f.pos >= Len(q.raw))
    BY <1>0
  <2>2. QED
    BY <2>1, Zenon DEF Calls
<1>2. /\ IsFiniteSet(Children(f.node))
      /\ \A s \in Children(f.node) : s \in Texts /\ Len(s) \in Nat \ {0}
  BY <1>0, ChildrenFacts
<1>3. \A s \in Children(f.node) :
         /\ s \in W <=> ReadsWhole(q, s, f.pos)
         /\ q.flavour # "exact" => (s \in I <=> ReadsInitial(q, s, f.pos))
         /\ q.flavour # "exact" => (s \in U <=> ReadsUnfinished(q, s, f.pos))
  <2> TAKE s \in Children(f.node)
  <2>1. s \in W <=> ReadsWhole(q, s, f.pos)
    BY DEF ReadsWhole, CrossesBoundary
  <2>2. ~CrossesBoundary(q.boundaries, f.pos, f.pos + 1)
    BY <1>0 DEF CrossesBoundary
  <2>3. q.flavour # "exact" => (s \in I <=> ReadsInitial(q, s, f.pos))
    BY <2>2 DEF ReadsInitial
  <2>4. rest < Len(s) => (IsPrefix(remaining, s) <=> SubSeq(s, 1, rest) = remaining)
    <3>1. remaining \in Seq(Letters) /\ Len(remaining) = rest
      <4>1. \A i \in f.pos + 1 .. Len(q.raw) : q.raw[i] \in Letters
        BY <1>0, ElementOfSeq
      <4>2. f.pos + 1 \in Int /\ Len(q.raw) \in Int /\ f.pos + 1 <= Len(q.raw)
        BY <1>0
      <4>3. QED
        BY <1>0, <4>1, <4>2, SubSeqProperties
    <3>2. SubSeq(remaining, 1, Len(remaining)) = remaining
      BY <3>1, SubSeqFull
    <3> HIDE DEF remaining, rest
    <3>3. QED
      BY <1>0, <1>2, <3>1, <3>2 DEF IsPrefix
  <2>5. q.flavour # "exact" => (s \in U <=> ReadsUnfinished(q, s, f.pos))
    BY <2>4 DEF ReadsUnfinished, CrossesBoundary
  <2>6. QED
    BY <2>1, <2>3, <2>5
<1>4. /\ IsFiniteSet(whole) /\ IsFiniteSet(initial) /\ IsFiniteSet(unfinished)
      /\ IsFiniteSet(initial \cup unfinished)
  <2>1. IsFiniteSet(W) /\ IsFiniteSet(I) /\ IsFiniteSet(U)
    BY <1>2, FS_Subset
  <2>2. [s \in W |-> Frame(next(s), f.pos + Len(s), f.shorthand, f.incomplete)] \in Surjection(W, whole)
    BY DEF Surjection
  <2>3. [s \in I |-> Frame(next(s), f.pos + 1, f.shorthand + 1, f.incomplete)] \in Surjection(I, initial)
    BY DEF Surjection
  <2>4. [s \in U |-> Frame(next(s), Len(q.raw), f.shorthand, TRUE)] \in Surjection(U, unfinished)
    BY DEF Surjection
  <2> HIDE DEF W, I, U, whole, initial, unfinished
  <2>5. IsFiniteSet(whole)
    BY <2>1, <2>2, FS_Surjection
  <2>6. IsFiniteSet(initial)
    BY <2>1, <2>3, FS_Surjection
  <2>7. IsFiniteSet(unfinished)
    BY <2>1, <2>4, FS_Surjection
  <2>8. QED
    BY <2>5, <2>6, <2>7, FS_Union
<1>5. whole \in SUBSET FrameType /\ initial \in SUBSET FrameType /\ unfinished \in SUBSET FrameType
  <2>1. \A s \in Children(f.node) : next(s) \in Nodes
    BY <1>0, <1>2, AppendProperties DEF Nodes
  <2> HIDE DEF next
  <2>3. \A s \in W : Frame(next(s), f.pos + Len(s), f.shorthand, f.incomplete) \in FrameType
    <3> TAKE s \in W
    <3>1. next(s) \in Nodes /\ f.pos + Len(s) \in Nat
      BY <1>0, <1>2, <2>1
    <3>2. QED
      BY <1>0, <3>1 DEF Frame, FrameType
  <2>4. \A s \in I : Frame(next(s), f.pos + 1, f.shorthand + 1, f.incomplete) \in FrameType
    <3> TAKE s \in I
    <3>1. next(s) \in Nodes /\ f.pos + 1 \in Nat /\ f.shorthand + 1 \in Nat
      BY <1>0, <2>1
    <3>2. QED
      BY <1>0, <3>1 DEF Frame, FrameType
  <2>5. \A s \in U : Frame(next(s), Len(q.raw), f.shorthand, TRUE) \in FrameType
    <3> TAKE s \in U
    <3>1. next(s) \in Nodes
      BY <2>1
    <3>2. QED
      BY <1>0, <3>1 DEF Frame, FrameType
  <2> HIDE DEF W, I, U
  <2>6. QED
    BY <2>3, <2>4, <2>5
<1>6. /\ SetToSeq(whole) \in Seq(FrameType) /\ ToSet(SetToSeq(whole)) = whole
      /\ second \in Seq(FrameType)
      /\ ToSet(second) = IF q.flavour = "exact" THEN {} ELSE initial \cup unfinished
  <2> HIDE DEF whole, initial, unfinished
  <2>1. SetToSeq(whole) \in Seq(FrameType) /\ ToSet(SetToSeq(whole)) = whole
    BY <1>4, <1>5, SetAsSeq, SeqMonotonic
  <2>2. /\ SetToSeq(initial \cup unfinished) \in Seq(FrameType)
        /\ ToSet(SetToSeq(initial \cup unfinished)) = initial \cup unfinished
    <3>1. initial \cup unfinished \in SUBSET FrameType
      BY <1>5
    <3>2. QED
      BY <1>4, <3>1, SetAsSeq, SeqMonotonic
  <2>3. <<>> \in Seq(FrameType) /\ ToSet(<<>>) = {}
    BY DEF ToSet
  <2>4. QED
    BY <2>1, <2>2, <2>3
<1>7. /\ Calls(q, f) \in Seq(FrameType)
      /\ Range(Calls(q, f)) = whole \cup (IF q.flavour = "exact" THEN {} ELSE initial \cup unfinished)
  <2> HIDE DEF whole, initial, unfinished, second
  <2>1. Calls(q, f) \in Seq(FrameType)
    BY <1>1, <1>6, ConcatProperties
  <2>2. Range(Calls(q, f)) = Range(SetToSeq(whole)) \cup Range(second)
    BY <1>1, <1>6, RangeConcatenation
  <2>3. QED
    BY <1>6, <2>1, <2>2 DEF Range, ToSet
<1>8. ASSUME NEW s \in Children(f.node), NEW t \in Steps(q, s, f)
      PROVE  CallOf(f, s, t) \in Range(Calls(q, f))
  <2>1. CASE ReadsWhole(q, s, f.pos) /\ t = Reading(f.pos + Len(s), f.shorthand, f.incomplete)
    <3>1. CallOf(f, s, t) = Frame(next(s), f.pos + Len(s), f.shorthand, f.incomplete)
      BY <2>1 DEF CallOf, Reading
    <3>2. s \in W
      BY <1>3, <2>1
    <3>3. QED
      BY <1>7, <3>1, <3>2
  <2>2. CASE ReadsInitial(q, s, f.pos) /\ t = Reading(f.pos + 1, f.shorthand + 1, f.incomplete)
    <3>1. CallOf(f, s, t) = Frame(next(s), f.pos + 1, f.shorthand + 1, f.incomplete)
      BY <2>2 DEF CallOf, Reading
    <3>2. s \in I /\ q.flavour # "exact"
      BY <1>3, <2>2 DEF ReadsInitial
    <3>3. QED
      BY <1>7, <3>1, <3>2
  <2>3. CASE ReadsUnfinished(q, s, f.pos) /\ t = Reading(Len(q.raw), f.shorthand, TRUE)
    <3>1. CallOf(f, s, t) = Frame(next(s), Len(q.raw), f.shorthand, TRUE)
      BY <2>3 DEF CallOf, Reading
    <3>2. s \in U /\ q.flavour # "exact"
      BY <1>3, <2>3 DEF ReadsUnfinished
    <3>3. QED
      BY <1>7, <3>1, <3>2
  <2>4. QED
    BY <2>1, <2>2, <2>3, StepCases
<1>9. ASSUME NEW g \in Range(Calls(q, f))
      PROVE  \E s \in Children(f.node) : \E t \in Steps(q, s, f) : g = CallOf(f, s, t)
  <2>1. CASE g \in whole
    <3>1. PICK s \in W : g = Frame(next(s), f.pos + Len(s), f.shorthand, f.incomplete)
      BY <2>1
    <3>2. Reading(f.pos + Len(s), f.shorthand, f.incomplete) \in Steps(q, s, f)
      BY <1>3, <3>1, StepCases
    <3>3. g = CallOf(f, s, Reading(f.pos + Len(s), f.shorthand, f.incomplete))
      BY <3>1 DEF CallOf, Reading
    <3>4. QED
      BY <3>1, <3>2, <3>3
  <2>2. CASE g \in initial /\ q.flavour # "exact"
    <3>1. PICK s \in I : g = Frame(next(s), f.pos + 1, f.shorthand + 1, f.incomplete)
      BY <2>2
    <3>2. Reading(f.pos + 1, f.shorthand + 1, f.incomplete) \in Steps(q, s, f)
      BY <1>3, <2>2, <3>1, StepCases
    <3>3. g = CallOf(f, s, Reading(f.pos + 1, f.shorthand + 1, f.incomplete))
      BY <3>1 DEF CallOf, Reading
    <3>4. QED
      BY <3>1, <3>2, <3>3
  <2>3. CASE g \in unfinished /\ q.flavour # "exact"
    <3>1. PICK s \in U : g = Frame(next(s), Len(q.raw), f.shorthand, TRUE)
      BY <2>3
    <3>2. Reading(Len(q.raw), f.shorthand, TRUE) \in Steps(q, s, f)
      BY <1>3, <2>3, <3>1, StepCases
    <3>3. g = CallOf(f, s, Reading(Len(q.raw), f.shorthand, TRUE))
      BY <3>1 DEF CallOf, Reading
    <3>4. QED
      BY <3>1, <3>2, <3>3
  <2>4. QED
    BY <1>7, <2>1, <2>2, <2>3
<1>10. QED
  BY <1>7, <1>8, <1>9 DEF Range

-----------------------------------------------------------------------------
(* The readings of an entry. *)

\* The readings of k syllables, from those of k - 1.
Further(q, e, k, R) ==
    UNION {Steps(q, e.syllables[k], r) : r \in {t \in R : t.pos < Len(q.raw)}}

\* f holds the readings of up to m syllables.
Reads(f, q, e, m) ==
    f = [k \in 0 .. m |-> IF k = 0 THEN {Reading(q.start, 0, FALSE)} ELSE Further(q, e, k, f[k - 1])]

\* The recursion that reads the first m syllables of an entry has a
\* solution, built syllable by syllable.
LEMMA ReadsExist ==
    ASSUME NEW q, NEW e
    PROVE  \A m \in Nat : \E f : Reads(f, q, e, m)
<1> DEFINE b == {Reading(q.start, 0, FALSE)}
           Bad == {m \in Nat : ~\E f : Reads(f, q, e, m)}
<1> SUFFICES ASSUME Bad # {} PROVE FALSE
  OBVIOUS
<1>1. PICK m \in Bad : \A n \in Bad : m <= n
  BY LeastNatural
<1>2. m # 0
  <2>1. Reads([k \in 0 .. 0 |-> b], q, e, 0)
    BY DEF Reads
  <2>2. QED
    BY <2>1
<1>3. m - 1 \in Nat /\ m - 1 \notin Bad
  BY <1>1, <1>2
<1>4. PICK f : Reads(f, q, e, m - 1)
  BY <1>3
<1>5. f = [k \in 0 .. m - 1 |-> IF k = 0 THEN b ELSE Further(q, e, k, f[k - 1])]
  BY <1>4 DEF Reads
<1> DEFINE g == [k \in 0 .. m |-> IF k = 0 THEN b ELSE Further(q, e, k, f[k - 1])]
<1>6. \A k \in 0 .. m - 1 : g[k] = f[k]
  <2> HIDE DEF b
  <2>1. QED
    BY <1>1, <1>3, <1>5
<1>7. \A k \in 0 .. m : k # 0 => k - 1 \in 0 .. m - 1
  BY <1>1, <1>3
<1>8. \A k \in 0 .. m : g[k] = IF k = 0 THEN b ELSE Further(q, e, k, g[k - 1])
  <2>1. \A k \in 0 .. m : k # 0 => g[k - 1] = f[k - 1]
    <3> HIDE DEF g
    <3>1. QED
      BY <1>6, <1>7
  <2>2. QED
    BY <2>1
<1>9. Reads(g, q, e, m)
  <2>1. g = [k \in 0 .. m |-> g[k]]
    OBVIOUS
  <2> HIDE DEF g
  <2>2. QED
    BY <1>8, <2>1 DEF Reads
<1>10. QED
  BY <1>1, <1>9

\* So Readings is one.
LEMMA ReadingsUnfold ==
    ASSUME NEW q, NEW e \in Entries
    PROVE  Reads(Readings(q, e), q, e, Len(e.syllables))
<1> DEFINE read == CHOOSE f : f = [k \in 0 .. Len(e.syllables) |->
                        IF k = 0
                        THEN {Reading(q.start, 0, FALSE)}
                        ELSE UNION {Steps(q, e.syllables[k], r) :
                                       r \in {t \in f[k - 1] : t.pos < Len(q.raw)}}]
<1>1. Len(e.syllables) \in Nat
  BY EntryFacts
<1>2. PICK f : Reads(f, q, e, Len(e.syllables))
  BY <1>1, ReadsExist
<1>3. read = [k \in 0 .. Len(e.syllables) |->
                        IF k = 0
                        THEN {Reading(q.start, 0, FALSE)}
                        ELSE UNION {Steps(q, e.syllables[k], r) :
                                       r \in {t \in read[k - 1] : t.pos < Len(q.raw)}}]
  BY <1>2 DEF Reads, Further
<1>4. Readings(q, e) = read
  BY DEF Readings
<1> HIDE DEF read
<1>5. QED
  BY <1>3, <1>4 DEF Reads, Further

\* Readings, one syllable at a time.
LEMMA ReadingsStep ==
    ASSUME NEW q, NEW e \in Entries
    PROVE  /\ Readings(q, e)[0] = {Reading(q.start, 0, FALSE)}
           /\ \A k \in 1 .. Len(e.syllables) : \A t :
                 t \in Readings(q, e)[k] <=>
                    \E r \in Readings(q, e)[k - 1] : r.pos < Len(q.raw) /\ t \in Steps(q, e.syllables[k], r)
<1> DEFINE R == Readings(q, e)
<1>1. /\ R = [k \in 0 .. Len(e.syllables) |->
                 IF k = 0 THEN {Reading(q.start, 0, FALSE)} ELSE Further(q, e, k, R[k - 1])]
      /\ Len(e.syllables) \in Nat
  BY ReadingsUnfold, EntryFacts DEF Reads
<1> HIDE DEF R
<1>2. R[0] = {Reading(q.start, 0, FALSE)}
  BY <1>1
<1>3. ASSUME NEW k \in 1 .. Len(e.syllables)
      PROVE  R[k] = Further(q, e, k, R[k - 1])
  <2>1. k \in 0 .. Len(e.syllables) /\ k # 0
    BY <1>1
  <2>2. QED
    BY <1>1, <2>1
<1>4. \A k \in 1 .. Len(e.syllables) : \A t :
         t \in Further(q, e, k, R[k - 1]) <=>
            \E r \in R[k - 1] : r.pos < Len(q.raw) /\ t \in Steps(q, e.syllables[k], r)
  BY DEF Further
<1>5. QED
  BY <1>2, <1>3, <1>4 DEF R

\* Readings end after the start, and later ones further.
LEMMA ReadingsTypes ==
    ASSUME NEW q, QueryOK(q), NEW e \in Entries
    PROVE  \A k \in 0 .. Len(e.syllables) : \A r \in Readings(q, e)[k] :
              /\ r \in ReadingType /\ q.start <= r.pos /\ r.pos <= Len(q.raw)
              /\ k # 0 => q.start < r.pos
<1> DEFINE Fine(k) == \A r \in Readings(q, e)[k] :
                         /\ r \in ReadingType /\ q.start <= r.pos /\ r.pos <= Len(q.raw)
                         /\ k # 0 => q.start < r.pos
           Bad == {k \in 0 .. Len(e.syllables) : ~Fine(k)}
<1>0. Len(e.syllables) \in Nat /\ Len(q.raw) \in Nat /\ q.start \in Nat /\ q.start < Len(q.raw)
  BY EntryFacts DEF QueryOK
<1>1. SUFFICES ASSUME Bad # {} PROVE FALSE
  <2>1. Bad = {}
    BY <1>1
  <2>2. QED
    BY <2>1
<1>2. PICK k \in Bad : \A n \in Bad : k <= n
  <2>1. Bad \in SUBSET Nat
    BY <1>0
  <2> HIDE DEF Bad
  <2>2. QED
    BY <1>1, <2>1, LeastNatural
<1>3. k # 0
  <2> DEFINE b == Reading(q.start, 0, FALSE)
  <2>1. b \in ReadingType /\ b.pos = q.start
    BY <1>0 DEF Reading, ReadingType
  <2>2. Readings(q, e)[0] = {b}
    BY ReadingsStep
  <2> HIDE DEF b
  <2>3. \A r \in Readings(q, e)[0] : r \in ReadingType /\ q.start <= r.pos /\ r.pos <= Len(q.raw)
    BY <1>0, <2>1, <2>2
  <2>4. QED
    BY <2>3
<1>4. k - 1 \in 0 .. Len(e.syllables) /\ k - 1 \notin Bad /\ k \in 1 .. Len(e.syllables)
  BY <1>0, <1>2, <1>3
<1>5. Fine(k - 1)
  BY <1>4
<1>6. Fine(k)
  <2> SUFFICES ASSUME NEW r \in Readings(q, e)[k]
               PROVE  r \in ReadingType /\ q.start < r.pos /\ r.pos <= Len(q.raw)
    BY <1>0 DEF ReadingType
  <2>1. PICK p \in Readings(q, e)[k - 1] : p.pos < Len(q.raw) /\ r \in Steps(q, e.syllables[k], p)
    BY <1>4, ReadingsStep
  <2>2. p \in ReadingType /\ q.start <= p.pos
    BY <1>5
  <2>3. /\ p.pos \in Nat /\ p.shorthand \in Nat /\ p.incomplete \in BOOLEAN
        /\ e.syllables[k] \in Texts /\ Len(e.syllables[k]) \in Nat \ {0}
    BY <1>4, <2>2, EntryFacts DEF ReadingType
  <2>4. r \in ReadingType /\ p.pos < r.pos /\ r.pos <= Len(q.raw)
    BY <2>1, <2>3, StepTypes
  <2>5. r.pos \in Nat
    BY <2>4 DEF ReadingType
  <2>6. QED
    BY <1>0, <2>2, <2>3, <2>4, <2>5
<1>7. QED
  BY <1>2, <1>6

\* Less shorthand before a syllable leaves less after it.
LEMMA StepMonotone ==
    ASSUME NEW q, NEW s, NEW r, NEW p, r.shorthand \in Nat, p.shorthand \in Nat,
           r.pos = p.pos, r.incomplete = p.incomplete, p.shorthand <= r.shorthand,
           NEW t \in Steps(q, s, r)
    PROVE  \E u \in Steps(q, s, p) :
              u.pos = t.pos /\ u.incomplete = t.incomplete /\ u.shorthand <= t.shorthand
<1>1. CASE ReadsWhole(q, s, r.pos) /\ t = Reading(r.pos + Len(s), r.shorthand, r.incomplete)
  <2>1. Reading(p.pos + Len(s), p.shorthand, p.incomplete) \in Steps(q, s, p)
    BY <1>1, StepCases
  <2>2. QED
    BY <1>1, <2>1 DEF Reading
<1>2. CASE ReadsInitial(q, s, r.pos) /\ t = Reading(r.pos + 1, r.shorthand + 1, r.incomplete)
  <2>1. Reading(p.pos + 1, p.shorthand + 1, p.incomplete) \in Steps(q, s, p)
    BY <1>2, StepCases
  <2>2. p.shorthand + 1 <= r.shorthand + 1
    OBVIOUS
  <2>3. QED
    BY <1>2, <2>1, <2>2 DEF Reading
<1>3. CASE ReadsUnfinished(q, s, r.pos) /\ t = Reading(Len(q.raw), r.shorthand, TRUE)
  <2>1. Reading(Len(q.raw), p.shorthand, TRUE) \in Steps(q, s, p)
    BY <1>3, StepCases
  <2>2. QED
    BY <1>3, <2>1 DEF Reading
<1>4. QED
  BY <1>1, <1>2, <1>3, StepCases

-----------------------------------------------------------------------------
(* Matches and the best of them. *)

MatchType == [entry : Entries, pos : Nat, shorthand : Nat, incomplete : BOOLEAN, completion : Nat]

Same(m, n) == m.entry = n.entry /\ m.pos = n.pos

\* One match of an entry that ends at a position.
Distinct(S) == \A m, n \in S : Same(m, n) => m = n

\* n stands for m: the same entry and position, and m is no better.
StandsFor(n, m) == Same(n, m) /\ ~Better(m, n)

\* Standing for a match is a partial order.
LEMMA BetterOrder ==
    ASSUME NEW l \in MatchType, NEW m \in MatchType, NEW n \in MatchType
    PROVE  /\ StandsFor(m, m)
           /\ StandsFor(l, m) /\ StandsFor(m, n) => StandsFor(l, n)
           /\ Same(m, n) /\ Better(m, n) => StandsFor(m, n)
           /\ StandsFor(m, n) /\ StandsFor(n, m) => m = n
<1>1. /\ l.completion \in Nat /\ m.completion \in Nat /\ n.completion \in Nat
      /\ l.shorthand \in Nat /\ m.shorthand \in Nat /\ n.shorthand \in Nat
      /\ l.incomplete \in BOOLEAN /\ m.incomplete \in BOOLEAN /\ n.incomplete \in BOOLEAN
  BY DEF MatchType
<1>2. StandsFor(m, m)
  BY <1>1 DEF StandsFor, Same, Better
<1>3. StandsFor(l, m) /\ StandsFor(m, n) => StandsFor(l, n)
  BY <1>1 DEF StandsFor, Same, Better
<1>4. Same(m, n) /\ Better(m, n) => StandsFor(m, n)
  BY <1>1 DEF StandsFor, Same, Better
<1>5. ASSUME StandsFor(m, n), StandsFor(n, m) PROVE m = n
  <2>1. /\ m.entry = n.entry /\ m.pos = n.pos
        /\ m.completion = n.completion /\ m.shorthand = n.shorthand
    BY <1>1, <1>5 DEF StandsFor, Same, Better
  <2>2. m.incomplete = n.incomplete
    BY <1>1, <1>5, <2>1 DEF StandsFor, Same, Better
  <2>3. /\ m = [entry |-> m.entry, pos |-> m.pos, shorthand |-> m.shorthand,
                incomplete |-> m.incomplete, completion |-> m.completion]
        /\ n = [entry |-> n.entry, pos |-> n.pos, shorthand |-> n.shorthand,
                incomplete |-> n.incomplete, completion |-> n.completion]
    BY DEF MatchType
  <2>4. QED
    BY <2>1, <2>2, <2>3
<1>6. QED
  BY <1>2, <1>3, <1>4, <1>5

\* record() keeps one match per entry and position, and it stands for all
\* that were offered.
LEMMA RecordKeepsBest ==
    ASSUME NEW S \in SUBSET MatchType, Distinct(S), NEW new \in SUBSET MatchType, Distinct(new)
    PROVE  /\ Record(S, new) \subseteq S \cup new
           /\ Distinct(Record(S, new))
           /\ \A m \in S \cup new : \E n \in Record(S, new) : StandsFor(n, m)
<1> DEFINE kept == {n \in new : \A m \in S : Same(m, n) => Better(n, m)}
           rest == {m \in S : ~\E n \in kept : Same(m, n)}
<1>1. Record(S, new) = rest \cup kept
  BY DEF Record, Same
<1>2. \A m, n : Same(m, n) => Same(n, m)
  BY DEF Same
<1>3. \A l, m, n : Same(l, m) /\ Same(m, n) => Same(l, n)
  BY DEF Same
<1>4. Distinct(rest \cup kept)
  <2> SUFFICES ASSUME NEW m \in rest \cup kept, NEW n \in rest \cup kept, Same(m, n) PROVE m = n
    BY DEF Distinct
  <2>1. m \in kept /\ n \in kept => m = n
    BY DEF Distinct
  <2>2. m \in rest /\ n \in rest => m = n
    BY DEF Distinct
  <2>3. ~(m \in rest /\ n \in kept)
    OBVIOUS
  <2>4. ~(m \in kept /\ n \in rest)
    BY <1>2
  <2>5. QED
    BY <2>1, <2>2, <2>3, <2>4
<1>5. ASSUME NEW m \in S PROVE \E n \in rest \cup kept : StandsFor(n, m)
  <2>1. CASE m \in rest
    BY <2>1, BetterOrder
  <2>2. CASE m \notin rest
    <3>1. PICK n \in kept : Same(m, n)
      BY <2>2
    <3>2. Better(n, m) /\ Same(n, m) /\ n \in MatchType /\ m \in MatchType
      BY <1>2, <3>1
    <3>3. StandsFor(n, m)
      BY <3>2, BetterOrder
    <3>4. QED
      BY <3>1, <3>3
  <2>3. QED
    BY <2>1, <2>2
<1>6. ASSUME NEW m \in new PROVE \E n \in rest \cup kept : StandsFor(n, m)
  <2>1. CASE m \in kept
    BY <2>1, BetterOrder
  <2>2. CASE m \notin kept
    <3>1. PICK n \in S : Same(n, m) /\ ~Better(m, n)
      BY <2>2
    <3>2. n \in rest
      <4> SUFFICES ASSUME NEW k \in kept, Same(n, k) PROVE FALSE
        OBVIOUS
      <4>1. Same(m, k)
        BY <1>2, <1>3, <3>1
      <4>2. m = k
        BY <4>1 DEF Distinct
      <4>3. QED
        BY <2>2, <4>2
    <3>3. QED
      BY <3>1, <3>2 DEF StandsFor
  <2>3. QED
    BY <2>1, <2>2
<1>7. Record(S, new) \subseteq S \cup new
  BY <1>1
<1> HIDE DEF rest, kept
<1>8. QED
  BY <1>1, <1>4, <1>5, <1>6, <1>7

-----------------------------------------------------------------------------
(* What a call of visit() records. *)

\* The frame reads every entry below its node.
Sound(q, f) ==
    \A e \in Entries : IsPrefix(f.node, e.syllables) =>
        Reading(f.pos, f.shorthand, f.incomplete) \in Readings(q, e)[Len(f.node)]

\* Being a prefix of an entry's syllables, by length.
LEMMA PrefixLength ==
    ASSUME NEW node \in Nodes, NEW e \in Entries
    PROVE  /\ IsPrefix(node, e.syllables) <=>
                 (Len(node) <= Len(e.syllables) /\ node = SubSeq(e.syllables, 1, Len(node)))
           /\ IsStrictPrefix(node, e.syllables) <=>
                 (Len(node) < Len(e.syllables) /\ node = SubSeq(e.syllables, 1, Len(node)))
<1>1. Len(node) \in Nat /\ e.syllables \in Nodes /\ Len(e.syllables) \in Nat
  BY EntryFacts DEF Nodes
<1>2. SubSeq(node, 1, Len(node)) = node /\ SubSeq(e.syllables, 1, Len(e.syllables)) = e.syllables
  BY <1>1, SubSeqFull DEF Nodes
<1>3. IsPrefix(node, e.syllables) <=>
          (Len(node) <= Len(e.syllables) /\ node = SubSeq(e.syllables, 1, Len(node)))
  BY <1>2 DEF IsPrefix
<1>4. node = e.syllables => Len(node) = Len(e.syllables)
  OBVIOUS
<1>5. Len(node) = Len(e.syllables) /\ node = SubSeq(e.syllables, 1, Len(node)) => node = e.syllables
  BY <1>2
<1>6. QED
  BY <1>1, <1>3, <1>4, <1>5 DEF IsStrictPrefix

\* What a visit records is well-typed, has one match per entry and, when the
\* frame is reached by reading, is a match of the reference.
LEMMA RecordedFacts ==
    ASSUME NEW q, QueryOK(q), NEW f \in FrameType
    PROVE  /\ Recorded(q, f) \in SUBSET MatchType
           /\ Distinct(Recorded(q, f))
           /\ Sound(q, f) => \A m \in Recorded(q, f) : m \in MatchesOf(q, m.entry)
<1> DEFINE Here(e) == Match(e, f.pos, f.shorthand, f.incomplete, 0)
           Below(e) == Match(e, f.pos, f.shorthand, FALSE, Len(e.syllables) - Len(f.node))
<1>0. /\ f.node \in Nodes /\ f.pos \in Nat /\ f.shorthand \in Nat /\ f.incomplete \in BOOLEAN
      /\ Len(f.node) \in Nat /\ q.start \in Nat /\ Len(q.raw) \in Nat /\ q.start < Len(q.raw)
  BY DEF FrameType, QueryOK, Nodes
<1>1. ASSUME NEW m \in Recorded(q, f)
      PROVE  \/ \E e \in Entries : m = Here(e) /\ e.syllables = f.node /\ f.pos > q.start
             \/ \E e \in Entries : /\ m = Below(e) /\ IsStrictPrefix(f.node, e.syllables)
                                   /\ f.pos = Len(q.raw) /\ ~f.incomplete /\ q.flavour = "all"
  BY <1>1 DEF Recorded
<1>2. \A e \in Entries : Here(e) \in MatchType /\ Here(e).entry = e /\ Here(e).pos = f.pos
  BY <1>0 DEF Match, MatchType
<1>3. ASSUME NEW e \in Entries, IsStrictPrefix(f.node, e.syllables)
      PROVE  /\ Below(e) \in MatchType /\ Below(e).entry = e /\ Below(e).pos = f.pos
             /\ Len(f.node) < Len(e.syllables)
  <2>1. Len(f.node) < Len(e.syllables) /\ Len(e.syllables) \in Nat
    BY <1>0, <1>3, PrefixLength, EntryFacts
  <2>2. Len(e.syllables) - Len(f.node) \in Nat
    BY <1>0, <2>1
  <2>3. QED
    BY <1>0, <2>1, <2>2 DEF Match, MatchType
<1>4. Recorded(q, f) \in SUBSET MatchType
  BY <1>1, <1>2, <1>3
<1>5. Distinct(Recorded(q, f))
  <2> SUFFICES ASSUME NEW m \in Recorded(q, f), NEW n \in Recorded(q, f), Same(m, n) PROVE m = n
    BY DEF Distinct
  <2>1. m.entry = n.entry
    BY DEF Same
  <2>2. \A e : IsStrictPrefix(f.node, e.syllables) => e.syllables # f.node
    BY DEF IsStrictPrefix
  <2> HIDE DEF Here, Below
  <2>3. QED
    BY <1>1, <1>2, <1>3, <2>1, <2>2
<1>6. ASSUME Sound(q, f), NEW m \in Recorded(q, f)
      PROVE  m \in MatchesOf(q, m.entry)
  <2>1. ASSUME NEW e \in Entries, m = Here(e), e.syllables = f.node
        PROVE  m \in MatchesOf(q, e)
    <3>1. IsPrefix(f.node, e.syllables)
      BY <2>1 DEF IsPrefix
    <3>2. Reading(f.pos, f.shorthand, f.incomplete) \in Readings(q, e)[Len(e.syllables)]
      BY <1>6, <2>1, <3>1 DEF Sound
    <3>3. \E r \in Readings(q, e)[Len(e.syllables)] : m = Match(e, r.pos, r.shorthand, r.incomplete, 0)
      BY <2>1, <3>2 DEF Reading
    <3>4. QED
      BY <3>3 DEF MatchesOf
  <2>2. ASSUME NEW e \in Entries, m = Below(e), IsStrictPrefix(f.node, e.syllables),
               f.pos = Len(q.raw), ~f.incomplete, q.flavour = "all"
        PROVE  m \in MatchesOf(q, e)
    <3> DEFINE r == Reading(f.pos, f.shorthand, f.incomplete)
               k == Len(f.node)
    <3>1. IsPrefix(f.node, e.syllables) /\ k < Len(e.syllables) /\ Len(e.syllables) \in Nat
      BY <1>3, <2>2, EntryFacts DEF IsStrictPrefix
    <3>2. r \in Readings(q, e)[k]
      BY <1>6, <3>1 DEF Sound
    <3>3. r.pos = f.pos /\ r.shorthand = f.shorthand /\ r.incomplete = f.incomplete
      BY DEF Reading
    <3>4. k # 0
      <4> HIDE DEF r
      <4> DEFINE b == Reading(q.start, 0, FALSE)
      <4>1. Readings(q, e)[0] = {b} /\ b.pos = q.start
        BY ReadingsStep DEF Reading
      <4> HIDE DEF b
      <4>2. k = 0 => r.pos = q.start
        BY <3>2, <4>1
      <4>3. QED
        BY <1>0, <2>2, <3>3, <4>2
    <3>5. k \in 1 .. Len(e.syllables) - 1
      BY <1>0, <3>1, <3>4
    <3> HIDE DEF r
    <3>6. m = Match(e, r.pos, r.shorthand, FALSE, Len(e.syllables) - k)
      BY <2>2, <3>3
    <3>7. r \in {t \in Readings(q, e)[k] : t.pos = Len(q.raw) /\ ~t.incomplete}
      BY <2>2, <3>2, <3>3
    <3>8. m \in {Match(e, x.pos, x.shorthand, FALSE, Len(e.syllables) - k) :
                    x \in {t \in Readings(q, e)[k] : t.pos = Len(q.raw) /\ ~t.incomplete}}
      BY <3>6, <3>7
    <3>9. QED
      BY <2>2, <3>5, <3>8, Zenon DEF MatchesOf
  <2> HIDE DEF Here, Below
  <2>3. QED
    BY <1>1, <1>2, <1>3, <2>1, <2>2
<1>7. QED
  BY <1>4, <1>5, <1>6

-----------------------------------------------------------------------------
(* The inductive invariant of the walk. *)

FrameAt(s) == Frame(s[1], s[2], visited[s], s[3])

\* The state of g was visited, or will be, with no more shorthand.
Covered(g) ==
    \/ AlreadyVisited(g)
    \/ \E i \in DOMAIN stack : StateOf(stack[i]) = StateOf(g) /\ stack[i].shorthand <= g.shorthand

\* The calls a visit of f makes are covered, what it records is stood for.
Followed(f) ==
    /\ f.pos < Len(query.raw) =>
          \A s \in Children(f.node) : \A t \in Steps(query, s, f) : Covered(CallOf(f, s, t))
    /\ \A m \in Recorded(query, f) : \E n \in found : StandsFor(n, m)

WalkTypes ==
    /\ QueryOK(query)
    /\ stack \in Seq(FrameType)
    /\ \A s \in DOMAIN visited : FrameAt(s) \in FrameType /\ StateOf(FrameAt(s)) = s
    /\ found \in SUBSET MatchType

WalkSound ==
    /\ \A i \in DOMAIN stack : Sound(query, stack[i])
    /\ \A m \in found : m \in MatchesOf(query, m.entry)
    /\ Distinct(found)

StartFrame == Frame(<<>>, query.start, 0, FALSE)

WalkComplete ==
    /\ Covered(StartFrame)
    /\ \A s \in DOMAIN visited : Followed(FrameAt(s))

WalkInv == WalkTypes /\ WalkSound /\ WalkComplete

\* Compacted keys hold letters only.
LEMMA CompactLetters ==
    ASSUME NEW keys \in Seq(Letters \cup {Apostrophe})
    PROVE  Compact(keys) \in Seq(Letters) /\ Boundaries(keys) \in SUBSET Nat
<1> DEFINE K == {i \in DOMAIN keys : keys[i] # Apostrophe}
           c == KeepAt(keys, K)
<1>1. /\ c \in Seq(Letters \cup {Apostrophe})
      /\ \A n \in DOMAIN c : Nth(K, n) \in K /\ c[n] = keys[Nth(K, n)]
  BY KeepAtElements
<1>2. Compact(keys) = c
  BY DEF Compact
<1>3. \A i \in DOMAIN keys : keys[i] \in Letters \cup {Apostrophe}
  OBVIOUS
<1>4. \A n \in DOMAIN c : c[n] \in Letters
  BY <1>1, <1>3
<1> HIDE DEF c
<1>5. c \in Seq(Letters)
  <2>1. c = [n \in 1 .. Len(c) |-> c[n]] /\ Len(c) \in Nat /\ DOMAIN c = 1 .. Len(c)
    BY <1>1
  <2>2. QED
    BY <1>4, <2>1
<1>6. \A i \in DOMAIN keys : LetterCount(keys, i) \in Nat
  <2> TAKE i \in DOMAIN keys
  <2>1. IsFiniteSet(1 .. i)
    BY FS_Interval
  <2>2. {j \in 1 .. i : keys[j] # Apostrophe} \subseteq 1 .. i
    OBVIOUS
  <2>3. IsFiniteSet({j \in 1 .. i : keys[j] # Apostrophe})
    BY <2>1, <2>2, FS_Subset
  <2>4. QED
    BY <2>3, FS_CardinalityType DEF LetterCount
<1>7. QED
  BY <1>2, <1>5, <1>6 DEF Boundaries

\* The call search starts with reads no syllable yet.
LEMMA StartSound ==
    ASSUME NEW q, QueryOK(q)
    PROVE  /\ Frame(<<>>, q.start, 0, FALSE) \in FrameType
           /\ Sound(q, Frame(<<>>, q.start, 0, FALSE))
<1> DEFINE b == Frame(<<>>, q.start, 0, FALSE)
<1>1. b \in FrameType
  BY DEF QueryOK, Frame, FrameType, Nodes
<1>2. ASSUME NEW e \in Entries
      PROVE  Reading(b.pos, b.shorthand, b.incomplete) \in Readings(q, e)[Len(b.node)]
  <2>1. Readings(q, e)[0] = {Reading(q.start, 0, FALSE)}
    BY ReadingsStep
  <2>2. b.pos = q.start /\ b.shorthand = 0 /\ b.incomplete = FALSE /\ b.node = <<>>
    BY DEF Frame
  <2>3. Len(<<>>) = 0
    OBVIOUS
  <2> HIDE DEF b
  <2>4. QED
    BY <2>1, <2>2, <2>3
<1>3. QED
  BY <1>1, <1>2 DEF Sound

\* The trie walk starts with only its first call.
LEMMA WalkInvInit == Init => WalkInv
<1> SUFFICES ASSUME Init PROVE WalkInv
  OBVIOUS
<1>1. PICK keys \in Keys, start \in 0 .. (MaxKeys - 1), flavour \in Flavours :
         /\ start < Len(Compact(keys))
         /\ query = [keys |-> keys, raw |-> Compact(keys), boundaries |-> Boundaries(keys),
                     start |-> start, flavour |-> flavour]
         /\ stack = <<Frame(<<>>, start, 0, FALSE)>>
  BY DEF Init
<1>2. visited = <<>> /\ found = {}
  BY DEF Init
<1>3. keys \in Seq(Letters \cup {Apostrophe})
  <2>1. keys \in BoundedSeq(Letters \cup {Apostrophe}, MaxKeys)
    BY DEF Keys
  <2>2. PICK n \in 0 .. MaxKeys : keys \in [1 .. n -> Letters \cup {Apostrophe}]
    BY <2>1 DEF BoundedSeq, SeqOf
  <2>3. n \in Nat
    BY MatchAssumption
  <2>4. QED
    BY <2>2, <2>3
<1>4. QueryOK(query) /\ query.start = start
  <2>1. Compact(keys) \in Seq(Letters) /\ Boundaries(keys) \in SUBSET Nat
    BY <1>3, CompactLetters
  <2>2. start \in Nat
    BY MatchAssumption
  <2>3. QED
    BY <1>1, <2>1, <2>2 DEF QueryOK
<1>5. /\ StartFrame \in FrameType /\ Sound(query, StartFrame) /\ stack = <<StartFrame>>
      /\ StartFrame.shorthand \in Nat
  <2>1. StartFrame \in FrameType /\ Sound(query, StartFrame)
    BY <1>4, StartSound DEF StartFrame
  <2>2. stack = <<StartFrame>>
    BY <1>1, <1>4 DEF StartFrame
  <2>3. QED
    BY <2>1, <2>2 DEF FrameType
<1>6. DOMAIN visited = {}
  BY <1>2
<1>7. DOMAIN stack = {1} /\ stack[1] = StartFrame /\ stack \in Seq(FrameType)
  BY <1>5
<1>8. Covered(StartFrame)
  BY <1>5, <1>7 DEF Covered
<1>9. QED
  BY <1>2, <1>4, <1>5, <1>6, <1>7, <1>8 DEF WalkInv, WalkTypes, WalkSound, WalkComplete, Distinct

\* A node is its parent and its last syllable.
LEMMA AppendedEqual ==
    ASSUME NEW S, NEW a \in Seq(S), NEW b \in Seq(S), NEW x \in S, NEW y \in S,
           Append(a, x) = Append(b, y)
    PROVE  a = b /\ x = y
BY AppendInjective

\* A sound frame calls visit() with sound frames.
LEMMA CallSound ==
    ASSUME NEW q, QueryOK(q), NEW f \in FrameType, Sound(q, f), f.pos < Len(q.raw),
           NEW s \in Children(f.node), NEW t \in Steps(q, s, f)
    PROVE  Sound(q, CallOf(f, s, t))
<1> DEFINE g == CallOf(f, s, t)
<1>0. /\ f.node \in Nodes /\ f.pos \in Nat /\ f.shorthand \in Nat /\ f.incomplete \in BOOLEAN
      /\ Len(f.node) \in Nat
  BY DEF FrameType, Nodes
<1>1. s \in Texts /\ Len(s) \in Nat \ {0}
  BY <1>0, ChildrenFacts
<1>2. t \in ReadingType
  BY <1>0, <1>1, StepTypes
<1>3. /\ g.node = Append(f.node, s) /\ g.pos = t.pos /\ g.shorthand = t.shorthand
      /\ g.incomplete = t.incomplete
  BY DEF CallOf, Frame
<1>4. Reading(g.pos, g.shorthand, g.incomplete) = t
  BY <1>2, <1>3 DEF Reading, ReadingType
<1>5. g.node \in Nodes /\ Len(g.node) = Len(f.node) + 1 /\ g.node[Len(f.node) + 1] = s
  BY <1>0, <1>1, <1>3, AppendProperties DEF Nodes
<1> HIDE DEF g
<1>6. ASSUME NEW e \in Entries, IsPrefix(g.node, e.syllables)
      PROVE  t \in Readings(q, e)[Len(g.node)]
  <2> DEFINE k == Len(f.node) + 1
  <2>1. k <= Len(e.syllables) /\ g.node = SubSeq(e.syllables, 1, k) /\ Len(e.syllables) \in Nat
        /\ e.syllables \in Nodes
    BY <1>5, <1>6, PrefixLength, EntryFacts
  <2>2. k \in 1 .. Len(e.syllables) /\ 1 \in 1 .. Len(e.syllables) /\ k - 1 = Len(f.node)
    BY <1>0, <2>1
  <2>3. SubSeq(e.syllables, 1, k) = SubSeq(e.syllables, 1, k - 1) \o <<e.syllables[k]>>
    BY <2>1, <2>2, SubSeqRecursiveSecond DEF Nodes
  <2>4. SubSeq(e.syllables, 1, k - 1) \in Nodes /\ e.syllables[k] \in Texts
    <3>1. \A i \in 1 .. k - 1 : e.syllables[i] \in Texts
      BY <2>1, <2>2, EntryFacts
    <3>2. QED
      BY <1>0, <2>1, <2>2, <3>1, EntryFacts, SubSeqProperties DEF Nodes
  <2>5. Append(f.node, s) = Append(SubSeq(e.syllables, 1, k - 1), e.syllables[k])
    <3>1. SubSeq(e.syllables, 1, k - 1) \o <<e.syllables[k]>>
             = Append(SubSeq(e.syllables, 1, k - 1), e.syllables[k])
      BY <2>4, AppendIsConcat DEF Nodes
    <3>2. QED
      BY <1>3, <2>1, <2>3, <3>1
  <2>6. f.node = SubSeq(e.syllables, 1, k - 1) /\ s = e.syllables[k]
    <3> DEFINE u == SubSeq(e.syllables, 1, k - 1)
               x == e.syllables[k]
    <3>1. u \in Nodes /\ x \in Texts /\ Append(f.node, s) = Append(u, x)
      BY <2>4, <2>5
    <3> HIDE DEF u, x
    <3>2. f.node \in Seq(Texts) /\ u \in Seq(Texts)
      BY <1>0, <3>1 DEF Nodes
    <3>3. f.node = u /\ s = x
      BY <1>1, <3>1, <3>2, AppendedEqual
    <3>4. QED
      BY <3>3 DEF u, x
  <2>7. IsPrefix(f.node, e.syllables)
    BY <1>0, <2>1, <2>2, <2>6, PrefixLength
  <2> DEFINE r == Reading(f.pos, f.shorthand, f.incomplete)
  <2>8. r \in Readings(q, e)[k - 1]
    BY <2>2, <2>7 DEF Sound
  <2>9. r.pos = f.pos /\ r.shorthand = f.shorthand /\ r.incomplete = f.incomplete
    BY DEF Reading
  <2> HIDE DEF r
  <2>10. t \in Steps(q, e.syllables[k], r)
    <3>1. Steps(q, s, r) = Steps(q, s, f)
      BY <2>9 DEF Steps
    <3>2. QED
      BY <2>6, <3>1
  <2>11. t \in Readings(q, e)[k]
    BY <2>2, <2>8, <2>9, <2>10, ReadingsStep
  <2>12. QED
    BY <1>5, <2>11
<1>7. QED
  BY <1>4, <1>6 DEF Sound, g

\* A frame is its state and its shorthand.
LEMMA FrameOfState ==
    ASSUME NEW f \in FrameType, NEW g \in FrameType, StateOf(f) = StateOf(g),
           f.shorthand = g.shorthand
    PROVE  f = g
<1>1. f.node = g.node /\ f.pos = g.pos /\ f.incomplete = g.incomplete
  BY DEF StateOf
<1>2. QED
  BY <1>1 DEF FrameType

\* A call whose state was visited with no more shorthand returns at once:
\* nothing it could find is lost.
LEMMA VisitAgain ==
    ASSUME WalkInv, Visit, AlreadyVisited(Head(stack))
    PROVE  WalkInv'
<1>1. stack \in Seq(FrameType) /\ stack # <<>>
  BY DEF WalkInv, WalkTypes, Visit
<1>2. stack' = Tail(stack) /\ UNCHANGED <<query, visited, found>>
  BY DEF Visit
<1>3. /\ stack' \in Seq(FrameType) /\ Len(stack) \in Nat /\ Len(stack') = Len(stack) - 1
      /\ \A i \in DOMAIN stack' : i + 1 \in DOMAIN stack /\ stack'[i] = stack[i + 1]
      /\ \A i \in DOMAIN stack : i # 1 => i - 1 \in DOMAIN stack' /\ stack'[i - 1] = stack[i]
      /\ stack[1] = Head(stack)
  BY <1>1, <1>2
<1>4. ASSUME NEW g \in FrameType, Covered(g) PROVE Covered(g)'
  <2>0. g.shorthand \in Nat /\ \A i \in DOMAIN stack : stack[i].shorthand \in Nat
    <3>1. \A i \in DOMAIN stack : stack[i] \in FrameType
      BY <1>1
    <3>2. QED
      BY <3>1 DEF FrameType
  <2>1. CASE AlreadyVisited(g)
    BY <1>2, <2>1 DEF Covered, AlreadyVisited
  <2>2. CASE \E i \in DOMAIN stack : StateOf(stack[i]) = StateOf(g) /\ stack[i].shorthand <= g.shorthand
    <3>1. PICK i \in DOMAIN stack : StateOf(stack[i]) = StateOf(g) /\ stack[i].shorthand <= g.shorthand
      BY <2>2
    <3>2. CASE i # 1
      <4>1. i - 1 \in DOMAIN stack' /\ stack'[i - 1] = stack[i]
        BY <1>3, <3>2
      <4>2. StateOf(stack'[i - 1]) = StateOf(g) /\ stack'[i - 1].shorthand <= g.shorthand
        BY <3>1, <4>1
      <4>3. QED
        BY <4>1, <4>2 DEF Covered, StateOf
    <3>3. CASE i = 1
      <4>1. StateOf(g) \in DOMAIN visited /\ visited[StateOf(g)] <= stack[i].shorthand
        BY <1>3, <3>1, <3>3 DEF AlreadyVisited
      <4>2. visited[StateOf(g)] \in Nat
        <5>1. FrameAt(StateOf(g)) \in FrameType
          BY <4>1 DEF WalkInv, WalkTypes
        <5>2. QED
          BY <5>1 DEF FrameAt, Frame, FrameType
      <4>3. visited[StateOf(g)] <= g.shorthand
        BY <2>0, <3>1, <4>1, <4>2
      <4>4. QED
        BY <1>2, <4>1, <4>3 DEF Covered, AlreadyVisited
    <3>4. QED
      BY <3>2, <3>3
  <2>3. QED
    BY <1>4, <2>1, <2>2 DEF Covered
<1>5. WalkTypes'
  BY <1>2, <1>3 DEF WalkInv, WalkTypes, FrameAt
<1>6. WalkSound'
  BY <1>2, <1>3 DEF WalkInv, WalkSound
<1>7. Covered(StartFrame)'
  <2>1. StartFrame \in FrameType /\ Covered(StartFrame)
    BY StartSound DEF WalkInv, WalkTypes, WalkComplete, StartFrame
  <2>2. StartFrame' = StartFrame
    BY <1>2 DEF StartFrame
  <2>3. QED
    BY <1>4, <2>1, <2>2
<1>8. ASSUME NEW s \in DOMAIN visited' PROVE Followed(FrameAt(s))'
  <2>1. PICK f \in FrameType : f = FrameAt(s) /\ Followed(f)
    BY <1>2 DEF WalkInv, WalkTypes, WalkComplete
  <2>2. ASSUME f.pos < Len(query.raw), NEW x \in Children(f.node), NEW t \in Steps(query, x, f)
        PROVE  Covered(CallOf(f, x, t))'
    <3>1. PICK g \in FrameType : g = CallOf(f, x, t)
      BY <2>2, CallTypes DEF WalkInv, WalkTypes
    <3>2. Covered(g)
      BY <2>1, <2>2, <3>1 DEF Followed
    <3>3. QED
      BY <1>4, <3>1, <3>2
  <2>3. Followed(f)'
    BY <1>2, <2>1, <2>2 DEF Followed
  <2>4. FrameAt(s)' = f
    BY <1>2, <2>1 DEF FrameAt
  <2>5. QED
    BY <2>3, <2>4
<1>9. QED
  BY <1>5, <1>6, <1>7, <1>8 DEF WalkInv, WalkComplete

\* Any other call records its matches and calls its children; a state that
\* is visited again with less shorthand replaces the first visit.
LEMMA VisitFirst ==
    ASSUME WalkInv, Visit, ~AlreadyVisited(Head(stack))
    PROVE  WalkInv'
<1>1. PICK f : f = Head(stack)
  OBVIOUS
<1>2. PICK c : c = Calls(query, f)
  OBVIOUS
<1>3. /\ query' = query
      /\ visited' = [s \in DOMAIN visited \cup {StateOf(f)} |->
                        IF s = StateOf(f) THEN f.shorthand ELSE visited[s]]
      /\ found' = Record(found, Recorded(query, f))
      /\ stack' = c \o Tail(stack)
      /\ stack # <<>>
  BY <1>1, <1>2 DEF Visit
<1>4. /\ stack \in Seq(FrameType) /\ QueryOK(query) /\ found \in SUBSET MatchType
      /\ \A s \in DOMAIN visited : FrameAt(s) \in FrameType /\ StateOf(FrameAt(s)) = s
      /\ Distinct(found)
  BY DEF WalkInv, WalkTypes, WalkSound
<1>5. /\ f \in FrameType /\ 1 \in DOMAIN stack /\ stack[1] = f /\ f.shorthand \in Nat
      /\ Sound(query, f)
  <2>1. 1 \in DOMAIN stack /\ stack[1] = f /\ f \in FrameType
    BY <1>1, <1>3, <1>4
  <2>2. QED
    BY <2>1 DEF WalkInv, WalkSound, FrameType
<1>6. /\ c \in Seq(FrameType)
      /\ f.pos < Len(query.raw) =>
            \A s \in Children(f.node) : \A t \in Steps(query, s, f) :
               \E i \in DOMAIN c : c[i] = CallOf(f, s, t)
      /\ \A i \in DOMAIN c : Sound(query, c[i])
  <2>1. CASE f.pos < Len(query.raw)
    <3>1. /\ c \in Seq(FrameType)
          /\ \A s \in Children(f.node) : \A t \in Steps(query, s, f) :
                \E i \in DOMAIN c : c[i] = CallOf(f, s, t)
          /\ \A i \in DOMAIN c :
                \E s \in Children(f.node) : \E t \in Steps(query, s, f) : c[i] = CallOf(f, s, t)
      BY <1>2, <1>4, <1>5, <2>1, CallsAreSteps
    <3>2. \A s \in Children(f.node) : \A t \in Steps(query, s, f) : Sound(query, CallOf(f, s, t))
      BY <1>4, <1>5, <2>1, CallSound
    <3>3. QED
      BY <3>1, <3>2
  <2>2. CASE ~(f.pos < Len(query.raw))
    <3>1. f.pos >= Len(query.raw)
      BY <1>4, <1>5, <2>2 DEF QueryOK, FrameType
    <3>2. c = <<>>
      BY <1>2, <3>1 DEF Calls
    <3>3. QED
      BY <2>2, <3>2
  <2>3. QED
    BY <2>1, <2>2
<1>7. /\ stack' \in Seq(FrameType)
      /\ \A i \in DOMAIN c : i \in DOMAIN stack' /\ stack'[i] = c[i]
      /\ \A i \in DOMAIN stack : i # 1 => \E j \in DOMAIN stack' : stack'[j] = stack[i]
      /\ \A j \in DOMAIN stack' : \/ \E i \in DOMAIN c : stack'[j] = c[i]
                                  \/ \E i \in DOMAIN stack : stack'[j] = stack[i]
  <2> DEFINE d == Tail(stack)
  <2>1. /\ d \in Seq(FrameType) /\ Len(stack) \in Nat /\ Len(d) = Len(stack) - 1
        /\ \A i \in DOMAIN d : i + 1 \in DOMAIN stack /\ d[i] = stack[i + 1]
        /\ \A i \in DOMAIN stack : i # 1 => i - 1 \in DOMAIN d /\ d[i - 1] = stack[i]
    BY <1>3, <1>4
  <2>2. stack' = c \o d
    BY <1>3
  <2> HIDE DEF d
  <2>3. /\ stack' \in Seq(FrameType) /\ Len(stack') = Len(c) + Len(d)
        /\ Len(c) \in Nat /\ Len(d) \in Nat
        /\ DOMAIN c = 1 .. Len(c) /\ DOMAIN d = 1 .. Len(d) /\ DOMAIN stack' = 1 .. Len(c) + Len(d)
        /\ \A i \in 1 .. Len(c) + Len(d) : stack'[i] = IF i <= Len(c) THEN c[i] ELSE d[i - Len(c)]
    <3>1. c \in Seq(FrameType) /\ d \in Seq(FrameType)
      BY <1>6, <2>1
    <3>2. PICK w : w = c \o d
      OBVIOUS
    <3>3. /\ w \in Seq(FrameType) /\ Len(w) = Len(c) + Len(d)
          /\ \A i \in 1 .. Len(c) + Len(d) : w[i] = IF i <= Len(c) THEN c[i] ELSE d[i - Len(c)]
      BY <3>1, <3>2, ConcatProperties
    <3>4. stack' = w
      BY <2>2, <3>2
    <3>5. Len(c) \in Nat /\ Len(d) \in Nat /\ DOMAIN c = 1 .. Len(c) /\ DOMAIN d = 1 .. Len(d)
          /\ DOMAIN w = 1 .. Len(w)
      BY <3>1, <3>3
    <3>6. QED
      BY <3>3, <3>4, <3>5
  <2>4. \A i \in DOMAIN d : i + Len(c) \in DOMAIN stack' /\ stack'[i + Len(c)] = d[i]
    BY <2>3
  <2>5. \A i \in DOMAIN c : i \in DOMAIN stack' /\ stack'[i] = c[i]
    BY <2>3
  <2>6. \A j \in DOMAIN stack' : \/ j \in DOMAIN c /\ stack'[j] = c[j]
                                 \/ j - Len(c) \in DOMAIN d /\ stack'[j] = d[j - Len(c)]
    BY <2>3
  <2>7. QED
    BY <2>1, <2>3, <2>4, <2>5, <2>6
<1>8. /\ StateOf(f) \in DOMAIN visited' /\ visited'[StateOf(f)] = f.shorthand
      /\ \A s \in DOMAIN visited : s \in DOMAIN visited' /\ (s # StateOf(f) => visited'[s] = visited[s])
      /\ \A s \in DOMAIN visited' : s = StateOf(f) \/ s \in DOMAIN visited
  BY <1>3
<1>9. \A s \in DOMAIN visited : visited[s] \in Nat
  BY <1>4 DEF FrameAt, Frame, FrameType
<1>10. ASSUME NEW g \in FrameType, Covered(g) PROVE Covered(g)'
  <2>0. g.shorthand \in Nat /\ \A i \in DOMAIN stack : stack[i].shorthand \in Nat
    <3>1. \A i \in DOMAIN stack : stack[i] \in FrameType
      BY <1>4
    <3>2. QED
      BY <3>1 DEF FrameType
  <2>1. CASE AlreadyVisited(g)
    <3>1. StateOf(g) \in DOMAIN visited /\ visited[StateOf(g)] <= g.shorthand
      BY <2>1 DEF AlreadyVisited
    <3>2. StateOf(f) \in DOMAIN visited => f.shorthand < visited[StateOf(f)]
      BY <1>1, <1>5, <1>9 DEF AlreadyVisited
    <3>3. StateOf(g) \in DOMAIN visited' /\ visited'[StateOf(g)] <= g.shorthand
      BY <1>5, <1>8, <1>9, <2>0, <3>1, <3>2
    <3>4. QED
      BY <3>3 DEF Covered, AlreadyVisited
  <2>2. CASE \E i \in DOMAIN stack : StateOf(stack[i]) = StateOf(g) /\ stack[i].shorthand <= g.shorthand
    <3>1. PICK i \in DOMAIN stack : StateOf(stack[i]) = StateOf(g) /\ stack[i].shorthand <= g.shorthand
      BY <2>2
    <3>2. CASE i # 1
      <4>1. PICK j \in DOMAIN stack' : stack'[j] = stack[i]
        BY <1>7, <3>2
      <4>2. StateOf(stack'[j]) = StateOf(g) /\ stack'[j].shorthand <= g.shorthand
        BY <3>1, <4>1
      <4>3. QED
        BY <4>1, <4>2 DEF Covered, StateOf
    <3>3. CASE i = 1
      BY <1>5, <1>8, <3>1, <3>3 DEF Covered, AlreadyVisited
    <3>4. QED
      BY <3>2, <3>3
  <2>3. QED
    BY <1>10, <2>1, <2>2 DEF Covered
<1>11. /\ Recorded(query, f) \in SUBSET MatchType /\ Distinct(Recorded(query, f))
       /\ \A m \in Recorded(query, f) : m \in MatchesOf(query, m.entry)
  BY <1>4, <1>5, RecordedFacts
<1>12. /\ found' \subseteq found \cup Recorded(query, f)
       /\ Distinct(found')
       /\ \A m \in found \cup Recorded(query, f) : \E n \in found' : StandsFor(n, m)
       /\ found' \in SUBSET MatchType
  BY <1>3, <1>4, <1>11, RecordKeepsBest
<1>13. ASSUME NEW s \in DOMAIN visited'
       PROVE  \/ s = StateOf(f) /\ FrameAt(s)' = f
              \/ s \in DOMAIN visited /\ FrameAt(s)' = FrameAt(s)
  <2>1. CASE s = StateOf(f)
    <3>1. FrameAt(s)' = Frame(f.node, f.pos, f.shorthand, f.incomplete)
      BY <1>8, <2>1 DEF FrameAt, StateOf
    <3>2. f = Frame(f.node, f.pos, f.shorthand, f.incomplete)
      BY <1>5 DEF Frame, FrameType
    <3>3. QED
      BY <2>1, <3>1, <3>2
  <2>2. CASE s # StateOf(f)
    BY <1>8, <2>2 DEF FrameAt
  <2>3. QED
    BY <2>1, <2>2
<1>14. WalkTypes'
  <2>1. QueryOK(query')
    BY <1>3, <1>4
  <2>2. ASSUME NEW s \in DOMAIN visited' PROVE (FrameAt(s) \in FrameType /\ StateOf(FrameAt(s)) = s)'
    <3>1. PICK g : g = FrameAt(s)'
      OBVIOUS
    <3>2. g \in FrameType /\ StateOf(g) = s
      BY <1>4, <1>5, <1>13, <3>1
    <3>3. QED
      BY <3>1, <3>2 DEF FrameAt, StateOf
  <2>3. QED
    BY <1>7, <1>12, <2>1, <2>2 DEF WalkTypes
<1>15. WalkSound'
  <2>1. \A j \in DOMAIN stack' : Sound(query, stack'[j])
    BY <1>6, <1>7 DEF WalkInv, WalkSound
  <2>2. \A m \in found' : m \in MatchesOf(query, m.entry)
    BY <1>11, <1>12 DEF WalkInv, WalkSound
  <2>3. QED
    BY <1>3, <1>12, <2>1, <2>2 DEF WalkSound
<1>16. Covered(StartFrame)'
  <2>1. StartFrame \in FrameType /\ Covered(StartFrame)
    BY StartSound DEF WalkInv, WalkTypes, WalkComplete, StartFrame
  <2>2. StartFrame' = StartFrame
    BY <1>3 DEF StartFrame
  <2>3. QED
    BY <1>10, <2>1, <2>2
<1>17. Followed(f)'
  <2>1. ASSUME f.pos < Len(query.raw), NEW x \in Children(f.node), NEW t \in Steps(query, x, f)
        PROVE  Covered(CallOf(f, x, t))'
    <3>1. PICK g \in FrameType : g = CallOf(f, x, t)
      BY <1>4, <1>5, <2>1, CallTypes
    <3>2. PICK i \in DOMAIN c : c[i] = g
      BY <1>6, <2>1, <3>1
    <3>3. i \in DOMAIN stack' /\ stack'[i] = g /\ g.shorthand \in Nat
      BY <1>7, <3>2 DEF FrameType
    <3>4. Covered(g)'
      BY <3>3 DEF Covered
    <3>5. QED
      BY <3>1, <3>4
  <2>2. QED
    BY <1>3, <1>12, <2>1 DEF Followed
<1>18. ASSUME NEW g \in FrameType, Followed(g) PROVE Followed(g)'
  <2>1. ASSUME g.pos < Len(query.raw), NEW x \in Children(g.node), NEW t \in Steps(query, x, g)
        PROVE  Covered(CallOf(g, x, t))'
    <3>1. PICK h \in FrameType : h = CallOf(g, x, t)
      BY <1>4, <2>1, CallTypes
    <3>2. Covered(h)
      BY <1>18, <2>1, <3>1 DEF Followed
    <3>3. QED
      BY <1>10, <3>1, <3>2
  <2>2. ASSUME NEW m \in Recorded(query, g) PROVE \E n \in found' : StandsFor(n, m)
    <3>1. PICK n \in found : StandsFor(n, m)
      BY <1>18, <2>2 DEF Followed
    <3>2. PICK k \in found' : StandsFor(k, n)
      BY <1>12, <3>1
    <3>3. m \in MatchType /\ n \in MatchType /\ k \in MatchType
      BY <1>4, <1>12, <2>2, RecordedFacts
    <3>4. StandsFor(k, m)
      BY <3>1, <3>2, <3>3, BetterOrder
    <3>5. QED
      BY <3>2, <3>4
  <2>3. QED
    BY <1>3, <2>1, <2>2 DEF Followed
<1>19. ASSUME NEW s \in DOMAIN visited' PROVE Followed(FrameAt(s))'
  <2>1. CASE FrameAt(s)' = f
    BY <1>17, <2>1
  <2>2. CASE s \in DOMAIN visited /\ FrameAt(s)' = FrameAt(s)
    <3>1. PICK g \in FrameType : g = FrameAt(s) /\ Followed(g)
      BY <1>4, <2>2 DEF WalkInv, WalkComplete
    <3>2. Followed(g)'
      BY <1>18, <3>1
    <3>3. QED
      BY <2>2, <3>1, <3>2
  <2>3. QED
    BY <1>13, <2>1, <2>2
<1>20. QED
  BY <1>14, <1>15, <1>16, <1>19 DEF WalkInv, WalkComplete

\* The two cases together, and stuttering.
LEMMA WalkInvStep == WalkInv /\ [Next]_vars => WalkInv'
<1> SUFFICES ASSUME WalkInv, [Next]_vars PROVE WalkInv'
  OBVIOUS
<1>1. CASE Visit
  BY <1>1, VisitAgain, VisitFirst
<1>2. CASE UNCHANGED vars
  <2>1. UNCHANGED <<query, stack, visited, found>>
    BY <1>2 DEF vars
  <2>2. \A s : FrameAt(s)' = FrameAt(s)
    BY <2>1 DEF FrameAt
  <2>3. \A g : Covered(g)' <=> Covered(g)
    BY <2>1 DEF Covered, AlreadyVisited
  <2>4. \A g : Followed(g)' <=> Followed(g)
    BY <2>1, <2>3 DEF Followed
  <2>5. StartFrame' = StartFrame
    BY <2>1 DEF StartFrame
  <2>6. WalkTypes'
    BY <2>1, <2>2 DEF WalkInv, WalkTypes
  <2>7. WalkSound'
    BY <2>1 DEF WalkInv, WalkSound
  <2>8. WalkComplete'
    BY <2>1, <2>2, <2>3, <2>4, <2>5 DEF WalkInv, WalkComplete
  <2>9. QED
    BY <2>6, <2>7, <2>8 DEF WalkInv
<1>3. QED
  BY <1>1, <1>2 DEF Next, Done

\* When no call is left, every reading of every entry was visited.
LEMMA AllReadingsVisited ==
    ASSUME WalkInv, stack = <<>>, NEW e \in Entries
    PROVE  \A k \in 0 .. Len(e.syllables) : \A r \in Readings(query, e)[k] :
              \E s \in DOMAIN visited :
                 /\ FrameAt(s).node = SubSeq(e.syllables, 1, k) /\ FrameAt(s).pos = r.pos
                 /\ FrameAt(s).incomplete = r.incomplete /\ FrameAt(s).shorthand <= r.shorthand
<1> DEFINE Seen(k, r) ==
              \E s \in DOMAIN visited :
                 /\ FrameAt(s).node = SubSeq(e.syllables, 1, k) /\ FrameAt(s).pos = r.pos
                 /\ FrameAt(s).incomplete = r.incomplete /\ FrameAt(s).shorthand <= r.shorthand
           Bad == {k \in 0 .. Len(e.syllables) : ~\A r \in Readings(query, e)[k] : Seen(k, r)}
<1>0. /\ Len(e.syllables) \in Nat /\ e.syllables \in Nodes /\ QueryOK(query)
      /\ \A s \in DOMAIN visited : FrameAt(s) \in FrameType /\ StateOf(FrameAt(s)) = s
  BY EntryFacts DEF WalkInv, WalkTypes
<1>1. ASSUME NEW g \in FrameType, Covered(g)
      PROVE  \E s \in DOMAIN visited :
                /\ FrameAt(s).node = g.node /\ FrameAt(s).pos = g.pos
                /\ FrameAt(s).incomplete = g.incomplete /\ FrameAt(s).shorthand <= g.shorthand
  <2>1. AlreadyVisited(g)
    BY <1>1 DEF Covered
  <2>2. StateOf(g) \in DOMAIN visited /\ visited[StateOf(g)] <= g.shorthand
    BY <2>1 DEF AlreadyVisited
  <2>3. QED
    BY <2>2 DEF FrameAt, StateOf, Frame
<1>2. SUFFICES ASSUME Bad # {} PROVE FALSE
  <2>1. Bad = {}
    BY <1>2
  <2> HIDE DEF Seen
  <2>2. \A k \in 0 .. Len(e.syllables) : \A r \in Readings(query, e)[k] : Seen(k, r)
    BY <2>1
  <2>3. QED
    BY <2>2 DEF Seen
<1> HIDE DEF Seen
<1>3. PICK k \in Bad : \A n \in Bad : k <= n
  <2>1. Bad \in SUBSET Nat
    BY <1>0
  <2> HIDE DEF Bad
  <2>2. QED
    BY <1>2, <2>1, LeastNatural
<1>4. PICK r \in Readings(query, e)[k] : ~Seen(k, r)
  BY <1>3
<1>5. k # 0
  <2> SUFFICES ASSUME k = 0 PROVE FALSE
    OBVIOUS
  <2> DEFINE b == Reading(query.start, 0, FALSE)
  <2>1. Readings(query, e)[0] = {b}
    BY ReadingsStep
  <2>2. b.pos = query.start /\ b.shorthand = 0 /\ b.incomplete = FALSE
    BY DEF Reading
  <2> HIDE DEF b
  <2>3. r = b
    BY <1>4, <2>1
  <2>4. /\ StartFrame \in FrameType /\ Covered(StartFrame)
        /\ StartFrame.node = <<>> /\ StartFrame.pos = query.start
        /\ StartFrame.incomplete = FALSE /\ StartFrame.shorthand = 0
    BY <1>0, StartSound DEF WalkInv, WalkComplete, StartFrame, Frame
  <2>5. SubSeq(e.syllables, 1, 0) = <<>>
    BY SubSeqEmpty
  <2>6. Seen(0, b)
    <3>1. PICK s \in DOMAIN visited :
             /\ FrameAt(s).node = StartFrame.node /\ FrameAt(s).pos = StartFrame.pos
             /\ FrameAt(s).incomplete = StartFrame.incomplete
             /\ FrameAt(s).shorthand <= StartFrame.shorthand
      BY <1>1, <2>4
    <3>2. StartFrame.incomplete = b.incomplete
      BY <2>2, <2>4
    <3>3. QED
      BY <2>2, <2>4, <2>5, <3>1, <3>2 DEF Seen
  <2>7. QED
    BY <1>4, <2>3, <2>6
<1>6. k - 1 \in 0 .. Len(e.syllables) /\ k - 1 \notin Bad /\ k \in 1 .. Len(e.syllables)
  BY <1>0, <1>3, <1>5
<1>7. PICK p \in Readings(query, e)[k - 1] :
         p.pos < Len(query.raw) /\ r \in Steps(query, e.syllables[k], p)
  BY <1>4, <1>6, ReadingsStep
<1>8. PICK s \in DOMAIN visited :
         /\ FrameAt(s).node = SubSeq(e.syllables, 1, k - 1) /\ FrameAt(s).pos = p.pos
         /\ FrameAt(s).incomplete = p.incomplete /\ FrameAt(s).shorthand <= p.shorthand
  BY <1>6, <1>7 DEF Seen
<1>9. PICK f \in FrameType : f = FrameAt(s) /\ Followed(f)
  BY <1>0 DEF WalkInv, WalkComplete
<1>10. p \in ReadingType /\ p.shorthand \in Nat /\ f.shorthand \in Nat /\ f.node \in Nodes
  <2>1. p \in ReadingType
    BY <1>0, <1>6, <1>7, ReadingsTypes
  <2>2. QED
    BY <2>1 DEF ReadingType, FrameType
<1>11. PICK u \in Steps(query, e.syllables[k], f) :
          u.pos = r.pos /\ u.incomplete = r.incomplete /\ u.shorthand <= r.shorthand
  BY <1>7, <1>8, <1>9, <1>10, StepMonotone
<1>12. /\ IsStrictPrefix(f.node, e.syllables) /\ Len(f.node) + 1 = k
       /\ Append(f.node, e.syllables[k]) = SubSeq(e.syllables, 1, k)
       /\ e.syllables[k] \in Children(f.node)
  <2>1. f.node = SubSeq(e.syllables, 1, k - 1)
    BY <1>8, <1>9
  <2>2. Len(f.node) = k - 1
    <3>1. \A i \in 1 .. k - 1 : e.syllables[i] \in Texts
      BY <1>0, <1>6, EntryFacts
    <3>2. 1 \in Int /\ k - 1 \in Int /\ k - 1 \in Nat
      BY <1>6
    <3>3. QED
      BY <2>1, <3>1, <3>2, SubSeqProperties
  <2>3. IsStrictPrefix(f.node, e.syllables)
    <3>1. Len(f.node) < Len(e.syllables) /\ f.node = SubSeq(e.syllables, 1, Len(f.node))
      BY <1>0, <1>6, <2>1, <2>2
    <3>2. QED
      BY <1>10, <3>1, PrefixLength
  <2>4. Len(f.node) + 1 = k
    BY <1>6, <2>2
  <2>5. QED
    BY <1>10, <2>3, <2>4, PrefixStep
<1>13. f.pos < Len(query.raw)
  BY <1>7, <1>8, <1>9
<1>14. PICK g \in FrameType : g = CallOf(f, e.syllables[k], u)
  BY <1>0, <1>11, <1>12, <1>13, CallTypes
<1>15. Covered(g)
  BY <1>9, <1>11, <1>12, <1>13, <1>14 DEF Followed
<1>16. /\ g.node = SubSeq(e.syllables, 1, k) /\ g.pos = r.pos /\ g.incomplete = r.incomplete
       /\ g.shorthand <= r.shorthand /\ g.shorthand \in Nat /\ r.shorthand \in Nat
  <2>1. g.node = SubSeq(e.syllables, 1, k) /\ g.pos = u.pos /\ g.incomplete = u.incomplete
        /\ g.shorthand = u.shorthand /\ g.shorthand \in Nat
    BY <1>12, <1>14 DEF CallOf, Frame, FrameType
  <2>2. r \in ReadingType
    BY <1>0, <1>3, <1>4, ReadingsTypes
  <2>3. QED
    BY <1>11, <2>1, <2>2 DEF ReadingType
<1>17. Seen(k, r)
  <2>1. PICK x \in DOMAIN visited :
           /\ FrameAt(x).node = g.node /\ FrameAt(x).pos = g.pos
           /\ FrameAt(x).incomplete = g.incomplete /\ FrameAt(x).shorthand <= g.shorthand
    BY <1>1, <1>15
  <2>2. FrameAt(x).shorthand \in Nat
    BY <1>0 DEF FrameType
  <2>3. QED
    BY <1>16, <2>1, <2>2 DEF Seen
<1>18. QED
  BY <1>4, <1>17

\* Then every match of every entry is stood for.
LEMMA AllMatchesFound ==
    ASSUME WalkInv, stack = <<>>, NEW e \in Entries, NEW m \in MatchesOf(query, e)
    PROVE  m \in MatchType /\ m.entry = e /\ \E n \in found : StandsFor(n, m)
<1> DEFINE len == Len(e.syllables)
           R == Readings(query, e)
<1>0. /\ len \in Nat /\ len # 0 /\ e.syllables \in Nodes /\ QueryOK(query)
      /\ found \in SUBSET MatchType
      /\ \A s \in DOMAIN visited : FrameAt(s) \in FrameType /\ Followed(FrameAt(s))
  BY EntryFacts DEF WalkInv, WalkTypes, WalkComplete
<1>1. \/ \E r \in R[len] : m = Match(e, r.pos, r.shorthand, r.incomplete, 0)
      \/ /\ query.flavour = "all"
         /\ \E k \in 1 .. len - 1 : \E r \in R[k] :
               /\ r.pos = Len(query.raw) /\ ~r.incomplete
               /\ m = Match(e, r.pos, r.shorthand, FALSE, len - k)
  BY DEF MatchesOf
<1>2. ASSUME NEW k \in 1 .. len, NEW r \in R[k],
             NEW i \in BOOLEAN, NEW c \in Nat,
             m = Match(e, r.pos, r.shorthand, i, c),
             \A f \in FrameType :
                f.node = SubSeq(e.syllables, 1, k) /\ f.pos = r.pos /\ f.incomplete = r.incomplete
                => Match(e, f.pos, f.shorthand, i, c) \in Recorded(query, f)
      PROVE  m \in MatchType /\ m.entry = e /\ \E n \in found : StandsFor(n, m)
  <2>1. r \in ReadingType /\ r.pos \in Nat /\ r.shorthand \in Nat
    <3>1. k \in 0 .. len
      BY <1>0
    <3>2. r \in ReadingType
      BY <1>0, <3>1, ReadingsTypes
    <3>3. QED
      BY <3>2 DEF ReadingType
  <2>2. m \in MatchType /\ m.entry = e
    BY <1>2, <2>1 DEF Match, MatchType
  <2>3. PICK f \in FrameType : /\ f.node = SubSeq(e.syllables, 1, k) /\ f.pos = r.pos
                               /\ f.incomplete = r.incomplete /\ f.shorthand <= r.shorthand
                               /\ Followed(f)
    <3>1. k \in 0 .. len
      BY <1>0
    <3>2. QED
      BY <1>0, <3>1, AllReadingsVisited
  <2>4. PICK x : x = Match(e, f.pos, f.shorthand, i, c)
    OBVIOUS
  <2>5. x \in Recorded(query, f)
    BY <1>2, <2>3, <2>4
  <2>6. x \in MatchType
    BY <1>0, <2>5, RecordedFacts
  <2>7. StandsFor(x, m)
    <3>1. f.shorthand \in Nat
      BY DEF FrameType
    <3>2. /\ x.entry = e /\ x.pos = r.pos /\ x.shorthand = f.shorthand /\ x.incomplete = i
          /\ x.completion = c
          /\ m.entry = e /\ m.pos = r.pos /\ m.shorthand = r.shorthand /\ m.incomplete = i
          /\ m.completion = c
      BY <1>2, <2>3, <2>4 DEF Match
    <3>3. QED
      BY <2>1, <2>3, <3>1, <3>2 DEF StandsFor, Same, Better
  <2>8. PICK n \in found : StandsFor(n, x)
    BY <2>3, <2>5 DEF Followed
  <2>9. StandsFor(n, m)
    BY <1>0, <2>2, <2>6, <2>7, <2>8, BetterOrder
  <2>10. QED
    BY <2>2, <2>8, <2>9
<1>3. ASSUME NEW r \in R[len], m = Match(e, r.pos, r.shorthand, r.incomplete, 0)
      PROVE  m \in MatchType /\ m.entry = e /\ \E n \in found : StandsFor(n, m)
  <2>1. len \in 1 .. len /\ len \in 0 .. len
    BY <1>0
  <2>2. r \in ReadingType /\ query.start < r.pos
    BY <1>0, <1>3, <2>1, ReadingsTypes
  <2>3. ASSUME NEW f \in FrameType, f.node = SubSeq(e.syllables, 1, len), f.pos = r.pos,
               f.incomplete = r.incomplete
        PROVE  Match(e, f.pos, f.shorthand, r.incomplete, 0) \in Recorded(query, f)
    <3>1. e.syllables = f.node
      BY <1>0, <2>3, SubSeqFull DEF Nodes
    <3>2. f.pos > query.start
      BY <1>0, <2>2, <2>3 DEF QueryOK, FrameType
    <3>3. QED
      BY <2>3, <3>1, <3>2 DEF Recorded
  <2>4. r.incomplete \in BOOLEAN
    BY <2>2 DEF ReadingType
  <2> HIDE DEF len, R
  <2>5. QED
    BY <1>2, <1>3, <2>1, <2>3, <2>4
<1>4. ASSUME query.flavour = "all", NEW k \in 1 .. len - 1, NEW r \in R[k],
             r.pos = Len(query.raw), ~r.incomplete, m = Match(e, r.pos, r.shorthand, FALSE, len - k)
      PROVE  m \in MatchType /\ m.entry = e /\ \E n \in found : StandsFor(n, m)
  <2>1. k \in 1 .. len /\ k \in 0 .. len /\ len - k \in Nat /\ k < len /\ k \in Nat
    BY <1>0
  <2>2. r \in ReadingType
    BY <1>0, <1>4, <2>1, ReadingsTypes
  <2>3. ASSUME NEW f \in FrameType, f.node = SubSeq(e.syllables, 1, k), f.pos = r.pos,
               f.incomplete = r.incomplete
        PROVE  Match(e, f.pos, f.shorthand, FALSE, len - k) \in Recorded(query, f)
    <3>1. Len(f.node) = k /\ f.node \in Nodes
      <4>1. \A i \in 1 .. k : e.syllables[i] \in Texts
        BY <1>0, <2>1, EntryFacts
      <4>2. 1 \in Int /\ k \in Int
        BY <2>1
      <4>3. Len(SubSeq(e.syllables, 1, k)) = k
        BY <2>1, <4>1, <4>2, SubSeqProperties
      <4>4. QED
        BY <2>3, <4>3 DEF FrameType
    <3>2. IsStrictPrefix(f.node, e.syllables)
      BY <2>1, <2>3, <3>1, PrefixLength
    <3>3. f.pos = Len(query.raw) /\ ~f.incomplete
      BY <1>4, <2>3
    <3>4. Match(e, f.pos, f.shorthand, FALSE, Len(e.syllables) - Len(f.node)) \in Recorded(query, f)
      BY <1>4, <3>2, <3>3 DEF Recorded
    <3>5. QED
      BY <3>1, <3>4
  <2>4. PICK no \in BOOLEAN : no = FALSE
    OBVIOUS
  <2>5. \A f \in FrameType :
           f.node = SubSeq(e.syllables, 1, k) /\ f.pos = r.pos /\ f.incomplete = r.incomplete
           => Match(e, f.pos, f.shorthand, no, len - k) \in Recorded(query, f)
    BY <2>3, <2>4
  <2>6. m = Match(e, r.pos, r.shorthand, no, len - k)
    BY <1>4, <2>4
  <2> HIDE DEF len, R
  <2>7. QED
    BY <1>2, <1>4, <2>1, <2>4, <2>5, <2>6
<1> HIDE DEF len, R
<1>5. QED
  BY <1>1, <1>3, <1>4

\* The furthest of what the walk found are the best matches.
LEMMA WalkInvBest == WalkInv => MatchesAreBest
<1> SUFFICES ASSUME WalkInv, stack = <<>> PROVE Furthest(found) = NeuralMatches(query)
  BY DEF MatchesAreBest
<1>0. /\ found \in SUBSET MatchType /\ Distinct(found)
      /\ \A m \in found : m.entry \in Entries /\ m \in MatchesOf(query, m.entry) /\ m.pos \in Nat
  BY DEF WalkInv, WalkTypes, WalkSound, MatchType
<1>1. \A e \in Entries : \A m \in MatchesOf(query, e) :
         m \in MatchType /\ m.entry = e /\ m.pos \in Nat /\ \E n \in found : StandsFor(n, m)
  BY AllMatchesFound DEF MatchType
<1>2. ASSUME NEW m \in Furthest(found) PROVE m \in NeuralMatches(query)
  <2> DEFINE e == m.entry
             M == MatchesOf(query, e)
  <2>1. m \in found /\ e \in Entries /\ m \in M /\ \A n \in found : n.entry = e => n.pos <= m.pos
    BY <1>0, <1>2 DEF Furthest
  <2>2. \A n \in M : n.pos <= m.pos
    <3> TAKE n \in M
    <3>1. PICK k \in found : StandsFor(k, n) /\ n.entry = e
      BY <1>1, <2>1
    <3>2. QED
      BY <2>1, <3>1 DEF StandsFor, Same
  <2>3. m \in Furthest(M)
    BY <2>1, <2>2 DEF Furthest
  <2>4. ASSUME NEW n \in Furthest(M) PROVE ~Better(n, m)
    <3>1. n \in M /\ n.entry = e /\ n.pos \in Nat /\ m.pos \in Nat
      BY <1>0, <1>1, <2>1, <2>4 DEF Furthest
    <3>2. n.pos = m.pos
      BY <2>1, <2>2, <3>1, <2>4 DEF Furthest
    <3>3. PICK k \in found : StandsFor(k, n)
      BY <1>1, <2>1, <3>1
    <3>4. k = m
      BY <1>0, <2>1, <3>1, <3>2, <3>3 DEF StandsFor, Same, Distinct
    <3>5. QED
      BY <3>3, <3>4 DEF StandsFor
  <2>5. QED
    BY <2>1, <2>3, <2>4 DEF NeuralMatches
<1>3. ASSUME NEW m \in NeuralMatches(query) PROVE m \in Furthest(found)
  <2>1. PICK e \in Entries : /\ m \in Furthest(MatchesOf(query, e))
                             /\ \A n \in Furthest(MatchesOf(query, e)) : ~Better(n, m)
    BY <1>3 DEF NeuralMatches
  <2> DEFINE M == MatchesOf(query, e)
  <2>2. m \in M /\ m.entry = e /\ m \in MatchType /\ \A n \in M : n.pos <= m.pos
    BY <1>1, <2>1 DEF Furthest
  <2>3. PICK n \in found : StandsFor(n, m)
    BY <1>1, <2>2
  <2>4. n.entry = e /\ n.pos = m.pos /\ n \in M /\ n \in MatchType
    BY <1>0, <2>2, <2>3 DEF StandsFor, Same
  <2>5. n \in Furthest(M)
    BY <2>2, <2>4 DEF Furthest
  <2>6. StandsFor(m, n)
    BY <2>1, <2>2, <2>4, <2>5 DEF StandsFor, Same
  <2>7. m = n
    BY <2>2, <2>3, <2>4, <2>6, BetterOrder
  <2>8. \A k \in found : k.entry = m.entry => k.pos <= m.pos
    BY <1>0, <2>2
  <2>9. QED
    BY <2>3, <2>7, <2>8 DEF Furthest
<1>4. QED
  BY <1>2, <1>3

\* The trie walk of iter_neural_matches, in which entries share nodes and
\* visits of a state are cut off, ends with exactly the best of the readings
\* of every entry that end furthest.
THEOREM WalkFindsBest == Spec => []MatchesAreBest
<1>1. Init => WalkInv
  BY WalkInvInit
<1>2. WalkInv /\ [Next]_vars => WalkInv'
  BY WalkInvStep
<1>3. WalkInv => MatchesAreBest
  BY WalkInvBest
<1>4. QED
  BY <1>1, <1>2, <1>3, PTL DEF Spec

-----------------------------------------------------------------------------
(* Matches along all readings, unextended ones and exact ones. *)

\* A match of the reference lies after the start, at most at the end.
LEMMA MatchesOfTypes ==
    ASSUME NEW q, QueryOK(q), NEW e \in Entries, NEW m \in MatchesOf(q, e)
    PROVE  m \in MatchType /\ m.entry = e /\ q.start < m.pos /\ m.pos <= Len(q.raw)
<1> DEFINE len == Len(e.syllables)
           R == Readings(q, e)
<1>0. len \in Nat /\ len # 0
  BY EntryFacts
<1>1. \/ \E r \in R[len] : m = Match(e, r.pos, r.shorthand, r.incomplete, 0)
      \/ \E k \in 1 .. len - 1 : \E r \in R[k] : m = Match(e, r.pos, r.shorthand, FALSE, len - k)
  BY DEF MatchesOf
<1>2. \A k \in 1 .. len : \A r \in R[k] : /\ r.pos \in Nat /\ r.shorthand \in Nat /\ r.incomplete \in BOOLEAN
                                          /\ q.start < r.pos /\ r.pos <= Len(q.raw)
  <2> TAKE k \in 1 .. len
  <2>1. k \in 0 .. len /\ k # 0
    BY <1>0
  <2>2. \A r \in R[k] : r \in ReadingType /\ q.start < r.pos /\ r.pos <= Len(q.raw)
    BY <2>1, ReadingsTypes
  <2> HIDE DEF R
  <2>3. QED
    BY <2>2 DEF ReadingType
<1> HIDE DEF R, len
<1>3. CASE \E r \in R[len] : m = Match(e, r.pos, r.shorthand, r.incomplete, 0)
  <2>1. PICK r \in R[len] : m = Match(e, r.pos, r.shorthand, r.incomplete, 0)
    BY <1>3
  <2>2. len \in 1 .. len
    BY <1>0
  <2>3. /\ r.pos \in Nat /\ r.shorthand \in Nat /\ r.incomplete \in BOOLEAN
        /\ q.start < r.pos /\ r.pos <= Len(q.raw)
    BY <1>2, <2>1, <2>2
  <2>4. QED
    BY <2>1, <2>3 DEF Match, MatchType
<1>4. CASE \E k \in 1 .. len - 1 : \E r \in R[k] : m = Match(e, r.pos, r.shorthand, FALSE, len - k)
  <2>1. PICK k \in 1 .. len - 1 : \E r \in R[k] : m = Match(e, r.pos, r.shorthand, FALSE, len - k)
    BY <1>4
  <2>2. PICK r \in R[k] : m = Match(e, r.pos, r.shorthand, FALSE, len - k)
    BY <2>1
  <2>3. k \in 1 .. len /\ len - k \in Nat
    BY <1>0
  <2>4. r.pos \in Nat /\ r.shorthand \in Nat /\ q.start < r.pos /\ r.pos <= Len(q.raw)
    BY <1>2, <2>2, <2>3
  <2>5. QED
    BY <2>2, <2>3, <2>4 DEF Match, MatchType
<1>5. QED
  BY <1>1, <1>3, <1>4

\* So does what neural_matches keeps of them.
LEMMA NeuralTypes ==
    ASSUME NEW q, QueryOK(q), NEW m \in NeuralMatches(q)
    PROVE  m \in MatchType /\ q.start < m.pos /\ m.pos <= Len(q.raw)
<1>1. PICK e \in Entries : m \in MatchesOf(q, e)
  BY DEF NeuralMatches, Furthest
<1>2. QED
  BY <1>1, MatchesOfTypes

\* Two queries at the same keys and position.
SameKeys(q, p) == q.raw = p.raw /\ q.boundaries = p.boundaries /\ q.start = p.start

\* Apart from exactness, the flavour does not change the steps.
LEMMA StepsCarry ==
    ASSUME NEW q, NEW p, NEW s, NEW r, SameKeys(q, p), q.flavour # "exact", p.flavour # "exact",
           NEW t \in Steps(q, s, r)
    PROVE  t \in Steps(p, s, r)
<1>1. /\ ReadsWhole(q, s, r.pos) => ReadsWhole(p, s, r.pos)
      /\ ReadsInitial(q, s, r.pos) => ReadsInitial(p, s, r.pos)
      /\ ReadsUnfinished(q, s, r.pos) => ReadsUnfinished(p, s, r.pos)
      /\ Len(q.raw) = Len(p.raw)
  BY DEF SameKeys, ReadsWhole, ReadsInitial, ReadsUnfinished
<1>2. CASE ReadsWhole(q, s, r.pos) /\ t = Reading(r.pos + Len(s), r.shorthand, r.incomplete)
  BY <1>1, <1>2, StepCases
<1>3. CASE ReadsInitial(q, s, r.pos) /\ t = Reading(r.pos + 1, r.shorthand + 1, r.incomplete)
  BY <1>1, <1>3, StepCases
<1>4. CASE ReadsUnfinished(q, s, r.pos) /\ t = Reading(Len(q.raw), r.shorthand, TRUE)
  BY <1>1, <1>4, StepCases
<1>5. \/ ReadsWhole(q, s, r.pos) /\ t = Reading(r.pos + Len(s), r.shorthand, r.incomplete)
      \/ ReadsInitial(q, s, r.pos) /\ t = Reading(r.pos + 1, r.shorthand + 1, r.incomplete)
      \/ ReadsUnfinished(q, s, r.pos) /\ t = Reading(Len(q.raw), r.shorthand, TRUE)
  BY StepCases
<1>6. QED
  BY <1>2, <1>3, <1>4, <1>5

\* The same both ways.
LEMMA SameSteps ==
    ASSUME NEW q, NEW p, SameKeys(q, p), q.flavour # "exact", p.flavour # "exact"
    PROVE  \A s, r : Steps(q, s, r) = Steps(p, s, r)
<1>1. SameKeys(p, q)
  BY DEF SameKeys
<1> TAKE s, r
<1>2. \A t : t \in Steps(q, s, r) <=> t \in Steps(p, s, r)
  BY <1>1, StepsCarry
<1> DEFINE A == Steps(q, s, r)
           B == Steps(p, s, r)
<1>3. \A t : t \in A <=> t \in B
  BY <1>2
<1> HIDE DEF A, B
<1>4. A = B
  BY <1>3
<1>5. QED
  BY <1>4 DEF A, B

\* And so the readings do not change either.
LEMMA SameReadings ==
    ASSUME NEW q, NEW p, SameKeys(q, p), q.flavour # "exact", p.flavour # "exact", NEW e \in Entries
    PROVE  \A k \in 0 .. Len(e.syllables) : Readings(q, e)[k] = Readings(p, e)[k]
<1> DEFINE Bad == {k \in 0 .. Len(e.syllables) : Readings(q, e)[k] # Readings(p, e)[k]}
<1>0. Len(e.syllables) \in Nat
  BY EntryFacts
<1>1. SUFFICES ASSUME Bad # {} PROVE FALSE
  <2>1. Bad = {}
    BY <1>1
  <2>2. QED
    BY <2>1
<1>2. PICK k \in Bad : \A n \in Bad : k <= n
  <2>1. Bad \in SUBSET Nat
    BY <1>0
  <2> HIDE DEF Bad
  <2>2. QED
    BY <1>1, <2>1, LeastNatural
<1>3. k # 0
  <2>1. Readings(q, e)[0] = {Reading(q.start, 0, FALSE)} /\ Readings(p, e)[0] = {Reading(p.start, 0, FALSE)}
    BY ReadingsStep
  <2>2. Readings(q, e)[0] = Readings(p, e)[0]
    BY <2>1, Zenon DEF SameKeys
  <2>3. QED
    BY <2>2
<1>4. k - 1 \in 0 .. Len(e.syllables) /\ k - 1 \notin Bad /\ k \in 1 .. Len(e.syllables)
  BY <1>0, <1>2, <1>3
<1>5. Readings(q, e)[k - 1] = Readings(p, e)[k - 1]
  BY <1>4
<1>6. \A t : t \in Readings(q, e)[k] <=>
          \E r \in Readings(q, e)[k - 1] : r.pos < Len(q.raw) /\ t \in Steps(q, e.syllables[k], r)
  BY <1>4, ReadingsStep
<1>7. \A t : t \in Readings(p, e)[k] <=>
          \E r \in Readings(p, e)[k - 1] : r.pos < Len(p.raw) /\ t \in Steps(p, e.syllables[k], r)
  BY <1>4, ReadingsStep
<1>8. q.raw = p.raw /\ \A r : Steps(q, e.syllables[k], r) = Steps(p, e.syllables[k], r)
  BY SameSteps DEF SameKeys
<1>9. \A t : t \in Readings(q, e)[k] <=> t \in Readings(p, e)[k]
  BY <1>5, <1>6, <1>7, <1>8
<1>10. QED
  BY <1>2, <1>9

\* No reading of an entry that has an exact one goes further.
LEMMA ExactReadings ==
    ASSUME NEW q, QueryOK(q), NEW p, QueryOK(p), SameKeys(q, p),
           q.flavour = "exact", p.flavour # "exact", NEW e \in Entries
    PROVE  \A k \in 0 .. Len(e.syllables) : \A x \in Readings(q, e)[k] :
              /\ x.shorthand = 0 /\ ~x.incomplete /\ x \in Readings(p, e)[k]
              /\ \A r \in Readings(p, e)[k] : r.pos <= x.pos
              /\ \A j \in 0 .. k - 1 : \A r \in Readings(p, e)[j] : r.pos < Len(p.raw)
<1> DEFINE X == Readings(q, e)
           R == Readings(p, e)
           Fine(k) == \A x \in X[k] :
                         /\ x.shorthand = 0 /\ ~x.incomplete /\ x \in R[k]
                         /\ \A r \in R[k] : r.pos <= x.pos
                         /\ \A j \in 0 .. k - 1 : \A r \in R[j] : r.pos < Len(p.raw)
           Bad == {k \in 0 .. Len(e.syllables) : ~Fine(k)}
<1>0. /\ Len(e.syllables) \in Nat /\ Len(p.raw) \in Nat /\ q.raw = p.raw /\ q.start = p.start
      /\ q.start \in Nat
  BY EntryFacts DEF QueryOK, SameKeys
<1>1. SUFFICES ASSUME Bad # {} PROVE FALSE
  <2>1. Bad = {}
    BY <1>1
  <2> HIDE DEF Fine
  <2>2. \A k \in 0 .. Len(e.syllables) : Fine(k)
    BY <2>1
  <2>3. QED
    BY <2>2 DEF Fine
<1> HIDE DEF Fine
<1>2. PICK k \in Bad : \A n \in Bad : k <= n
  <2>1. Bad \in SUBSET Nat
    BY <1>0
  <2> HIDE DEF Bad
  <2>2. QED
    BY <1>1, <2>1, LeastNatural
<1>3. k # 0
  <2> DEFINE b == Reading(q.start, 0, FALSE)
  <2>1. X[0] = {b} /\ b.pos = q.start /\ b.shorthand = 0 /\ ~b.incomplete
    BY ReadingsStep DEF Reading
  <2>2. R[0] = {b}
    BY <1>0, ReadingsStep
  <2> HIDE DEF b, X, R
  <2>3. Fine(0)
    BY <1>0, <2>1, <2>2 DEF Fine
  <2>4. QED
    BY <2>3
<1>4. k - 1 \in 0 .. Len(e.syllables) /\ k - 1 \notin Bad /\ k \in 1 .. Len(e.syllables)
  BY <1>0, <1>2, <1>3
<1>5. Fine(k - 1)
  BY <1>4
<1> DEFINE s == e.syllables[k]
<1>6. s \in Texts /\ Len(s) \in Nat \ {0}
  BY <1>4, EntryFacts
<1>7. /\ \A t : t \in X[k] <=> \E r \in X[k - 1] : r.pos < Len(q.raw) /\ t \in Steps(q, s, r)
      /\ \A t : t \in R[k] <=> \E r \in R[k - 1] : r.pos < Len(p.raw) /\ t \in Steps(p, s, r)
  BY <1>4, ReadingsStep
<1>8. \A r \in R[k - 1] : r.pos \in Nat
  <2>1. \A r \in R[k - 1] : r \in ReadingType
    BY <1>4, ReadingsTypes
  <2> HIDE DEF R
  <2>2. QED
    BY <2>1 DEF ReadingType
<1> HIDE DEF s, X, R
<1>9. Fine(k)
  <2> SUFFICES ASSUME NEW x \in X[k]
               PROVE  /\ x.shorthand = 0 /\ ~x.incomplete /\ x \in R[k]
                      /\ \A r \in R[k] : r.pos <= x.pos
                      /\ \A j \in 0 .. k - 1 : \A r \in R[j] : r.pos < Len(p.raw)
    BY DEF Fine
  <2>1. PICK y \in X[k - 1] : y.pos < Len(q.raw) /\ x \in Steps(q, s, y)
    BY <1>7
  <2>2. /\ y.shorthand = 0 /\ ~y.incomplete /\ y \in R[k - 1]
        /\ \A r \in R[k - 1] : r.pos <= y.pos
        /\ \A j \in 0 .. (k - 1) - 1 : \A r \in R[j] : r.pos < Len(p.raw)
    BY <1>5, <2>1 DEF Fine
  <2>3. ReadsWhole(q, s, y.pos) /\ x = Reading(y.pos + Len(s), y.shorthand, y.incomplete)
    BY <2>1, StepCases DEF ReadsInitial, ReadsUnfinished
  <2>4. x.pos = y.pos + Len(s) /\ x.shorthand = y.shorthand /\ x.incomplete = y.incomplete
    BY <2>3 DEF Reading
  <2>5. ReadsWhole(p, s, y.pos) /\ y.pos + Len(s) <= Len(p.raw)
    BY <2>3 DEF ReadsWhole, StartsWith, SameKeys
  <2>6. x \in R[k]
    <3>1. x \in Steps(p, s, y)
      BY <2>3, <2>5, StepCases
    <3>2. QED
      BY <1>0, <1>7, <2>1, <2>2, <3>1
  <2>7. ASSUME NEW t \in R[k] PROVE t.pos <= x.pos
    <3>1. PICK r \in R[k - 1] : r.pos < Len(p.raw) /\ t \in Steps(p, s, r)
      BY <1>7
    <3>2. r.pos \in Nat /\ y.pos \in Nat /\ r.pos <= y.pos
      BY <1>8, <2>2
    <3>3. \/ t = Reading(r.pos + Len(s), r.shorthand, r.incomplete)
          \/ t = Reading(r.pos + 1, r.shorthand + 1, r.incomplete)
          \/ Len(p.raw) - r.pos < Len(s)
      BY <3>1, StepCases DEF ReadsUnfinished
    <3>4. t.pos = r.pos + Len(s) \/ t.pos = r.pos + 1 \/ Len(p.raw) - r.pos < Len(s)
      BY <3>3 DEF Reading
    <3>5. QED
      BY <1>0, <1>6, <2>4, <2>5, <3>2, <3>4
  <2>8. ASSUME NEW j \in 0 .. k - 1, NEW r \in R[j] PROVE r.pos < Len(p.raw)
    <3>1. CASE j = k - 1
      BY <1>0, <1>8, <2>1, <2>2, <3>1
    <3>2. CASE j # k - 1
      <4>1. j \in 0 .. (k - 1) - 1
        BY <1>4, <3>2
      <4>2. QED
        BY <2>2, <4>1
    <3>3. QED
      BY <3>1, <3>2
  <2>9. x.shorthand = 0 /\ ~x.incomplete
    BY <2>2, <2>4
  <2>10. QED
    BY <2>6, <2>7, <2>8, <2>9
<1>10. QED
  BY <1>2, <1>9

\* The two kinds of matches of an entry.
IsWhole(q, e, m) ==
    \E r \in Readings(q, e)[Len(e.syllables)] : m = Match(e, r.pos, r.shorthand, r.incomplete, 0)
IsPredicted(q, e, m) ==
    \E k \in 1 .. Len(e.syllables) - 1 : \E r \in Readings(q, e)[k] :
        /\ r.pos = Len(q.raw) /\ ~r.incomplete
        /\ m = Match(e, r.pos, r.shorthand, FALSE, Len(e.syllables) - k)

\* A match uses up an entry's syllables, or predicts the missing ones.
LEMMA MatchesOfCases ==
    ASSUME NEW q, NEW e, NEW m
    PROVE  m \in MatchesOf(q, e) <=> IsWhole(q, e, m) \/ (q.flavour = "all" /\ IsPredicted(q, e, m))
<1> DEFINE len == Len(e.syllables)
           whole == {Match(e, r.pos, r.shorthand, r.incomplete, 0) : r \in Readings(q, e)[len]}
           some(k) == {Match(e, r.pos, r.shorthand, FALSE, len - k) :
                          r \in {t \in Readings(q, e)[k] : t.pos = Len(q.raw) /\ ~t.incomplete}}
           predicted == UNION {some(k) : k \in 1 .. (len - 1)}
<1>1. MatchesOf(q, e) = IF q.flavour = "all" THEN whole \cup predicted ELSE whole
  BY DEF MatchesOf
<1>2. m \in whole <=> IsWhole(q, e, m)
  BY DEF IsWhole
<1>3. m \in predicted <=> \E k \in 1 .. (len - 1) : m \in some(k)
  <2> HIDE DEF some
  <2>1. QED
    OBVIOUS
<1>4. \A k \in 1 .. (len - 1) : m \in some(k) <=>
         \E r \in Readings(q, e)[k] : /\ r.pos = Len(q.raw) /\ ~r.incomplete
                                      /\ m = Match(e, r.pos, r.shorthand, FALSE, len - k)
  OBVIOUS
<1>5. m \in predicted <=> IsPredicted(q, e, m)
  BY <1>3, <1>4 DEF IsPredicted
<1> HIDE DEF whole, predicted
<1>6. QED
  BY <1>1, <1>2, <1>5

\* A prediction completes something, at the end of the keys.
LEMMA PredictedCompletes ==
    ASSUME NEW q, NEW e \in Entries, NEW m, IsPredicted(q, e, m)
    PROVE  m.completion \in Nat \ {0} /\ m.pos = Len(q.raw)
<1>1. PICK k \in 1 .. Len(e.syllables) - 1 : \E r \in Readings(q, e)[k] :
          r.pos = Len(q.raw) /\ m = Match(e, r.pos, r.shorthand, FALSE, Len(e.syllables) - k)
  BY DEF IsPredicted
<1>2. PICK r \in Readings(q, e)[k] :
          r.pos = Len(q.raw) /\ m = Match(e, r.pos, r.shorthand, FALSE, Len(e.syllables) - k)
  BY <1>1
<1>3. m.completion = Len(e.syllables) - k /\ m.pos = Len(q.raw)
  BY <1>2 DEF Match
<1>4. Len(e.syllables) \in Nat
  BY EntryFacts
<1>5. QED
  BY <1>3, <1>4

\* A match of all syllables predicts nothing.
LEMMA WholeCompletes ==
    ASSUME NEW q, NEW e, NEW m, IsWhole(q, e, m)
    PROVE  m.completion = 0
BY DEF IsWhole, Match

\* What neural_matches keeps is decided entry by entry.
LEMMA NeuralOf ==
    ASSUME NEW q, QueryOK(q), NEW m
    PROVE  m \in NeuralMatches(q) <=>
              \E e \in Entries : /\ m \in Furthest(MatchesOf(q, e))
                                 /\ \A n \in Furthest(MatchesOf(q, e)) : ~Better(n, m)
BY DEF NeuralMatches

\* An exact match is the best of all.
LEMMA ExactWithinAll ==
    ASSUME NEW q, QueryOK(q), NEW p, QueryOK(p), SameKeys(q, p),
           q.flavour = "exact", p.flavour = "all"
    PROVE  NeuralMatches(q) \subseteq NeuralMatches(p)
<1> SUFFICES ASSUME NEW m \in NeuralMatches(q) PROVE m \in NeuralMatches(p)
  OBVIOUS
<1>1. PICK e \in Entries : m \in MatchesOf(q, e)
  BY NeuralOf DEF Furthest
<1>2. PICK x \in Readings(q, e)[Len(e.syllables)] :
         m = Match(e, x.pos, x.shorthand, x.incomplete, 0)
  BY <1>1, MatchesOfCases DEF IsWhole
<1>3. Len(e.syllables) \in Nat /\ Len(e.syllables) \in 0 .. Len(e.syllables)
  BY EntryFacts
<1>4. /\ x.shorthand = 0 /\ ~x.incomplete /\ x \in Readings(p, e)[Len(e.syllables)]
      /\ \A r \in Readings(p, e)[Len(e.syllables)] : r.pos <= x.pos
      /\ \A j \in 0 .. Len(e.syllables) - 1 : \A r \in Readings(p, e)[j] : r.pos < Len(p.raw)
  BY <1>2, <1>3, ExactReadings
<1>5. m \in MatchesOf(p, e)
  BY <1>2, <1>4, MatchesOfCases DEF IsWhole
<1>6. /\ m.entry = e /\ m.pos = x.pos /\ m.shorthand = 0 /\ ~m.incomplete /\ m.completion = 0
  BY <1>2, <1>4 DEF Match
<1>7. ASSUME NEW n \in MatchesOf(p, e) PROVE n.pos <= m.pos /\ ~Better(n, m) /\ n.entry = e
  <2>1. n \in MatchType /\ n.entry = e
    BY MatchesOfTypes
  <2>2. CASE IsWhole(p, e, n)
    <3>1. PICK r \in Readings(p, e)[Len(e.syllables)] :
             n = Match(e, r.pos, r.shorthand, r.incomplete, 0)
      BY <2>2 DEF IsWhole
    <3>2. n.pos = r.pos /\ n.completion = 0 /\ n.shorthand \in Nat
      BY <2>1, <3>1 DEF Match, MatchType
    <3>3. n.pos <= m.pos
      BY <1>4, <1>6, <3>1, <3>2
    <3>4. ~Better(n, m)
      BY <1>6, <3>2 DEF Better
    <3>5. QED
      BY <2>1, <3>3, <3>4
  <2>3. CASE IsPredicted(p, e, n)
    <3>1. PICK k \in 1 .. Len(e.syllables) - 1 : \E r \in Readings(p, e)[k] : r.pos = Len(p.raw)
      BY <2>3 DEF IsPredicted
    <3>2. k \in 0 .. Len(e.syllables) - 1
      BY <1>3
    <3>3. QED
      BY <1>4, <3>1, <3>2
  <2>4. QED
    BY <2>2, <2>3, MatchesOfCases
<1>8. m \in Furthest(MatchesOf(p, e)) /\ \A n \in Furthest(MatchesOf(p, e)) : ~Better(n, m)
  BY <1>5, <1>7 DEF Furthest
<1>9. QED
  BY <1>8, NeuralOf

\* Without predicted syllables, the matches that use up the keys are the same.
LEMMA UnextendedSame ==
    ASSUME NEW q, QueryOK(q), NEW p, QueryOK(p), SameKeys(q, p),
           q.flavour = "unextended", p.flavour = "all",
           NEW m, m.pos = Len(p.raw), m.completion = 0
    PROVE  m \in NeuralMatches(q) <=> m \in NeuralMatches(p)
<1>1. \A e \in Entries : \A n : IsWhole(q, e, n) <=> IsWhole(p, e, n)
  <2> TAKE e \in Entries
  <2>1. Len(e.syllables) \in 0 .. Len(e.syllables)
    BY EntryFacts
  <2>2. q.flavour # "exact" /\ p.flavour # "exact"
    OBVIOUS
  <2>3. Readings(q, e)[Len(e.syllables)] = Readings(p, e)[Len(e.syllables)]
    BY <2>1, <2>2, SameReadings
  <2>4. QED
    BY <2>3 DEF IsWhole
<1>2. ASSUME NEW e \in Entries
      PROVE  /\ \A n \in MatchesOf(q, e) : n \in MatchesOf(p, e)
             /\ \A n \in MatchesOf(p, e) :
                   /\ n.pos \in Nat /\ n.pos <= Len(p.raw) /\ n.entry = e /\ n.completion \in Nat
                   /\ n \in MatchesOf(q, e) \/ n.completion # 0
             /\ \A n \in MatchesOf(q, e) : n.completion = 0
  <2>1. \A n \in MatchesOf(q, e) : IsWhole(q, e, n)
    BY MatchesOfCases
  <2>2. \A n : IsWhole(q, e, n) => n \in MatchesOf(q, e) /\ n \in MatchesOf(p, e)
    BY <1>1, MatchesOfCases
  <2>3. \A n \in MatchesOf(p, e) : IsWhole(p, e, n) \/ IsPredicted(p, e, n)
    BY MatchesOfCases
  <2>4. \A n \in MatchesOf(p, e) : n \in MatchType /\ n.pos <= Len(p.raw) /\ n.entry = e
    BY MatchesOfTypes
  <2>5. \A n \in MatchesOf(p, e) : n.pos \in Nat /\ n.completion \in Nat
    BY <2>4 DEF MatchType
  <2>6. \A n : IsWhole(q, e, n) => n.completion = 0
    BY WholeCompletes
  <2>7. \A n : IsPredicted(p, e, n) => n.completion # 0
    BY PredictedCompletes
  <2>8. QED
    BY <1>1, <2>1, <2>2, <2>3, <2>4, <2>5, <2>6, <2>7
<1>3. Len(p.raw) \in Nat
  BY DEF QueryOK
<1>4. ASSUME NEW e \in Entries, m \in MatchesOf(q, e)
      PROVE  /\ m \in Furthest(MatchesOf(q, e)) /\ m \in Furthest(MatchesOf(p, e))
             /\ \A n \in MatchesOf(q, e) :
                   n \in Furthest(MatchesOf(q, e)) <=> n \in Furthest(MatchesOf(p, e))
             /\ \A n \in Furthest(MatchesOf(p, e)) : n \in MatchesOf(q, e) \/ ~Better(n, m)
  <2>1. m \in Furthest(MatchesOf(q, e)) /\ m \in Furthest(MatchesOf(p, e))
    BY <1>2, <1>4 DEF Furthest
  <2>2. \A n \in MatchesOf(q, e) : n \in Furthest(MatchesOf(q, e)) <=> n.pos = Len(p.raw)
    BY <1>2, <1>3, <1>4 DEF Furthest
  <2>3. \A n \in MatchesOf(q, e) : n \in Furthest(MatchesOf(p, e)) <=> n.pos = Len(p.raw)
    BY <1>2, <1>3, <1>4 DEF Furthest
  <2>4. \A n \in Furthest(MatchesOf(p, e)) : n \in MatchesOf(q, e) \/ ~Better(n, m)
    BY <1>2 DEF Furthest, Better
  <2>5. QED
    BY <2>1, <2>2, <2>3, <2>4
<1>5. ASSUME m \in NeuralMatches(q) PROVE m \in NeuralMatches(p)
  <2>1. PICK e \in Entries : /\ m \in Furthest(MatchesOf(q, e))
                             /\ \A n \in Furthest(MatchesOf(q, e)) : ~Better(n, m)
    BY <1>5, NeuralOf
  <2>2. m \in MatchesOf(q, e)
    BY <2>1 DEF Furthest
  <2>3. QED
    BY <1>4, <2>1, <2>2, NeuralOf
<1>6. ASSUME m \in NeuralMatches(p) PROVE m \in NeuralMatches(q)
  <2>1. PICK e \in Entries : /\ m \in Furthest(MatchesOf(p, e))
                             /\ \A n \in Furthest(MatchesOf(p, e)) : ~Better(n, m)
    BY <1>6, NeuralOf
  <2>2. m \in MatchesOf(q, e)
    BY <1>2, <2>1 DEF Furthest
  <2>3. \A n \in Furthest(MatchesOf(q, e)) : n \in Furthest(MatchesOf(p, e))
    BY <1>4, <2>2 DEF Furthest
  <2>4. QED
    BY <1>4, <2>1, <2>2, <2>3, NeuralOf
<1>7. QED
  BY <1>5, <1>6

-----------------------------------------------------------------------------
(* Consumed keys and matched letters. *)

\* Counting letters key by key: an apostrophe counts nothing, and the count
\* over all keys is the length of the compact keys.
LEMMA LettersStep ==
    ASSUME NEW keys \in Seq(Letters \cup {Apostrophe})
    PROVE  /\ LetterCount(keys, 0) = 0
           /\ \A p \in 0 .. Len(keys) : LetterCount(keys, p) \in Nat
           /\ \A p \in 0 .. Len(keys) - 1 :
                 LetterCount(keys, p + 1) = LetterCount(keys, p) + (IF keys[p + 1] # Apostrophe THEN 1 ELSE 0)
           /\ LetterCount(keys, Len(keys)) = Len(Compact(keys))
<1> DEFINE K(p) == {i \in 1 .. p : keys[i] # Apostrophe}
<1>0. Len(keys) \in Nat /\ DOMAIN keys = 1 .. Len(keys)
  OBVIOUS
<1>1. \A p \in Nat : IsFiniteSet(K(p)) /\ Cardinality(K(p)) \in Nat /\ LetterCount(keys, p) = Cardinality(K(p))
  <2> TAKE p \in Nat
  <2>1. IsFiniteSet(1 .. p) /\ K(p) \subseteq 1 .. p
    BY FS_Interval
  <2>2. QED
    BY <2>1, FS_Subset, FS_CardinalityType DEF LetterCount
<1>2. LetterCount(keys, 0) = 0
  <2>1. K(0) = {}
    OBVIOUS
  <2>2. QED
    BY <1>1, <2>1, FS_EmptySet
<1>3. ASSUME NEW p \in 0 .. Len(keys) - 1
      PROVE  LetterCount(keys, p + 1) = LetterCount(keys, p) + (IF keys[p + 1] # Apostrophe THEN 1 ELSE 0)
  <2>1. p \in Nat /\ p + 1 \in Nat
    BY <1>0
  <2>2. CASE keys[p + 1] # Apostrophe
    <3>1. K(p + 1) = K(p) \cup {p + 1} /\ p + 1 \notin K(p)
      BY <2>1, <2>2
    <3>2. Cardinality(K(p) \cup {p + 1}) = Cardinality(K(p)) + 1
      BY <1>1, <2>1, <3>1, FS_AddElement
    <3> HIDE DEF K
    <3>3. QED
      BY <1>1, <2>1, <2>2, <3>1, <3>2
  <2>3. CASE keys[p + 1] = Apostrophe
    <3>1. K(p + 1) = K(p)
      BY <2>1, <2>3
    <3> HIDE DEF K
    <3>2. QED
      BY <1>1, <2>1, <2>3, <3>1
  <2>4. QED
    BY <2>2, <2>3
<1>4. LetterCount(keys, Len(keys)) = Len(Compact(keys))
  <2>1. {i \in DOMAIN keys : keys[i] # Apostrophe} = K(Len(keys))
    BY <1>0
  <2>2. Len(Compact(keys)) = Cardinality(K(Len(keys)))
    <3>1. Compact(keys) = KeepAt(keys, K(Len(keys)))
      BY <2>1 DEF Compact
    <3>2. Cardinality(K(Len(keys))) \in Nat
      BY <1>0, <1>1
    <3> HIDE DEF K
    <3>3. QED
      BY <3>1, <3>2 DEF KeepAt
  <2>3. QED
    BY <1>0, <1>1, <2>2
<1>5. \A p \in 0 .. Len(keys) : LetterCount(keys, p) \in Nat
  <2> TAKE p \in 0 .. Len(keys)
  <2>1. p \in Nat
    BY <1>0
  <2> HIDE DEF K
  <2>2. QED
    BY <1>1, <2>1
<1>6. QED
  BY <1>2, <1>3, <1>4, <1>5

\* Min of a set of naturals.
LEMMA MinimumOf ==
    ASSUME NEW S \in SUBSET Nat, S # {}
    PROVE  Min(S) \in S /\ \A x \in S : Min(S) <= x
<1>1. \E m \in S : \A n \in S : m <= n
  BY LeastNatural
<1>2. QED
  BY <1>1 DEF Min

\* Turning a position into consumed keys and back loses nothing, though an
\* apostrophe after the last letter is consumed too.
LEMMA ConsumedRoundTrip ==
    ASSUME NEW keys \in Seq(Letters \cup {Apostrophe}), NEW k \in 0 .. Len(Compact(keys))
    PROVE  MatchedLetters(keys, RawCharactersForLetters(keys, k)) = k
<1> DEFINE L(p) == LetterCount(keys, p)
           len == Len(keys)
<1>0. /\ len \in Nat /\ L(0) = 0 /\ \A p \in 0 .. len : L(p) \in Nat
      /\ \A p \in 0 .. len - 1 : L(p + 1) = L(p) + (IF keys[p + 1] # Apostrophe THEN 1 ELSE 0)
      /\ L(len) = Len(Compact(keys)) /\ k \in Nat /\ k <= L(len)
  BY LettersStep, CompactLetters
<1>1. ASSUME NEW c \in 0 .. len PROVE MatchedLetters(keys, c) = L(c)
  <2>1. {c, len} \in SUBSET Nat /\ {c, len} # {}
    BY <1>0
  <2>2. Min({c, len}) = c
    <3>1. Min({c, len}) \in {c, len} /\ \A x \in {c, len} : Min({c, len}) <= x
      BY <2>1, MinimumOf
    <3>2. c <= len /\ c \in Nat
      BY <1>0
    <3>3. Min({c, len}) <= c
      BY <3>1
    <3>4. QED
      BY <1>0, <3>1, <3>2, <3>3
  <2>3. QED
    BY <2>2 DEF MatchedLetters
<1>2. CASE k >= L(len)
  <2>1. RawCharactersForLetters(keys, k) = len
    BY <1>2 DEF RawCharactersForLetters
  <2>2. len \in 0 .. len /\ k = L(len)
    BY <1>0, <1>2
  <2> HIDE DEF len, L
  <2>3. QED
    BY <1>1, <2>1, <2>2
<1>3. CASE ~(k >= L(len))
  <2> DEFINE A == {p \in 0 .. len : L(p) >= k}
             a == Min(A)
             B == {p \in a .. len : p = len \/ keys[p + 1] # Apostrophe}
             b == Min(B)
  <2>1. RawCharactersForLetters(keys, k) = b
    BY <1>3 DEF RawCharactersForLetters
  <2>2. a \in A /\ \A x \in A : a <= x
    <3>1. len \in A /\ A \in SUBSET Nat
      BY <1>0
    <3> HIDE DEF A
    <3>2. QED
      BY <3>1, MinimumOf
  <2> HIDE DEF a, L
  <2>3. a \in 0 .. len /\ L(a) >= k
    BY <2>2
  <2>4. L(a) = k
    <3>1. CASE a = 0
      BY <1>0, <2>3, <3>1
    <3>2. CASE a # 0
      <4>1. a - 1 \in 0 .. len /\ a - 1 \in 0 .. len - 1 /\ ~(a <= a - 1)
        BY <1>0, <2>3, <3>2
      <4>2. L(a - 1) \in Nat /\ ~(L(a - 1) >= k)
        BY <1>0, <2>2, <4>1
      <4>3. L((a - 1) + 1) <= L(a - 1) + 1
        BY <1>0, <4>1, <4>2
      <4>4. (a - 1) + 1 = a
        BY <2>3
      <4>5. L(a) <= L(a - 1) + 1
        BY <4>3, <4>4
      <4>6. QED
        BY <1>0, <2>3, <4>2, <4>5
    <3>3. QED
      BY <3>1, <3>2
  <2>5. b \in B /\ \A x \in B : b <= x
    <3>1. len \in B /\ B \in SUBSET Nat
      BY <1>0, <2>3
    <3> HIDE DEF B
    <3>2. QED
      BY <3>1, MinimumOf
  <2> HIDE DEF b
  <2>6. b \in a .. len /\ b \in 0 .. len
    BY <1>0, <2>3, <2>5
  <2>7. L(b) = k
    <3> DEFINE Bad == {p \in a .. b : L(p) # k}
    <3> SUFFICES ASSUME L(b) # k PROVE FALSE
      OBVIOUS
    <3>1. b \in Bad /\ Bad \in SUBSET Nat
      BY <1>0, <2>3, <2>6
    <3>2. PICK x \in Bad : \A y \in Bad : x <= y
      <4> HIDE DEF Bad
      <4>1. QED
        BY <3>1, LeastNatural
    <3>3. x \in a .. b /\ x # a
      BY <2>4, <3>2
    <3>4. x - 1 \in a .. b /\ x - 1 \in 0 .. len - 1 /\ ~(x <= x - 1) /\ ~(b <= x - 1) /\ x - 1 # len
          /\ (x - 1) + 1 = x /\ x - 1 \in a .. len
      BY <1>0, <2>3, <2>6, <3>3
    <3>5. L(x - 1) = k
      BY <3>2, <3>4
    <3>6. keys[(x - 1) + 1] = Apostrophe
      BY <2>5, <3>4
    <3>7. L((x - 1) + 1) = k
      BY <1>0, <3>4, <3>5, <3>6
    <3>8. QED
      BY <3>2, <3>4, <3>7
  <2>8. QED
    BY <1>1, <2>1, <2>6, <2>7
<1>4. QED
  BY <1>2, <1>3

-----------------------------------------------------------------------------
(* The lexical walk. *)

\* The query of Begin at a position.
QueryAt(p, flavour) == [query EXCEPT !.start = p, !.flavour = flavour]

\* The paths matches can be laid end to end to.
LegalPaths == UNION {Levels("all")[k] : k \in 0 .. N}

\* The seeds a rest still has to give.
Seeds(r) ==
    {m \in r.seeds \cup (IF r.unextended THEN OrderedSuffixes(r.parent.matched, FALSE) ELSE {}) :
        Allowed(Child(r.parent, m))}

\* A path in this state was taken, is in the heap or set aside, or is the
\* child of a rest.
Due(key) ==
    \/ key \in taken
    \/ \E p \in deferred : StateKey(p) = key
    \/ \E i \in heap : \/ StateKey(i.path) = key
                       \/ \E r \in i.rest : \E m \in Seeds(r) : StateKey(Child(r.parent, m)) = key

RestOK(r) ==
    /\ r.parent \in LegalPaths /\ r.parent.matched < N
    /\ r.seeds \subseteq {m \in matches["all"][r.parent.matched] : Fits(m)}

ItemOK(i) ==
    /\ i.path \in LegalPaths
    /\ i.rest = {} \/ \E r \in i.rest : i.rest = {r} /\ RestOK(r)

TailTypes ==
    /\ phase \in {"matching", "exact", "full", "end"}
    /\ \E keys \in Keys, start \in 0 .. (MaxKeys - 1), flavour \in Flavours :
          query = [keys |-> keys, raw |-> Compact(keys), boundaries |-> Boundaries(keys),
                   start |-> start, flavour |-> flavour]
    /\ phase = "exact" => mode = "exact"
    /\ phase = "matching" => taken = {}
    /\ phase # "matching" =>
          /\ stack = <<>> /\ query.start = 0 /\ query.flavour = "all"
          /\ matches = [f \in Flavours |-> [p \in 0 .. (N - 1) |-> NeuralMatches(QueryAt(p, f))]]

\* Nothing is walked to that the index does not spell at the keys.
TailSound ==
    phase # "matching" =>
        /\ \A i \in heap : ItemOK(i)
        /\ deferred \subseteq LegalPaths
        /\ {c.text : c \in Range(pending)} \subseteq existing
        /\ existing \subseteq {c.text : c \in Range(pending)} \cup {c.text : c \in Covers}

\* A path was given to the caller, or its children are due.
PathDone(p) ==
    IF p.matched = N
    THEN p.text \in existing
    ELSE \A c \in Longer(p, "all") : Due(StateKey(c))

\* In the last walk, everything is due.
TailComplete ==
    /\ phase \in {"full", "end"} =>
          /\ \A p \in RootPaths(FALSE) : Due(StateKey(p))
          /\ \A key \in taken : \E p \in LegalPaths : StateKey(p) = key /\ PathDone(p)
    /\ phase = "end" => heap = {} /\ deferred = {}

TailInv == TailTypes /\ TailSound /\ TailComplete

\* What the walk leaves unchanged.
LEMMA InputsFixed ==
    ASSUME query' = query, matches' = matches
    PROVE  /\ N' = N /\ LegalPaths' = LegalPaths /\ Covers' = Covers
           /\ \A p, flavour : Longer(p, flavour)' = Longer(p, flavour)
           /\ \A p, m : Child(p, m)' = Child(p, m)
           /\ \A pos, b : OrderedSuffixes(pos, b)' = OrderedSuffixes(pos, b)
<1>1. N' = N
  BY DEF N
<1>2. \A m : Fits(m)' <=> Fits(m)
  BY DEF Fits
<1>3. \A m : PredictedBy(m)' = PredictedBy(m)
  BY <1>1 DEF PredictedBy
<1>4. \A p, m : Child(p, m)' = Child(p, m)
  BY <1>3 DEF Child
<1>5. \A p, flavour : Longer(p, flavour)' = Longer(p, flavour)
  BY <1>4 DEF Longer, Fits, Allowed
<1>6. \A flavour : Levels(flavour)' = Levels(flavour)
  BY DEF Levels, EmptyPath, Longer, Child, PredictedBy, Fits, Allowed, N
<1>7. LegalPaths' = LegalPaths /\ Covers' = Covers
  BY <1>1, <1>6 DEF LegalPaths, Covers
<1>8. \A pos, b : OrderedSuffixes(pos, b)' = OrderedSuffixes(pos, b)
  BY <1>1 DEF OrderedSuffixes, Fits
<1>9. QED
  BY <1>1, <1>4, <1>5, <1>7, <1>8

\* f holds the paths of up to m matches.
LaysOut(f, m, flavour) ==
    f = [k \in 0 .. m |-> IF k = 0
                          THEN {EmptyPath}
                          ELSE UNION {Longer(p, flavour) : p \in {c \in f[k - 1] : c.matched < N}}]

\* The recursion that lays matches end to end has a solution.
LEMMA LaysOutExists ==
    ASSUME NEW flavour PROVE \A m \in Nat : \E f : LaysOut(f, m, flavour)
<1> DEFINE Next1(R) == UNION {Longer(p, flavour) : p \in {c \in R : c.matched < N}}
           b == {EmptyPath}
           Bad == {m \in Nat : ~\E f : LaysOut(f, m, flavour)}
<1> SUFFICES ASSUME Bad # {} PROVE FALSE
  OBVIOUS
<1>1. PICK m \in Bad : \A n \in Bad : m <= n
  BY LeastNatural
<1>2. m # 0
  <2>1. LaysOut([k \in 0 .. 0 |-> b], 0, flavour)
    BY DEF LaysOut
  <2>2. QED
    BY <2>1
<1>3. m - 1 \in Nat /\ m - 1 \notin Bad
  BY <1>1, <1>2
<1>4. PICK f : LaysOut(f, m - 1, flavour)
  BY <1>3
<1>5. f = [k \in 0 .. m - 1 |-> IF k = 0 THEN b ELSE Next1(f[k - 1])]
  BY <1>4 DEF LaysOut
<1> DEFINE g == [k \in 0 .. m |-> IF k = 0 THEN b ELSE Next1(f[k - 1])]
<1>6. \A k \in 0 .. m - 1 : g[k] = f[k]
  <2> HIDE DEF b, Next1
  <2>1. QED
    BY <1>1, <1>3, <1>5
<1>7. \A k \in 0 .. m : k # 0 => k - 1 \in 0 .. m - 1
  BY <1>1, <1>3
<1>8. \A k \in 0 .. m : g[k] = IF k = 0 THEN b ELSE Next1(g[k - 1])
  <2>1. \A k \in 0 .. m : k # 0 => g[k - 1] = f[k - 1]
    <3> HIDE DEF g
    <3>1. QED
      BY <1>6, <1>7
  <2> HIDE DEF b, Next1
  <2>2. QED
    BY <2>1
<1>9. LaysOut(g, m, flavour)
  <2>1. g = [k \in 0 .. m |-> g[k]]
    OBVIOUS
  <2> HIDE DEF g
  <2>2. QED
    BY <1>8, <2>1 DEF LaysOut
<1>10. QED
  BY <1>1, <1>9

\* Levels, one match at a time.
LEMMA LevelsStep ==
    ASSUME N \in Nat, NEW flavour
    PROVE  /\ Levels(flavour)[0] = {EmptyPath}
           /\ \A k \in 1 .. N : \A c :
                 c \in Levels(flavour)[k] <=>
                    \E p \in Levels(flavour)[k - 1] : p.matched < N /\ c \in Longer(p, flavour)
<1> DEFINE level == CHOOSE f : f = [k \in 0 .. N |->
                       IF k = 0
                       THEN {EmptyPath}
                       ELSE UNION {Longer(p, flavour) : p \in {c \in f[k - 1] : c.matched < N}}]
<1>1. PICK f : LaysOut(f, N, flavour)
  BY LaysOutExists
<1>2. level = [k \in 0 .. N |->
                       IF k = 0
                       THEN {EmptyPath}
                       ELSE UNION {Longer(p, flavour) : p \in {c \in level[k - 1] : c.matched < N}}]
  BY <1>1 DEF LaysOut
<1>3. Levels(flavour) = level
  BY DEF Levels
<1> HIDE DEF level
<1>4. level[0] = {EmptyPath}
  BY <1>2
<1>5. \A k \in 1 .. N : level[k] = UNION {Longer(p, flavour) : p \in {c \in level[k - 1] : c.matched < N}}
  <2> TAKE k \in 1 .. N
  <2>1. k \in 0 .. N /\ k # 0
    OBVIOUS
  <2>2. QED
    BY <1>2, <2>1
<1>6. QED
  BY <1>3, <1>4, <1>5

-----------------------------------------------------------------------------
(* The inputs of the walk, once it has begun. *)

Begun == WalkInv /\ TailTypes /\ phase # "matching"

\* The query of a walk that has begun.
LEMMA BegunQuery ==
    ASSUME Begun
    PROVE  /\ QueryOK(query) /\ N \in Nat /\ N # 0
           /\ query.keys \in Seq(Letters \cup {Apostrophe}) /\ N = Len(Compact(query.keys))
           /\ query = QueryAt(0, "all")
<1>1. PICK keys \in Keys, start \in 0 .. (MaxKeys - 1), flavour \in Flavours :
         query = [keys |-> keys, raw |-> Compact(keys), boundaries |-> Boundaries(keys),
                  start |-> start, flavour |-> flavour]
  BY DEF Begun, TailTypes
<1>2. query.start = 0 /\ query.flavour = "all"
  BY DEF Begun, TailTypes
<1>3. keys \in Seq(Letters \cup {Apostrophe})
  <2>1. keys \in BoundedSeq(Letters \cup {Apostrophe}, MaxKeys)
    BY DEF Keys
  <2>2. PICK n \in 0 .. MaxKeys : keys \in [1 .. n -> Letters \cup {Apostrophe}]
    BY <2>1 DEF BoundedSeq, SeqOf
  <2>3. n \in Nat
    BY MatchAssumption
  <2>4. QED
    BY <2>2, <2>3
<1>4. QueryOK(query)
  BY DEF Begun, WalkInv, WalkTypes
<1>5. N = Len(query.raw) /\ Len(query.raw) \in Nat /\ query.start \in Nat /\ query.start < Len(query.raw)
  BY <1>4 DEF QueryOK, N
<1>6. query.keys = keys /\ query.raw = Compact(keys)
  BY <1>1
<1>7. query = QueryAt(0, "all")
  BY <1>1, <1>2 DEF QueryAt
<1>8. QED
  BY <1>3, <1>4, <1>5, <1>6, <1>7

\* suffix_seeds holds the matches at every position, and they move forward.
LEMMA BegunMatches ==
    ASSUME Begun, NEW f \in Flavours, NEW pos \in 0 .. N - 1
    PROVE  /\ matches[f][pos] = NeuralMatches(QueryAt(pos, f))
           /\ QueryOK(QueryAt(pos, f))
           /\ QueryAt(pos, f).flavour = f /\ QueryAt(pos, f).raw = query.raw
           /\ \A g \in Flavours : SameKeys(QueryAt(pos, f), QueryAt(pos, g))
           /\ \A m \in matches[f][pos] : m \in MatchType /\ pos < m.pos /\ m.pos <= N
<1>1. matches = [h \in Flavours |-> [p \in 0 .. (N - 1) |-> NeuralMatches(QueryAt(p, h))]]
  BY DEF Begun, TailTypes
<1>2. matches[f][pos] = NeuralMatches(QueryAt(pos, f))
  BY <1>1
<1>3. PICK keys, start, flavour :
         query = [keys |-> keys, raw |-> Compact(keys), boundaries |-> Boundaries(keys),
                  start |-> start, flavour |-> flavour]
  BY DEF Begun, TailTypes
<1>4. \A g \in Flavours : /\ QueryAt(pos, g).flavour = g /\ QueryAt(pos, g).raw = query.raw
                          /\ QueryAt(pos, g).start = pos /\ QueryAt(pos, g).boundaries = query.boundaries
  BY <1>3 DEF QueryAt, Flavours
<1>5. /\ QueryAt(pos, f).flavour = f /\ QueryAt(pos, f).raw = query.raw
      /\ QueryAt(pos, f).start = pos /\ QueryAt(pos, f).boundaries = query.boundaries
  BY <1>4
<1>6. \A g \in Flavours : SameKeys(QueryAt(pos, f), QueryAt(pos, g))
  BY <1>4 DEF SameKeys
<1>7. QueryOK(QueryAt(pos, f))
  <2>1. QueryOK(query) /\ N \in Nat /\ N = Len(query.raw)
    BY BegunQuery DEF N
  <2>2. pos \in Nat /\ pos < Len(query.raw)
    BY <2>1
  <2>3. QED
    BY <1>5, <2>1, <2>2 DEF QueryOK
<1>8. \A m \in matches[f][pos] : m \in MatchType /\ pos < m.pos /\ m.pos <= N
  BY <1>2, <1>5, <1>7, NeuralTypes DEF N
<1>9. QED
  BY <1>2, <1>5, <1>6, <1>7, <1>8

\* Exact matches are matches, and the unextended flavour loses none that
\* uses up the keys and predicts nothing.
LEMMA BegunFlavours ==
    ASSUME Begun, NEW pos \in 0 .. N - 1
    PROVE  /\ matches["exact"][pos] \subseteq matches["all"][pos]
           /\ \A m : m.pos = N /\ m.completion = 0 =>
                 (m \in matches["unextended"][pos] <=> m \in matches["all"][pos])
<1>1. "exact" \in Flavours /\ "all" \in Flavours /\ "unextended" \in Flavours
  BY DEF Flavours
<1>2. matches["exact"][pos] \subseteq matches["all"][pos]
  BY <1>1, BegunMatches, ExactWithinAll
<1>3. ASSUME NEW m, m.pos = N, m.completion = 0
      PROVE  m \in matches["unextended"][pos] <=> m \in matches["all"][pos]
  <2>1. m.pos = Len(QueryAt(pos, "all").raw)
    BY <1>1, <1>3, BegunMatches DEF N
  <2>2. m \in NeuralMatches(QueryAt(pos, "unextended")) <=> m \in NeuralMatches(QueryAt(pos, "all"))
    BY <1>1, <1>3, <2>1, BegunMatches, UnextendedSame
  <2>3. QED
    BY <1>1, <2>2, BegunMatches
<1>4. QED
  BY <1>2, <1>3

PathType == [text : Seq(STRING), reading : Nodes, tokens : Seq(Nat), predicted : Nat, matched : Nat]

\* A child is a path that has matched more.
LEMMA ChildTypes ==
    ASSUME Begun, NEW p \in PathType, p.matched < N,
           NEW m \in MatchType, p.matched < m.pos, m.pos <= N
    PROVE  /\ Child(p, m) \in PathType /\ Child(p, m).matched = m.pos
           /\ p.matched < Child(p, m).matched /\ Child(p, m).matched <= N
<1> DEFINE e == m.entry
<1>1. e \in Entries /\ m.pos \in Nat /\ m.completion \in Nat
  BY DEF MatchType
<1>2. e.syllables \in Nodes /\ e.tokens \in Seq(Nat) /\ e.text \in Seq(STRING)
  BY <1>1, EntryFacts, WalkAssumption
<1>3. PredictedBy(m) \in Nat
  BY <1>1 DEF PredictedBy
<1>4. /\ p.text \in Seq(STRING) /\ p.reading \in Nodes /\ p.tokens \in Seq(Nat) /\ p.predicted \in Nat
      /\ p.matched \in Nat
  BY DEF PathType
<1>5. /\ p.text \o e.text \in Seq(STRING) /\ p.reading \o e.syllables \in Nodes
      /\ p.tokens \o e.tokens \in Seq(Nat) /\ p.predicted + PredictedBy(m) \in Nat
  BY <1>2, <1>3, <1>4 DEF Nodes
<1>6. QED
  BY <1>1, <1>4, <1>5 DEF Child, PathType

\* The same for all children of a path.
LEMMA LongerFacts ==
    ASSUME Begun, NEW p \in PathType, p.matched < N
    PROVE  /\ \A c \in Longer(p, "all") : c \in PathType /\ p.matched < c.matched /\ c.matched <= N
           /\ Longer(p, "exact") \subseteq Longer(p, "all")
<1>1. "all" \in Flavours /\ p.matched \in 0 .. N - 1
  BY BegunQuery DEF Flavours, PathType
<1>2. \A m \in matches["all"][p.matched] : m \in MatchType /\ p.matched < m.pos /\ m.pos <= N
  BY <1>1, BegunMatches
<1>3. ASSUME NEW c \in Longer(p, "all")
      PROVE  c \in PathType /\ p.matched < c.matched /\ c.matched <= N
  <2>1. PICK m \in matches["all"][p.matched] : c = Child(p, m)
    BY DEF Longer
  <2>2. QED
    BY <1>2, <2>1, ChildTypes
<1>4. matches["exact"][p.matched] \subseteq matches["all"][p.matched]
  BY <1>1, BegunFlavours
<1>5. Longer(p, "exact") \subseteq Longer(p, "all")
  BY <1>4 DEF Longer
<1>6. QED
  BY <1>3, <1>5

\* The path no match was laid to yet.
LEMMA EmptyPathType ==
    EmptyPath \in PathType /\ EmptyPath.matched = 0 /\ EmptyPath.predicted = 0
BY DEF EmptyPath, PathType, Nodes

\* A path of k matches uses at least k letters, so N levels are all.
LEMMA LevelTypes ==
    ASSUME Begun
    PROVE  \A k \in 0 .. N : \A p \in Levels("all")[k] :
              p \in PathType /\ k <= p.matched /\ p.matched <= N
<1> DEFINE Fine(k) == \A p \in Levels("all")[k] : p \in PathType /\ k <= p.matched /\ p.matched <= N
           Bad == {k \in 0 .. N : ~Fine(k)}
<1>0. N \in Nat /\ N # 0
  BY BegunQuery
<1>1. SUFFICES ASSUME Bad # {} PROVE FALSE
  <2>1. Bad = {}
    BY <1>1
  <2>2. QED
    BY <2>1
<1>2. PICK k \in Bad : \A n \in Bad : k <= n
  <2>1. Bad \in SUBSET Nat
    BY <1>0
  <2> HIDE DEF Bad
  <2>2. QED
    BY <1>1, <2>1, LeastNatural
<1>3. k # 0
  <2>1. Levels("all")[0] = {EmptyPath}
    BY <1>0, LevelsStep
  <2>2. Fine(0)
    BY <1>0, <2>1, EmptyPathType
  <2>3. QED
    BY <2>2
<1>4. k - 1 \in 0 .. N /\ k - 1 \notin Bad /\ k \in 1 .. N
  BY <1>0, <1>2, <1>3
<1>5. Fine(k - 1)
  BY <1>4
<1>6. Fine(k)
  <2> SUFFICES ASSUME NEW c \in Levels("all")[k]
               PROVE  c \in PathType /\ k <= c.matched /\ c.matched <= N
    OBVIOUS
  <2>1. PICK p \in Levels("all")[k - 1] : p.matched < N /\ c \in Longer(p, "all")
    BY <1>0, <1>4, LevelsStep
  <2>2. p \in PathType /\ k - 1 <= p.matched
    BY <1>5, <2>1
  <2>3. c \in PathType /\ p.matched < c.matched /\ c.matched <= N
    BY <2>1, <2>2, LongerFacts
  <2>4. p.matched \in Nat /\ c.matched \in Nat
    BY <2>2, <2>3 DEF PathType
  <2>5. QED
    BY <1>4, <2>2, <2>3, <2>4
<1>7. QED
  BY <1>2, <1>6

\* Legal paths: their types, their children, and that those using up the
\* keys are what the index spells.
LEMMA LegalTypes ==
    ASSUME Begun
    PROVE  /\ \A p \in LegalPaths : p \in PathType /\ p.matched <= N
           /\ EmptyPath \in LegalPaths
           /\ \A p \in LegalPaths : p.matched < N => Longer(p, "all") \subseteq LegalPaths
           /\ \A p \in LegalPaths : p.matched = N => p \in Covers
<1>0. N \in Nat /\ N # 0
  BY BegunQuery
<1>1. \A p \in LegalPaths : p \in PathType /\ p.matched <= N
  BY LevelTypes DEF LegalPaths
<1>2. EmptyPath \in LegalPaths
  <2>1. EmptyPath \in Levels("all")[0] /\ 0 \in 0 .. N
    BY <1>0, LevelsStep
  <2>2. QED
    BY <2>1 DEF LegalPaths
<1>3. ASSUME NEW p \in LegalPaths, p.matched < N, NEW c \in Longer(p, "all") PROVE c \in LegalPaths
  <2>1. PICK k \in 0 .. N : p \in Levels("all")[k]
    BY DEF LegalPaths
  <2>2. p \in PathType /\ k <= p.matched
    BY <2>1, LevelTypes
  <2>3. k + 1 \in 1 .. N /\ k + 1 \in 0 .. N /\ (k + 1) - 1 = k
    BY <1>0, <1>3, <2>2 DEF PathType
  <2>4. c \in Levels("all")[k + 1]
    BY <1>0, <1>3, <2>1, <2>3, LevelsStep
  <2>5. QED
    BY <2>3, <2>4 DEF LegalPaths
<1>4. \A p \in LegalPaths : p.matched = N => p \in Covers
  BY DEF LegalPaths, Covers
<1>5. QED
  BY <1>1, <1>2, <1>3, <1>4

\* The roots are the paths of one match, or some of them.
LEMMA RootsAreFirst ==
    ASSUME Begun
    PROVE  /\ RootPaths(FALSE) = Longer(EmptyPath, "all") /\ RootPaths(TRUE) \subseteq Longer(EmptyPath, "all")
           /\ \A p \in RootPaths(TRUE) : \E m \in matches["exact"][0] : p = Child(EmptyPath, m)
<1>0. /\ N \in Nat /\ N # 0 /\ query.keys \in Seq(Letters \cup {Apostrophe})
      /\ N = Len(Compact(query.keys)) /\ query = QueryAt(0, "all")
  BY BegunQuery
<1>1. 0 \in 0 .. N - 1 /\ "all" \in Flavours /\ EmptyPath.matched = 0
  BY <1>0, EmptyPathType DEF Flavours
<1>2. Furthest(found) = matches["all"][0]
  <2>1. Furthest(found) = NeuralMatches(query)
    BY WalkInvBest DEF Begun, TailTypes, MatchesAreBest
  <2>2. matches["all"][0] = NeuralMatches(QueryAt(0, "all"))
    BY <1>1, BegunMatches
  <2>3. QED
    BY <1>0, <2>1, <2>2
<1>3. ASSUME NEW m \in matches["all"][0] PROVE RootPath(m) = Child(EmptyPath, m) /\ (Fits(m) => Allowed(RootPath(m)))
  <2>1. m \in MatchType /\ m.pos <= N /\ m.pos \in Nat /\ m.entry \in Entries
    BY <1>1, BegunMatches DEF MatchType
  <2>2. MatchedLetters(query.keys, RawCharactersForLetters(query.keys, m.pos)) = m.pos
    <3>1. m.pos \in 0 .. Len(Compact(query.keys))
      BY <1>0, <2>1
    <3>2. QED
      BY <1>0, <3>1, ConsumedRoundTrip
  <2> DEFINE e == m.entry
  <2>3. e.syllables \in Nodes /\ e.tokens \in Seq(Nat) /\ e.text \in Seq(STRING)
    BY <2>1, EntryFacts, WalkAssumption
  <2>4. <<>> \o e.text = e.text /\ <<>> \o e.syllables = e.syllables /\ <<>> \o e.tokens = e.tokens
    BY <2>3 DEF Nodes
  <2>5. PredictedBy(m) \in Nat /\ 0 + PredictedBy(m) = PredictedBy(m)
    BY <2>1 DEF PredictedBy, MatchType
  <2>6. RootPath(m) = Child(EmptyPath, m)
    BY <2>2, <2>4, <2>5 DEF RootPath, Child, EmptyPath
  <2>7. Fits(m) => Allowed(RootPath(m))
    BY DEF Fits, Allowed, RootPath
  <2>8. QED
    BY <2>6, <2>7
<1>4. \A m \in matches["all"][0] : Fits(m) <=> Fits(m) /\ Allowed(Child(EmptyPath, m))
  BY <1>3
<1>5. Longer(EmptyPath, "all") = {Child(EmptyPath, m) : m \in {n \in matches["all"][0] : Fits(n)}}
  BY <1>1, <1>4 DEF Longer
<1>6. RootPaths(FALSE) = {RootPath(m) : m \in {n \in matches["all"][0] : Fits(n)}}
  BY <1>2 DEF RootPaths
<1>7. RootPaths(TRUE) = {RootPath(m) : m \in {n \in matches["exact"][0] : Fits(n)}}
  BY DEF RootPaths
<1>8. matches["exact"][0] \subseteq matches["all"][0]
  BY <1>1, BegunFlavours
<1>9. QED
  BY <1>3, <1>5, <1>6, <1>7, <1>8

-----------------------------------------------------------------------------
(* A rest gives its seeds one by one. *)

\* The items pushed for a rest hold one of its seeds, and a rest with the others.
Pushed(items, r) ==
    \/ items = {} /\ Seeds(r) = {}
    \/ \E i, s : \E m \in Seeds(r) :
          /\ items = {i} /\ i.path = Child(r.parent, m) /\ i.rest = {s} /\ s.parent = r.parent
          /\ s.seeds \subseteq r.seeds \cup OrderedSuffixes(r.parent.matched, FALSE)
          /\ Seeds(r) \ {m} \subseteq Seeds(s)

\* push_child_head puts one seed into the heap and the others beside it, or
\* there was none.
LEMMA PushesOne == \A r : \A items \in PushChildHead(r) : Pushed(items, r)
<1> SUFFICES ASSUME NEW r, NEW items \in PushChildHead(r) PROVE Pushed(items, r)
  OBVIOUS
<1> DEFINE P == r.parent
           all == OrderedSuffixes(P.matched, FALSE)
           own == {m \in r.seeds : Allowed(Child(P, m))}
           tail == IF r.unextended THEN {m \in all : Allowed(Child(P, m))} ELSE {}
           at(m, seeds, u) == Item(Child(P, m), {Rest(P, seeds \ {m}, u)})
<1>1. Seeds(r) = own \cup tail
  BY DEF Seeds
<1>2. \/ own # {} /\ \E m \in own : items = {at(m, own, r.unextended)}
      \/ own = {} /\ \E m \in tail : items = {at(m, tail, FALSE)}
      \/ own = {} /\ tail = {} /\ items = {}
  BY DEF PushChildHead, Firsts
<1>3. CASE own # {} /\ \E m \in own : items = {at(m, own, r.unextended)}
  <2>1. PICK m \in own : items = {at(m, own, r.unextended)}
    BY <1>3
  <2>2. PICK s : s = Rest(P, own \ {m}, r.unextended)
    OBVIOUS
  <2>3. PICK i : i = at(m, own, r.unextended)
    OBVIOUS
  <2>4. s.parent = P /\ s.seeds = own \ {m} /\ s.unextended = r.unextended
    BY <2>2 DEF Rest
  <2>5. i.path = Child(P, m) /\ i.rest = {s} /\ items = {i}
    BY <2>1, <2>2, <2>3 DEF Item
  <2>6. Seeds(s) = {x \in (own \ {m}) \cup (IF r.unextended THEN all ELSE {}) : Allowed(Child(P, x))}
    BY <2>4 DEF Seeds
  <2>7. Seeds(r) \ {m} \subseteq Seeds(s)
    BY <1>1, <2>6
  <2>8. s.seeds \subseteq r.seeds \cup all /\ m \in Seeds(r)
    BY <1>1, <2>4
  <2>9. QED
    BY <2>4, <2>5, <2>7, <2>8 DEF Pushed
<1>4. CASE own = {} /\ \E m \in tail : items = {at(m, tail, FALSE)}
  <2>0. PICK no \in BOOLEAN : no = FALSE
    OBVIOUS
  <2>1. PICK m \in tail : items = {at(m, tail, no)}
    BY <1>4, <2>0
  <2>2. PICK s : s = Rest(P, tail \ {m}, no)
    OBVIOUS
  <2>3. PICK i : i = at(m, tail, no)
    OBVIOUS
  <2>4. s.parent = P /\ s.seeds = tail \ {m} /\ ~s.unextended
    BY <2>0, <2>2 DEF Rest
  <2>5. i.path = Child(P, m) /\ i.rest = {s} /\ items = {i}
    BY <2>1, <2>2, <2>3 DEF Item
  <2>6. Seeds(s) = {x \in tail \ {m} : Allowed(Child(P, x))}
    BY <2>4 DEF Seeds
  <2>7. Seeds(r) \ {m} \subseteq Seeds(s)
    BY <1>1, <1>4, <2>6
  <2>8. s.seeds \subseteq r.seeds \cup all /\ m \in Seeds(r)
    BY <1>1, <2>4
  <2>9. QED
    BY <2>4, <2>5, <2>7, <2>8 DEF Pushed
<1>5. CASE own = {} /\ tail = {} /\ items = {}
  BY <1>1, <1>5 DEF Pushed
<1>6. QED
  BY <1>2, <1>3, <1>4, <1>5

\* The same in the next state.
LEMMA PushesOneNext == (\A r : \A items \in PushChildHead(r) : Pushed(items, r))'
BY PushesOne, PTL

\* A rest is legal when its seeds are; then so are the items pushed for it.
LEMMA PushedLegal ==
    ASSUME Begun, NEW r, RestOK(r), NEW items, Pushed(items, r)
    PROVE  /\ \A i \in items : ItemOK(i)
           /\ \A m \in Seeds(r) : \E i \in items :
                 \/ i.path = Child(r.parent, m)
                 \/ \E s \in i.rest : s.parent = r.parent /\ m \in Seeds(s)
<1> DEFINE P == r.parent
           good == {m \in matches["all"][P.matched] : Fits(m)}
<1>1. /\ P \in LegalPaths /\ P \in PathType /\ P.matched < N /\ r.seeds \subseteq good
      /\ Longer(P, "all") \subseteq LegalPaths
  BY LegalTypes DEF RestOK
<1>2. OrderedSuffixes(P.matched, FALSE) \subseteq good
  BY DEF OrderedSuffixes
<1>3. \A m \in Seeds(r) : m \in good /\ Allowed(Child(P, m))
  BY <1>1, <1>2 DEF Seeds
<1>4. \A m \in Seeds(r) : Child(P, m) \in LegalPaths
  BY <1>1, <1>3 DEF Longer
<1>5. CASE items = {} /\ Seeds(r) = {}
  BY <1>5
<1>6. ASSUME NEW i, NEW s, NEW m \in Seeds(r),
             items = {i}, i.path = Child(P, m), i.rest = {s}, s.parent = P,
             s.seeds \subseteq r.seeds \cup OrderedSuffixes(P.matched, FALSE),
             Seeds(r) \ {m} \subseteq Seeds(s)
      PROVE  /\ ItemOK(i)
             /\ \A x \in Seeds(r) : x = m \/ x \in Seeds(s)
  <2>1. RestOK(s)
    BY <1>1, <1>2, <1>6 DEF RestOK
  <2>2. ItemOK(i)
    BY <1>4, <1>6, <2>1 DEF ItemOK
  <2>3. QED
    BY <1>6, <2>2
<1>7. QED
  BY <1>5, <1>6 DEF Pushed

\* The children of a path, as seeds of a rest.
LEMMA WholeRest ==
    ASSUME Begun, NEW p \in LegalPaths, p.matched < N,
           NEW r, r.parent = p, r.seeds = OrderedSuffixes(p.matched, TRUE), r.unextended
    PROVE  RestOK(r) /\ \A c \in Longer(p, "all") : \E m \in Seeds(r) : c = Child(p, m)
<1>0. p \in PathType /\ p.matched \in 0 .. N - 1
  BY LegalTypes, BegunQuery DEF PathType
<1>1. /\ \A m : m.pos = N /\ m.completion = 0 =>
            (m \in matches["unextended"][p.matched] <=> m \in matches["all"][p.matched])
  BY <1>0, BegunFlavours
<1>2. OrderedSuffixes(p.matched, TRUE) = {m \in matches["unextended"][p.matched] :
                                             Fits(m) /\ m.pos = N /\ m.completion = 0}
  BY DEF OrderedSuffixes
<1>3. OrderedSuffixes(p.matched, FALSE) = {m \in matches["all"][p.matched] :
                                             Fits(m) /\ ~(m.pos = N /\ m.completion = 0)}
  BY DEF OrderedSuffixes
<1>4. RestOK(r)
  BY <1>1, <1>2 DEF RestOK
<1>5. ASSUME NEW c \in Longer(p, "all") PROVE \E m \in Seeds(r) : c = Child(p, m)
  <2>1. PICK m \in matches["all"][p.matched] : Fits(m) /\ c = Child(p, m) /\ Allowed(Child(p, m))
    BY DEF Longer
  <2>2. m \in OrderedSuffixes(p.matched, TRUE) \cup OrderedSuffixes(p.matched, FALSE)
    BY <1>1, <1>2, <1>3, <2>1
  <2>3. m \in Seeds(r)
    BY <2>1, <2>2 DEF Seeds
  <2>4. QED
    BY <2>1, <2>3
<1>6. QED
  BY <1>4, <1>5

-----------------------------------------------------------------------------
(* The steps of the lexical walk. *)

\* Seeds and legality do not depend on the heap.
LEMMA SeedsFixed ==
    ASSUME query' = query, matches' = matches
    PROVE  /\ \A r : Seeds(r)' = Seeds(r)
           /\ \A r : RestOK(r)' <=> RestOK(r)
           /\ \A i : ItemOK(i)' <=> ItemOK(i)
<1>1. /\ N' = N /\ LegalPaths' = LegalPaths
      /\ \A p, m : Child(p, m)' = Child(p, m)
      /\ \A pos, b : OrderedSuffixes(pos, b)' = OrderedSuffixes(pos, b)
  BY InputsFixed
<1>2. \A r : Seeds(r)' = Seeds(r)
  BY <1>1 DEF Seeds, Allowed
<1>3. \A r : RestOK(r)' <=> RestOK(r)
  BY <1>1 DEF RestOK, Fits
<1>4. \A i : ItemOK(i)' <=> ItemOK(i)
  BY <1>1, <1>3 DEF ItemOK
<1>5. QED
  BY <1>2, <1>3, <1>4

\* Nothing that is due is lost if the heap, the roots set aside and the
\* states taken are accounted for.
LEMMA DueStays ==
    ASSUME query' = query, matches' = matches, taken \subseteq taken',
           \A p \in deferred : Due(StateKey(p))',
           \A i \in heap : Due(StateKey(i.path))',
           \A i \in heap : \A r \in i.rest : \A m \in Seeds(r) : \A c :
               c = Child(r.parent, m) => Due(StateKey(c))'
    PROVE  \A key : Due(key) => Due(key)'
<1> SUFFICES ASSUME NEW key, Due(key) PROVE Due(key)'
  OBVIOUS
<1>1. CASE key \in taken
  BY <1>1 DEF Due
<1>2. CASE \E p \in deferred : StateKey(p) = key
  BY <1>2
<1>3. CASE \E i \in heap : StateKey(i.path) = key
  BY <1>3
<1>4. CASE \E i \in heap : \E r \in i.rest : \E m \in Seeds(r) : StateKey(Child(r.parent, m)) = key
  <2>1. PICK i \in heap : \E r \in i.rest : \E m \in Seeds(r) : StateKey(Child(r.parent, m)) = key
    BY <1>4
  <2>2. PICK r \in i.rest : \E m \in Seeds(r) : StateKey(Child(r.parent, m)) = key
    BY <2>1
  <2>3. PICK m \in Seeds(r) : StateKey(Child(r.parent, m)) = key
    BY <2>2
  <2>4. PICK c : c = Child(r.parent, m)
    OBVIOUS
  <2>5. Due(StateKey(c))'
    BY <2>1, <2>2, <2>3, <2>4
  <2>6. QED
    BY <2>3, <2>4, <2>5
<1>5. QED
  BY <1>1, <1>2, <1>3, <1>4 DEF Due

\* What a step of the walk has to show.
LEMMA TailStep ==
    ASSUME WalkInv, TailInv, phase \in {"exact", "full"},
           UNCHANGED <<vars, inputVars, phase>>,
           existing \subseteq existing',
           existing' \subseteq existing \cup {c.text : c \in Covers},
           \A i \in heap' : ItemOK(i),
           deferred' \subseteq deferred,
           phase = "full" => /\ \A key : Due(key) => Due(key)'
                             /\ \A key \in taken' : key \in taken
                                   \/ \E p \in LegalPaths : StateKey(p) = key /\ PathDone(p)'
    PROVE  TailInv'
<1>1. /\ query' = query /\ stack' = stack /\ found' = found /\ matches' = matches /\ mode' = mode
      /\ pending' = pending /\ phase' = phase
  BY DEF vars, inputVars
<1>2. /\ N' = N /\ LegalPaths' = LegalPaths /\ Covers' = Covers
      /\ \A p, flavour : Longer(p, flavour)' = Longer(p, flavour)
      /\ \A i : ItemOK(i)' <=> ItemOK(i)
  BY <1>1, InputsFixed, SeedsFixed
<1>3. TailTypes'
  BY <1>1, <1>2 DEF TailInv, TailTypes, QueryAt
<1>4. TailSound'
  <2>1. phase # "matching"
    OBVIOUS
  <2>2. \A i \in heap' : ItemOK(i)'
    BY <1>2
  <2>3. deferred' \subseteq LegalPaths'
    BY <1>2, <2>1 DEF TailInv, TailSound
  <2>4. {c.text : c \in Range(pending)} \subseteq existing'
    BY <2>1 DEF TailInv, TailSound
  <2>5. existing' \subseteq {c.text : c \in Range(pending)} \cup {c.text : c \in Covers}
    BY <2>1 DEF TailInv, TailSound
  <2>6. QED
    BY <1>1, <1>2, <2>2, <2>3, <2>4, <2>5 DEF TailSound
<1>5. TailComplete'
  <2>1. CASE phase = "exact"
    BY <1>1, <2>1 DEF TailComplete
  <2>2. CASE phase = "full"
    <3>1. \A key : Due(key) => Due(key)'
      BY <2>2
    <3>2. RootPaths(FALSE)' = RootPaths(FALSE)
      <4>1. \A m : RootPath(m)' = RootPath(m)
        BY <1>1, <1>2 DEF RootPath, PredictedBy
      <4>2. QED
        BY <1>1, <4>1 DEF RootPaths, Fits
    <3>3. ASSUME NEW p \in RootPaths(FALSE) PROVE Due(StateKey(p))'
      <4>1. PICK key : key = StateKey(p)
        OBVIOUS
      <4>2. Due(key)
        BY <2>2, <4>1 DEF TailInv, TailComplete
      <4>3. QED
        BY <3>1, <4>1, <4>2
    <3>4. ASSUME NEW p, PathDone(p) PROVE PathDone(p)'
      <4>1. p.matched = N => p.text \in existing'
        BY <3>4 DEF PathDone
      <4>2. ASSUME p.matched # N, NEW c \in Longer(p, "all") PROVE Due(StateKey(c))'
        <5>1. PICK key : key = StateKey(c)
          OBVIOUS
        <5>2. Due(key)
          BY <3>4, <4>2, <5>1 DEF PathDone
        <5>3. QED
          BY <3>1, <5>1, <5>2
      <4>3. QED
        BY <1>2, <4>1, <4>2 DEF PathDone
    <3>5. ASSUME NEW key \in taken'
          PROVE  \E p \in LegalPaths : StateKey(p) = key /\ PathDone(p)'
      <4>1. CASE key \in taken
        <5>1. PICK p \in LegalPaths : StateKey(p) = key /\ PathDone(p)
          BY <2>2, <4>1 DEF TailInv, TailComplete
        <5>2. QED
          BY <3>4, <5>1
      <4>2. CASE key \notin taken
        BY <2>2, <4>2
      <4>3. QED
        BY <4>1, <4>2
    <3>6. phase' # "end"
      BY <1>1, <2>2
    <3>7. QED
      BY <1>1, <1>2, <3>2, <3>3, <3>5, <3>6 DEF TailComplete
  <2>3. QED
    BY <2>1, <2>2
<1>6. QED
  BY <1>3, <1>4, <1>5 DEF TailInv

\* The items an item taken off the heap leaves behind.
Left(items, i) ==
    \/ i.rest = {} /\ items = {}
    \/ \E r \in i.rest : Pushed(items, r)

\* What an item taken off the heap leaves behind are its siblings.
LEMMA LeavesRest == \A i : \A items \in PushRemaining(i) : Left(items, i)
BY PushesOne DEF PushRemaining, Left

\* The same when the siblings are pushed after the counts have grown.
LEMMA LeavesRestNext ==
    ASSUME query' = query, matches' = matches
    PROVE  \A i : \A items \in PushRemaining(i)' : Left(items, i)
<1>1. (\A i : \A items \in PushRemaining(i) : Left(items, i))'
  BY LeavesRest, PTL
<1>2. /\ \A r : Seeds(r)' = Seeds(r)
      /\ \A p, m : Child(p, m)' = Child(p, m)
      /\ \A pos, b : OrderedSuffixes(pos, b)' = OrderedSuffixes(pos, b)
  BY InputsFixed, SeedsFixed
<1>3. \A items, r : Pushed(items, r)' <=> Pushed(items, r)
  BY DEF Pushed, Seeds, Child, OrderedSuffixes, Allowed, PredictedBy, Fits, N
<1>4. \A items, i : Left(items, i)' <=> Left(items, i)
  BY <1>3 DEF Left
<1>5. QED
  BY <1>1, <1>4

\* The siblings left behind are legal and none of the seeds is dropped.
LEMMA LeftLegal ==
    ASSUME Begun, NEW i, ItemOK(i), NEW items, Left(items, i)
    PROVE  /\ \A j \in items : ItemOK(j)
           /\ \A r \in i.rest : \A m \in Seeds(r) : \E j \in items :
                 \/ j.path = Child(r.parent, m)
                 \/ \E s \in j.rest : s.parent = r.parent /\ m \in Seeds(s)
<1>1. CASE i.rest = {} /\ items = {}
  BY <1>1
<1>2. CASE \E r \in i.rest : Pushed(items, r)
  <2>1. PICK r \in i.rest : Pushed(items, r)
    BY <1>2
  <2>2. i.rest = {r} /\ RestOK(r)
    BY <2>1 DEF ItemOK
  <2>3. QED
    BY <2>1, <2>2, PushedLegal
<1>3. QED
  BY <1>1, <1>2 DEF Left

\* Taking an item off the heap loses nothing but its own path, and that is
\* taken, when what it leaves behind is pushed.
LEMMA PopDue ==
    ASSUME Begun, query' = query, matches' = matches,
           NEW i \in heap, ItemOK(i), NEW items, Left(items, i),
           items \subseteq heap', heap \ {i} \subseteq heap', deferred \subseteq deferred',
           taken \subseteq taken', StateKey(i.path) \in taken'
    PROVE  \A key : Due(key) => Due(key)'
<1>1. /\ \A r : Seeds(r)' = Seeds(r)
      /\ \A p, m : Child(p, m)' = Child(p, m)
  BY InputsFixed, SeedsFixed
<1>2. \A p \in deferred : Due(StateKey(p))'
  BY DEF Due
<1>3. ASSUME NEW j \in heap PROVE Due(StateKey(j.path))'
  <2>1. CASE j = i
    BY <2>1 DEF Due
  <2>2. CASE j # i
    <3>1. j \in heap'
      BY <2>2
    <3>2. QED
      BY <3>1 DEF Due
  <2>3. QED
    BY <2>1, <2>2
<1>4. ASSUME NEW j \in heap, NEW r \in j.rest, NEW m \in Seeds(r), NEW c, c = Child(r.parent, m)
      PROVE  Due(StateKey(c))'
  <2>1. CASE j # i
    <3>1. j \in heap' /\ m \in Seeds(r)' /\ c = Child(r.parent, m)'
      BY <1>1, <1>4, <2>1
    <3>2. QED
      BY <3>1 DEF Due
  <2>2. CASE j = i
    <3>1. PICK k \in items : \/ k.path = Child(r.parent, m)
                             \/ \E s \in k.rest : s.parent = r.parent /\ m \in Seeds(s)
      BY <2>2, LeftLegal
    <3>2. k \in heap'
      BY <3>1
    <3>3. CASE k.path = Child(r.parent, m)
      BY <1>4, <3>2, <3>3 DEF Due
    <3>4. CASE \E s \in k.rest : s.parent = r.parent /\ m \in Seeds(s)
      <4>1. PICK s \in k.rest : s.parent = r.parent /\ m \in Seeds(s)
        BY <3>4
      <4>2. m \in Seeds(s)' /\ c = Child(s.parent, m)'
        BY <1>1, <1>4, <4>1
      <4>3. QED
        BY <3>2, <4>1, <4>2 DEF Due
    <3>5. QED
      BY <3>1, <3>3, <3>4
  <2>3. QED
    BY <2>1, <2>2
<1>5. QED
  BY <1>2, <1>3, <1>4, DueStays

\* Roots set aside join the heap: they stay due.
LEMMA UndeferStep == WalkInv /\ TailInv /\ Undefer => TailInv'
<1> SUFFICES ASSUME WalkInv, TailInv, Undefer PROVE TailInv'
  OBVIOUS
<1>1. /\ phase \in {"exact", "full"} /\ UNCHANGED <<vars, inputVars, phase>>
      /\ UNCHANGED <<taken, existing>>
      /\ heap' = heap \cup {Item(p, {}) : p \in deferred} /\ deferred' = {}
  BY DEF Undefer
<1>2. query' = query /\ matches' = matches
  BY <1>1 DEF vars, inputVars
<1>3. (\A i \in heap : ItemOK(i)) /\ deferred \subseteq LegalPaths
  BY <1>1 DEF TailInv, TailSound
<1>4. \A p : Item(p, {}).path = p /\ Item(p, {}).rest = {}
  BY DEF Item
<1>5. \A i \in heap' : ItemOK(i)
  BY <1>1, <1>3, <1>4 DEF ItemOK
<1>6. \A key : Due(key) => Due(key)'
  <2>1. \A p \in deferred : Item(p, {}) \in heap'
    BY <1>1
  <2>2. \A p \in deferred : Due(StateKey(p))'
    <3> TAKE p \in deferred
    <3>1. PICK j \in heap' : j.path = p
      BY <1>4, <2>1
    <3>2. QED
      BY <3>1 DEF Due
  <2>3. \A i \in heap : i \in heap'
    BY <1>1
  <2>4. \A i \in heap : Due(StateKey(i.path))'
    BY <2>3 DEF Due
  <2>5. ASSUME NEW i \in heap, NEW r \in i.rest, NEW m \in Seeds(r), NEW c, c = Child(r.parent, m)
        PROVE  Due(StateKey(c))'
    <3>1. i \in heap' /\ m \in Seeds(r)' /\ c = Child(r.parent, m)'
      BY <1>2, <2>3, <2>5, InputsFixed, SeedsFixed
    <3>2. QED
      BY <3>1 DEF Due
  <2>6. QED
    BY <1>1, <1>2, <2>2, <2>4, <2>5, DueStays
<1>7. QED
  BY <1>1, <1>5, <1>6, TailStep

\* A stale item goes back with the same path and rest.
LEMMA RequeueStep ==
    ASSUME WalkInv, TailInv, NEW i \in heap, Requeue(i)
    PROVE  TailInv'
<1>1. /\ phase \in {"exact", "full"} /\ UNCHANGED <<vars, inputVars, phase>>
      /\ UNCHANGED <<deferred, taken, existing>>
  BY DEF Requeue, Popping
<1>2. query' = query /\ matches' = matches
  BY <1>1 DEF vars, inputVars
<1>3. PICK k : heap' = (heap \ {i}) \cup {k} /\ k.path = i.path /\ k.rest = i.rest
  <2>1. PICK k : k = Item(i.path, i.rest)
    OBVIOUS
  <2>2. heap' = (heap \ {i}) \cup {k}
    BY <2>1 DEF Requeue
  <2>3. k.path = i.path /\ k.rest = i.rest
    BY <2>1 DEF Item
  <2>4. QED
    BY <2>2, <2>3
<1>4. \A j \in heap : ItemOK(j)
  BY <1>1 DEF TailInv, TailSound
<1>5. ItemOK(k)
  BY <1>3, <1>4 DEF ItemOK
<1>6. \A j \in heap' : ItemOK(j)
  BY <1>3, <1>4, <1>5
<1>7. \A key : Due(key) => Due(key)'
  <2>1. \A p \in deferred : Due(StateKey(p))'
    BY <1>1 DEF Due
  <2>2. \A j \in heap : \E l \in heap' : l.path = j.path /\ l.rest = j.rest
    BY <1>3
  <2>3. \A j \in heap : Due(StateKey(j.path))'
    BY <2>2 DEF Due
  <2>4. ASSUME NEW j \in heap, NEW r \in j.rest, NEW m \in Seeds(r), NEW c, c = Child(r.parent, m)
        PROVE  Due(StateKey(c))'
    <3>1. PICK l \in heap' : l.rest = j.rest
      BY <2>2
    <3>2. r \in l.rest /\ m \in Seeds(r)' /\ c = Child(r.parent, m)'
      BY <1>2, <2>4, <3>1, InputsFixed, SeedsFixed
    <3>3. QED
      BY <3>1, <3>2 DEF Due
  <2>5. QED
    BY <1>1, <1>2, <2>1, <2>3, <2>4, DueStays
<1>8. QED
  BY <1>1, <1>6, <1>7, TailStep

\* A path skipped as visited leaves its siblings due.
LEMMA SkipStep ==
    ASSUME WalkInv, TailInv, NEW i \in heap, SkipVisited(i)
    PROVE  TailInv'
<1>1. /\ phase \in {"exact", "full"} /\ UNCHANGED <<vars, inputVars, phase>>
      /\ UNCHANGED <<deferred, taken, existing>> /\ StateKey(i.path) \in taken
  BY DEF SkipVisited, Popping
<1>2. query' = query /\ matches' = matches /\ Begun
  BY <1>1 DEF vars, inputVars, Begun, TailInv
<1>3. PICK items \in PushRemaining(i) : heap' = (heap \ {i}) \cup items
  BY DEF SkipVisited
<1>4. \A j \in heap : ItemOK(j)
  BY <1>1 DEF TailInv, TailSound
<1>5. Left(items, i)
  BY <1>3, LeavesRest
<1>6. \A j \in heap' : ItemOK(j)
  BY <1>2, <1>3, <1>4, <1>5, LeftLegal
<1>7. \A key : Due(key) => Due(key)'
  <2>1. items \subseteq heap' /\ heap \ {i} \subseteq heap'
    BY <1>3
  <2>2. QED
    BY <1>1, <1>2, <1>4, <1>5, <2>1, PopDue
<1>8. QED
  BY <1>1, <1>6, <1>7, TailStep

\* A path given to the caller is done and leaves its siblings due.
LEMMA YieldStep ==
    ASSUME WalkInv, TailInv, NEW i \in heap, Yield(i)
    PROVE  TailInv'
<1>1. /\ phase \in {"exact", "full"} /\ UNCHANGED <<vars, inputVars, phase>> /\ deferred' = deferred
      /\ i.path.matched = N
      /\ taken' = taken \cup {StateKey(i.path)} /\ existing' = existing \cup {i.path.text}
  BY DEF Yield, Popping
<1>2. query' = query /\ matches' = matches /\ Begun
  BY <1>1 DEF vars, inputVars, Begun, TailInv
<1>3. PICK items \in PushRemaining(i)' : heap' = (heap \ {i}) \cup items
  BY DEF Yield
<1>4. \A j \in heap : ItemOK(j)
  BY <1>1 DEF TailInv, TailSound
<1>5. Left(items, i)
  BY <1>2, <1>3, LeavesRestNext
<1>6. \A j \in heap' : ItemOK(j)
  BY <1>2, <1>3, <1>4, <1>5, LeftLegal
<1>7. \A key : Due(key) => Due(key)'
  <2>1. items \subseteq heap' /\ heap \ {i} \subseteq heap' /\ StateKey(i.path) \in taken'
    BY <1>1, <1>3
  <2>2. QED
    BY <1>1, <1>2, <1>4, <1>5, <2>1, PopDue
<1>8. i.path \in LegalPaths /\ i.path \in Covers
  BY <1>1, <1>2, <1>4, LegalTypes DEF ItemOK
<1>9. PathDone(i.path)'
  <2>1. N' = N
    BY <1>2, InputsFixed
  <2>2. QED
    BY <1>1, <2>1 DEF PathDone
<1>10. existing' \subseteq existing \cup {c.text : c \in Covers}
  BY <1>1, <1>8
<1>11. \A key \in taken' : key \in taken \/ \E p \in LegalPaths : StateKey(p) = key /\ PathDone(p)'
  BY <1>1, <1>8, <1>9
<1>12. QED
  BY <1>1, <1>6, <1>7, <1>10, <1>11, TailStep

\* The children pushed for a path are legal; along all readings none is left out.
LEMMA ExpandsAll ==
    ASSUME Begun, NEW p \in LegalPaths, p.matched < N, NEW children \in Expand(p)
    PROVE  /\ \A j \in children : ItemOK(j)
           /\ phase = "full" => \A c \in Longer(p, "all") : \E j \in children :
                 \/ j.path = c
                 \/ \E s \in j.rest : \E m \in Seeds(s) : c = Child(s.parent, m)
<1>1. CASE mode = "exact"
  <2>1. PICK f \in {"exact", "all"} : /\ children = {Item(c, {}) : c \in Longer(p, f)}
                                      /\ phase = "full" => f = "all"
    BY <1>1 DEF Expand
  <2>2. p \in PathType /\ Longer(p, "all") \subseteq LegalPaths
    BY LegalTypes
  <2>3. Longer(p, f) \subseteq LegalPaths
    BY <2>1, <2>2, LongerFacts
  <2>4. \A c : Item(c, {}).path = c /\ Item(c, {}).rest = {}
    BY DEF Item
  <2>5. \A j \in children : ItemOK(j)
    BY <2>1, <2>3, <2>4 DEF ItemOK
  <2>6. QED
    BY <2>1, <2>4, <2>5
<1>2. CASE mode # "exact"
  <2>0. PICK yes \in BOOLEAN : yes = TRUE
    OBVIOUS
  <2>1. PICK r : r = Rest(p, OrderedSuffixes(p.matched, TRUE), yes)
    OBVIOUS
  <2>2. r.parent = p /\ r.seeds = OrderedSuffixes(p.matched, TRUE) /\ r.unextended
    BY <2>0, <2>1 DEF Rest
  <2>3. children \in PushChildHead(r)
    BY <1>2, <2>0, <2>1 DEF Expand
  <2>4. Pushed(children, r)
    BY <2>3, PushesOne
  <2>5. RestOK(r) /\ \A c \in Longer(p, "all") : \E m \in Seeds(r) : c = Child(p, m)
    BY <2>2, WholeRest
  <2>6. /\ \A j \in children : ItemOK(j)
        /\ \A m \in Seeds(r) : \E j \in children :
              \/ j.path = Child(r.parent, m)
              \/ \E s \in j.rest : s.parent = r.parent /\ m \in Seeds(s)
    BY <2>4, <2>5, PushedLegal
  <2>7. ASSUME NEW c \in Longer(p, "all")
        PROVE  \E j \in children : \/ j.path = c
                                   \/ \E s \in j.rest : \E m \in Seeds(s) : c = Child(s.parent, m)
    <3>1. PICK m \in Seeds(r) : c = Child(p, m)
      BY <2>5
    <3>2. PICK j \in children : \/ j.path = Child(r.parent, m)
                                \/ \E s \in j.rest : s.parent = r.parent /\ m \in Seeds(s)
      BY <2>6
    <3>3. QED
      BY <2>2, <3>1, <3>2
  <2>8. QED
    BY <2>6, <2>7
<1>3. QED
  BY <1>1, <1>2

\* A shorter path leaves its siblings and its children due.
LEMMA WidenStep ==
    ASSUME WalkInv, TailInv, NEW i \in heap, Widen(i)
    PROVE  TailInv'
<1>1. /\ phase \in {"exact", "full"} /\ UNCHANGED <<vars, inputVars, phase>>
      /\ UNCHANGED <<deferred, existing>> /\ i.path.matched < N
      /\ taken' = taken \cup {StateKey(i.path)}
  BY DEF Widen, Popping
<1>2. query' = query /\ matches' = matches /\ Begun
  BY <1>1 DEF vars, inputVars, Begun, TailInv
<1>3. PICK siblings \in PushRemaining(i), children \in Expand(i.path) :
         heap' = (heap \ {i}) \cup siblings \cup children
  BY DEF Widen
<1>4. \A j \in heap : ItemOK(j)
  BY <1>1 DEF TailInv, TailSound
<1>5. Left(siblings, i)
  BY <1>3, LeavesRest
<1>6. i.path \in LegalPaths
  BY <1>4 DEF ItemOK
<1>7. /\ \A j \in children : ItemOK(j)
      /\ phase = "full" => \A c \in Longer(i.path, "all") : \E j \in children :
            \/ j.path = c
            \/ \E s \in j.rest : \E m \in Seeds(s) : c = Child(s.parent, m)
  BY <1>1, <1>2, <1>3, <1>6, ExpandsAll
<1>8. \A j \in siblings : ItemOK(j)
  BY <1>2, <1>4, <1>5, LeftLegal
<1>9. \A j \in heap' : ItemOK(j)
  BY <1>3, <1>4, <1>7, <1>8
<1>10. \A key : Due(key) => Due(key)'
  <2>1. siblings \subseteq heap' /\ heap \ {i} \subseteq heap' /\ StateKey(i.path) \in taken'
    BY <1>1, <1>3
  <2>2. QED
    BY <1>1, <1>2, <1>4, <1>5, <2>1, PopDue
<1>11. ASSUME phase = "full" PROVE PathDone(i.path)'
  <2>1. /\ N' = N /\ Longer(i.path, "all")' = Longer(i.path, "all")
        /\ \A p, m : Child(p, m)' = Child(p, m) /\ \A r : Seeds(r)' = Seeds(r)
    BY <1>2, InputsFixed, SeedsFixed
  <2>2. N \in Nat /\ i.path.matched # N'
    BY <1>1, <1>2, <2>1, BegunQuery
  <2>3. ASSUME NEW c \in Longer(i.path, "all") PROVE Due(StateKey(c))'
    <3>1. PICK j \in children : \/ j.path = c
                                \/ \E s \in j.rest : \E m \in Seeds(s) : c = Child(s.parent, m)
      BY <1>7, <1>11
    <3>2. j \in heap'
      BY <1>3
    <3>3. CASE j.path = c
      BY <3>2, <3>3 DEF Due
    <3>4. CASE \E s \in j.rest : \E m \in Seeds(s) : c = Child(s.parent, m)
      <4>1. PICK s \in j.rest : \E m \in Seeds(s) : c = Child(s.parent, m)
        BY <3>4
      <4>2. PICK m \in Seeds(s) : c = Child(s.parent, m)
        BY <4>1
      <4>3. m \in Seeds(s)' /\ c = Child(s.parent, m)'
        BY <2>1, <4>2
      <4>4. QED
        BY <3>2, <4>1, <4>3 DEF Due
    <3>5. QED
      BY <3>1, <3>3, <3>4
  <2>4. QED
    BY <2>1, <2>2, <2>3 DEF PathDone
<1>12. existing \subseteq existing' /\ existing' \subseteq existing \cup {c.text : c \in Covers}
       /\ deferred' \subseteq deferred
  BY <1>1
<1>13. phase = "full" =>
         \A key \in taken' : key \in taken \/ \E p \in LegalPaths : StateKey(p) = key /\ PathDone(p)'
  BY <1>1, <1>6, <1>11
<1>14. QED
  BY <1>1, <1>9, <1>10, <1>12, <1>13, TailStep

\* What PushRoots makes of the heap and the roots set aside.
RootsPushed ==
    deferred = Aside /\ heap = {Item(p, {}) : p \in RootPaths(phase = "exact") \ Aside}

RootsFine ==
    /\ \A i \in heap : ItemOK(i)
    /\ deferred \subseteq LegalPaths
    /\ phase = "full" => \A p \in RootPaths(FALSE) : Due(StateKey(p))

\* Once the roots are pushed or set aside, all of them are due.
LEMMA RootsStart == Begun /\ RootsPushed => RootsFine
<1> SUFFICES ASSUME Begun, RootsPushed PROVE RootsFine
  OBVIOUS
<1>1. /\ RootPaths(FALSE) = Longer(EmptyPath, "all") /\ RootPaths(TRUE) \subseteq Longer(EmptyPath, "all")
      /\ Longer(EmptyPath, "all") \subseteq LegalPaths
  <2>1. EmptyPath.matched < N
    BY EmptyPathType, BegunQuery
  <2>2. QED
    BY <2>1, RootsAreFirst, LegalTypes
<1>2. PICK roots : roots = RootPaths(phase = "exact")
  OBVIOUS
<1>3. roots = RootPaths(FALSE) \/ (roots = RootPaths(TRUE) /\ phase = "exact")
  <2>1. CASE phase = "exact"
    <3>1. (phase = "exact") = TRUE
      BY <2>1
    <3>2. QED
      BY <1>2, <2>1, <3>1 DEF RootPaths
  <2>2. CASE phase # "exact"
    <3>1. (phase = "exact") = FALSE
      BY <2>2
    <3>2. QED
      BY <1>2, <3>1 DEF RootPaths
  <2>3. QED
    BY <2>1, <2>2
<1>4. Aside \subseteq roots /\ deferred = Aside /\ heap = {Item(p, {}) : p \in roots \ Aside}
  BY <1>2 DEF Aside, RootsPushed
<1>5. \A p : Item(p, {}).path = p /\ Item(p, {}).rest = {}
  BY DEF Item
<1>6. roots \subseteq LegalPaths
  BY <1>1, <1>3
<1>7. \A i \in heap : ItemOK(i)
  BY <1>4, <1>5, <1>6 DEF ItemOK
<1>8. \A p \in roots : Due(StateKey(p))
  BY <1>4, <1>5 DEF Due
<1>9. QED
  BY <1>3, <1>4, <1>6, <1>7, <1>8 DEF RootsFine

\* The same in the next state.
LEMMA RootsStartNext == (Begun /\ RootsPushed => RootsFine)'
BY RootsStart, PTL

\* The walk begins with all roots due.
LEMMA BeginStep == WalkInv /\ TailInv /\ Begin => TailInv'
<1> SUFFICES ASSUME WalkInv, TailInv, Begin PROVE TailInv'
  OBVIOUS
<1>1. /\ phase = "matching" /\ stack = <<>> /\ query.start = 0 /\ query.flavour = "all"
      /\ UNCHANGED vars /\ taken' = taken
      /\ matches' = [f \in Flavours |-> [p \in 0 .. (N - 1) |->
                        NeuralMatches([query EXCEPT !.start = p, !.flavour = f])]]
      /\ existing' = {c.text : c \in Range(pending')}
      /\ phase' = IF mode' = "exact" /\ N > 1 THEN "exact" ELSE "full"
      /\ PushRoots
  BY DEF Begin
<1>2. query' = query /\ stack' = stack
  BY <1>1 DEF vars
<1>3. TailTypes'
  <2>1. N' = N
    BY <1>2 DEF N
  <2>2. \A p, f : QueryAt(p, f)' = QueryAt(p, f)
    BY <1>2 DEF QueryAt
  <2>3. matches' = [f \in Flavours |-> [p \in 0 .. (N - 1) |-> NeuralMatches(QueryAt(p, f))]]
    BY <1>1 DEF QueryAt
  <2>4. /\ phase' \in {"exact", "full"} /\ phase' # "matching" /\ phase' \in {"matching", "exact", "full", "end"}
        /\ phase' = "exact" => mode' = "exact"
    BY <1>1
  <2>5. \E keys \in Keys, start \in 0 .. (MaxKeys - 1), flavour \in Flavours :
          query' = [keys |-> keys, raw |-> Compact(keys), boundaries |-> Boundaries(keys),
                   start |-> start, flavour |-> flavour]
    BY <1>2 DEF TailInv, TailTypes
  <2>6. stack' = <<>> /\ query'.start = 0 /\ query'.flavour = "all"
    BY <1>1, <1>2
  <2>7. matches' = [f \in Flavours |-> [p \in 0 .. (N' - 1) |-> NeuralMatches(QueryAt(p, f)')]]
    BY <2>1, <2>2, <2>3
  <2>8. QED
    BY <2>4, <2>5, <2>6, <2>7 DEF TailTypes
<1>4. WalkInv'
  BY <1>1, WalkInvStep
<1>5. Begun' /\ phase' \in {"exact", "full"}
  BY <1>1, <1>3, <1>4 DEF Begun
<1>6. RootsFine'
  BY <1>1, <1>5, RootsStartNext DEF PushRoots, RootsPushed
<1>7. taken' = {}
  BY <1>1 DEF TailInv, TailTypes
<1>8. TailSound'
  BY <1>1, <1>6 DEF TailSound, RootsFine
<1>9. TailComplete'
  BY <1>5, <1>6, <1>7 DEF TailComplete, RootsFine
<1>10. QED
  BY <1>3, <1>8, <1>9 DEF TailInv

\* The second walk forgets what the inner one visited, and begins again.
LEMMA SecondWalkStep == WalkInv /\ TailInv /\ SecondWalk => TailInv'
<1> SUFFICES ASSUME WalkInv, TailInv, SecondWalk PROVE TailInv'
  OBVIOUS
<1>1. /\ phase = "exact" /\ phase' = "full" /\ taken' = {} /\ UNCHANGED <<vars, inputVars, existing>>
      /\ PushRoots
  BY DEF SecondWalk
<1>2. /\ query' = query /\ stack' = stack /\ matches' = matches /\ mode' = mode /\ pending' = pending
      /\ existing' = existing
  BY <1>1 DEF vars, inputVars
<1>3. N' = N /\ Covers' = Covers
  BY <1>2, InputsFixed
<1>4. TailTypes'
  BY <1>1, <1>2, <1>3 DEF TailInv, TailTypes, QueryAt
<1>5. WalkInv'
  BY <1>1, WalkInvStep
<1>6. RootsFine'
  BY <1>1, <1>4, <1>5, RootsStartNext DEF PushRoots, RootsPushed, Begun
<1>7. /\ {c.text : c \in Range(pending)} \subseteq existing
      /\ existing \subseteq {c.text : c \in Range(pending)} \cup {c.text : c \in Covers}
  BY <1>1 DEF TailInv, TailSound
<1>8. TailSound'
  BY <1>2, <1>3, <1>6, <1>7 DEF TailSound, RootsFine
<1>9. TailComplete'
  BY <1>1, <1>6 DEF TailComplete, RootsFine
<1>10. QED
  BY <1>4, <1>8, <1>9 DEF TailInv

\* The end of the walk, or no step at all.
LEMMA EndStep ==
    ASSUME WalkInv, TailInv, UNCHANGED <<vars, inputVars, heap, deferred, taken, existing>>,
           phase' = phase \/ End
    PROVE  TailInv'
<1>1. /\ query' = query /\ stack' = stack /\ found' = found /\ matches' = matches /\ mode' = mode
      /\ pending' = pending /\ heap' = heap /\ deferred' = deferred /\ taken' = taken
      /\ existing' = existing
  BY DEF vars, inputVars
<1>2. /\ N' = N /\ LegalPaths' = LegalPaths /\ Covers' = Covers
      /\ \A p, flavour : Longer(p, flavour)' = Longer(p, flavour)
      /\ \A p, m : Child(p, m)' = Child(p, m)
      /\ \A i : ItemOK(i)' <=> ItemOK(i)
      /\ \A r : Seeds(r)' = Seeds(r)
  BY <1>1, InputsFixed, SeedsFixed
<1>3. \A key : Due(key)' <=> Due(key)
  BY <1>1, <1>2 DEF Due
<1>4. \A p : PathDone(p)' <=> PathDone(p)
  <2> TAKE p
  <2>1. CASE p.matched = N
    BY <1>1, <1>2, <2>1 DEF PathDone
  <2>2. CASE p.matched # N
    <3>1. \A c : Due(StateKey(c))' <=> Due(StateKey(c))
      <4> TAKE c
      <4>1. PICK key : key = StateKey(c)
        OBVIOUS
      <4>2. QED
        BY <1>3, <4>1
    <3>2. QED
      BY <1>2, <2>2, <3>1 DEF PathDone
  <2>3. QED
    BY <2>1, <2>2
<1>5. RootPaths(FALSE)' = RootPaths(FALSE)
  <2>1. \A m : RootPath(m)' = RootPath(m)
    BY <1>1, <1>2 DEF RootPath, PredictedBy
  <2>2. QED
    BY <1>1, <2>1 DEF RootPaths, Fits
<1>6. /\ phase' = phase \/ (phase = "full" /\ phase' = "end" /\ heap = {} /\ deferred = {})
  BY DEF End
<1>7. TailTypes'
  BY <1>1, <1>2, <1>6 DEF TailInv, TailTypes, QueryAt
<1>8. TailSound'
  BY <1>1, <1>2, <1>6 DEF TailInv, TailSound
<1>9. TailComplete'
  <2>1. ASSUME phase' \in {"full", "end"}
        PROVE  /\ \A p \in RootPaths(FALSE)' : Due(StateKey(p))'
               /\ \A key \in taken' : \E p \in LegalPaths' : StateKey(p) = key /\ PathDone(p)'
    <3>1. /\ \A p \in RootPaths(FALSE) : Due(StateKey(p))
          /\ \A key \in taken : \E p \in LegalPaths : StateKey(p) = key /\ PathDone(p)
      BY <1>6, <2>1 DEF TailInv, TailComplete
    <3>2. \A p \in RootPaths(FALSE) : Due(StateKey(p))'
      <4> TAKE p \in RootPaths(FALSE)
      <4>1. PICK key : key = StateKey(p)
        OBVIOUS
      <4>2. QED
        BY <1>3, <3>1, <4>1
    <3>3. QED
      BY <1>1, <1>2, <1>4, <1>5, <3>1, <3>2
  <2>2. phase' = "end" => heap' = {} /\ deferred' = {}
    BY <1>1, <1>6 DEF TailInv, TailComplete
  <2>3. QED
    BY <2>1, <2>2 DEF TailComplete
<1>10. QED
  BY <1>7, <1>8, <1>9 DEF TailInv

\* The trie walk leaves the heap alone.
LEMMA MatchingStep == WalkInv /\ TailInv /\ Matching => TailInv'
<1> SUFFICES ASSUME WalkInv, TailInv, Matching PROVE TailInv'
  OBVIOUS
<1>1. Next /\ UNCHANGED walkVars
  BY DEF Matching
<1>2. /\ UNCHANGED <<inputVars, heap, deferred, taken, existing>> /\ phase' = phase
  BY <1>1 DEF walkVars
<1>3. CASE UNCHANGED vars
  BY <1>2, <1>3, EndStep
<1>4. CASE Visit
  <2>1. query' = query /\ stack # <<>> /\ phase = "matching"
    BY <1>4 DEF Visit, TailInv, TailTypes
  <2>2. TailTypes'
    BY <1>2, <2>1 DEF TailInv, TailTypes, inputVars
  <2>3. TailSound' /\ TailComplete'
    BY <1>2, <2>1 DEF TailSound, TailComplete
  <2>4. QED
    BY <2>2, <2>3 DEF TailInv
<1>5. QED
  BY <1>1, <1>3, <1>4 DEF Next, Done

\* Every step of the walk.
LEMMA TailInvStep == WalkInv /\ TailInv /\ [WalkNext]_allVars => WalkInv' /\ TailInv'
<1> SUFFICES ASSUME WalkInv, TailInv, [WalkNext]_allVars PROVE WalkInv' /\ TailInv'
  OBVIOUS
<1>1. WalkInv'
  <2>1. [Next]_vars
    BY DEF WalkNext, Matching, Begin, SecondWalk, Undefer, Requeue, SkipVisited, Yield, Widen, End, allVars
  <2>2. QED
    BY <2>1, WalkInvStep
<1>2. CASE Matching
  BY <1>1, <1>2, MatchingStep
<1>3. CASE Begin
  BY <1>1, <1>3, BeginStep
<1>4. CASE SecondWalk
  BY <1>1, <1>4, SecondWalkStep
<1>5. CASE Undefer
  BY <1>1, <1>5, UndeferStep
<1>6. CASE \E i \in heap : Requeue(i) \/ SkipVisited(i) \/ Yield(i) \/ Widen(i)
  <2>1. PICK i \in heap : Requeue(i) \/ SkipVisited(i) \/ Yield(i) \/ Widen(i)
    BY <1>6
  <2>2. QED
    BY <1>1, <2>1, RequeueStep, SkipStep, YieldStep, WidenStep
<1>7. CASE End
  <2>1. UNCHANGED <<vars, inputVars, heap, deferred, taken, existing>>
    BY <1>7 DEF End
  <2>2. QED
    BY <1>1, <1>7, <2>1, EndStep
<1>8. CASE UNCHANGED allVars
  <2>1. UNCHANGED <<vars, inputVars, heap, deferred, taken, existing>> /\ phase' = phase
    BY <1>8 DEF allVars, walkVars
  <2>2. QED
    BY <1>1, <2>1, EndStep
<1>9. QED
  BY <1>2, <1>3, <1>4, <1>5, <1>6, <1>7, <1>8 DEF WalkNext

\* Before the walk nothing is due.
LEMMA TailInvInit == WalkInit => WalkInv /\ TailInv
<1> SUFFICES ASSUME WalkInit PROVE WalkInv /\ TailInv
  OBVIOUS
<1>1. Init /\ phase = "matching" /\ taken = {}
  BY DEF WalkInit
<1>2. TailTypes
  BY <1>1 DEF Init, TailTypes
<1>3. TailSound /\ TailComplete
  BY <1>1 DEF TailSound, TailComplete
<1>4. QED
  BY <1>1, <1>2, <1>3, WalkInvInit DEF TailInv

-----------------------------------------------------------------------------
(* The end of the lexical walk. *)

\* The tokens of an entry stand for its text: both decode to the same bytes,
\* piece by piece, and no two texts have the same bytes.
TokensSpellText(detokenized, encoded) ==
    /\ detokenized[<<>>] = encoded[<<>>]
    /\ \A s, t \in Seq(Nat) : detokenized[s \o t] = detokenized[s] \o detokenized[t]
    /\ \A s, t \in Seq(STRING) : encoded[s \o t] = encoded[s] \o encoded[t]
    /\ \A s, t \in Seq(STRING) : encoded[s] = encoded[t] => s = t
    /\ \A e \in Entries : detokenized[e.tokens] = encoded[e.text]

\* Legal paths of the same tokens have the same text.
LEMMA SameTokensSameText ==
    ASSUME Begun, NEW detokenized, NEW encoded, TokensSpellText(detokenized, encoded)
    PROVE  \A p, q \in LegalPaths : p.tokens = q.tokens => p.text = q.text
<1> DEFINE Fine(k) == \A p \in Levels("all")[k] : detokenized[p.tokens] = encoded[p.text]
           Bad == {k \in 0 .. N : ~Fine(k)}
<1>0. N \in Nat /\ N # 0
  BY BegunQuery
<1>1. Bad = {}
  <2> SUFFICES ASSUME Bad # {} PROVE FALSE
    OBVIOUS
  <2>1. PICK k \in Bad : \A n \in Bad : k <= n
    <3>1. Bad \in SUBSET Nat
      BY <1>0
    <3> HIDE DEF Bad
    <3>2. QED
      BY <3>1, LeastNatural
  <2>2. k # 0
    <3>1. Levels("all")[0] = {EmptyPath}
      BY <1>0, LevelsStep
    <3>2. EmptyPath.tokens = <<>> /\ EmptyPath.text = <<>>
      BY DEF EmptyPath
    <3>3. Fine(0)
      BY <3>1, <3>2 DEF TokensSpellText
    <3>4. QED
      BY <3>3
  <2>3. k - 1 \in 0 .. N /\ k - 1 \notin Bad /\ k \in 1 .. N
    BY <1>0, <2>1, <2>2
  <2>4. Fine(k - 1)
    BY <2>3
  <2>5. ASSUME NEW c \in Levels("all")[k] PROVE detokenized[c.tokens] = encoded[c.text]
    <3>1. PICK p \in Levels("all")[k - 1] : p.matched < N /\ c \in Longer(p, "all")
      BY <1>0, <2>3, LevelsStep
    <3>2. p \in PathType /\ detokenized[p.tokens] = encoded[p.text] /\ p.matched \in 0 .. N - 1
      BY <1>0, <2>3, <2>4, <3>1, LevelTypes DEF PathType
    <3>3. PICK m \in matches["all"][p.matched] : c = Child(p, m)
      BY <3>1 DEF Longer
    <3>4. "all" \in Flavours
      BY DEF Flavours
    <3>5. m \in MatchType
      BY <3>2, <3>3, <3>4, BegunMatches
    <3> DEFINE e == m.entry
    <3>6. e \in Entries /\ e.tokens \in Seq(Nat) /\ e.text \in Seq(STRING)
      BY <3>5, WalkAssumption DEF MatchType
    <3>7. p.tokens \in Seq(Nat) /\ p.text \in Seq(STRING)
      BY <3>2 DEF PathType
    <3>8. c.tokens = p.tokens \o e.tokens /\ c.text = p.text \o e.text
      BY <3>3 DEF Child
    <3>9. detokenized[p.tokens \o e.tokens] = detokenized[p.tokens] \o detokenized[e.tokens]
      BY <3>6, <3>7 DEF TokensSpellText
    <3>10. encoded[p.text \o e.text] = encoded[p.text] \o encoded[e.text]
      BY <3>6, <3>7 DEF TokensSpellText
    <3>11. detokenized[e.tokens] = encoded[e.text]
      BY <3>6 DEF TokensSpellText
    <3> HIDE DEF e
    <3>12. QED
      BY <3>2, <3>8, <3>9, <3>10, <3>11
  <2>6. QED
    BY <2>1, <2>5
<1>2. \A p \in LegalPaths : detokenized[p.tokens] = encoded[p.text] /\ p.text \in Seq(STRING)
  BY <1>1, LegalTypes DEF LegalPaths, PathType
<1>3. QED
  BY <1>2 DEF TokensSpellText

\* Exact readings are readings.
LEMMA ExactLevels ==
    ASSUME Begun
    PROVE  \A k \in 0 .. N : Levels("exact")[k] \subseteq Levels("all")[k]
<1> DEFINE Bad == {k \in 0 .. N : ~(Levels("exact")[k] \subseteq Levels("all")[k])}
<1>0. N \in Nat /\ N # 0
  BY BegunQuery
<1> SUFFICES ASSUME Bad # {} PROVE FALSE
  OBVIOUS
<1>1. PICK k \in Bad : \A n \in Bad : k <= n
  <2>1. Bad \in SUBSET Nat
    BY <1>0
  <2> HIDE DEF Bad
  <2>2. QED
    BY <2>1, LeastNatural
<1>2. k # 0
  <2>1. Levels("all")[0] = {EmptyPath} /\ Levels("exact")[0] = {EmptyPath}
    BY <1>0, LevelsStep
  <2>2. QED
    BY <1>1, <2>1
<1>3. k - 1 \in 0 .. N /\ k - 1 \notin Bad /\ k \in 1 .. N
  BY <1>0, <1>1, <1>2
<1>4. ASSUME NEW c \in Levels("exact")[k] PROVE c \in Levels("all")[k]
  <2>1. PICK p \in Levels("exact")[k - 1] : p.matched < N /\ c \in Longer(p, "exact")
    BY <1>0, <1>3, LevelsStep
  <2>2. p \in Levels("all")[k - 1]
    BY <1>3, <2>1
  <2>3. p \in PathType
    BY <1>3, <2>2, LevelTypes
  <2>4. c \in Longer(p, "all")
    BY <2>1, <2>3, LongerFacts
  <2>5. QED
    BY <1>0, <1>3, <2>1, <2>2, <2>4, LevelsStep
<1>5. QED
  BY <1>1, <1>4

\* At the end every path of at least one match was taken, or another one in
\* its state.
LEMMA AllTaken ==
    ASSUME WalkInv, TailInv, phase = "end",
           NEW detokenized, NEW encoded, TokensSpellText(detokenized, encoded)
    PROVE  \A k \in 1 .. N : \A p \in Levels("all")[k] : StateKey(p) \in taken
<1> DEFINE Fine(k) == \A p \in Levels("all")[k] : StateKey(p) \in taken
           Bad == {k \in 1 .. N : ~Fine(k)}
<1>0. Begun
  BY DEF Begun, TailInv
<1>1. N \in Nat /\ N # 0
  BY <1>0, BegunQuery
<1>2. \A key : Due(key) => key \in taken
  BY DEF TailInv, TailComplete, Due
<1> SUFFICES ASSUME Bad # {} PROVE FALSE
  OBVIOUS
<1>3. PICK k \in Bad : \A n \in Bad : k <= n
  <2>1. Bad \in SUBSET Nat
    BY <1>1
  <2> HIDE DEF Bad
  <2>2. QED
    BY <2>1, LeastNatural
<1>4. k \in 1 .. N /\ k - 1 \in 0 .. N
  BY <1>1, <1>3
<1>5. CASE k = 1
  <2>1. k - 1 = 0 /\ Levels("all")[0] = {EmptyPath}
    BY <1>1, <1>5, LevelsStep
  <2>2. ASSUME NEW p \in Levels("all")[k] PROVE StateKey(p) \in taken
    <3>1. PICK q \in Levels("all")[k - 1] : p \in Longer(q, "all")
      BY <1>1, <1>4, LevelsStep
    <3>2. p \in RootPaths(FALSE)
      BY <1>0, <2>1, <3>1, RootsAreFirst
    <3>3. Due(StateKey(p))
      BY <3>2 DEF TailInv, TailComplete
    <3>4. QED
      BY <1>2, <3>3
  <2>3. QED
    BY <1>3, <2>2
<1>6. CASE k # 1
  <2>1. k - 1 \in 1 .. N /\ k - 1 \notin Bad
    BY <1>1, <1>3, <1>4, <1>6
  <2>2. Fine(k - 1)
    BY <2>1
  <2>3. ASSUME NEW c \in Levels("all")[k] PROVE StateKey(c) \in taken
    <3>1. PICK p \in Levels("all")[k - 1] : p.matched < N /\ c \in Longer(p, "all")
      BY <1>1, <1>4, LevelsStep
    <3>2. p \in LegalPaths
      BY <1>4, <3>1 DEF LegalPaths
    <3>3. PICK q \in LegalPaths : StateKey(q) = StateKey(p) /\ PathDone(q)
      <4>1. PICK key : key = StateKey(p)
        OBVIOUS
      <4>2. key \in taken
        BY <2>2, <3>1, <4>1
      <4>3. QED
        BY <4>1, <4>2 DEF TailInv, TailComplete
    <3>4. q.tokens = p.tokens /\ q.matched = p.matched /\ q.predicted = p.predicted
      BY <3>3 DEF StateKey
    <3>5. q.text = p.text
      BY <1>0, <3>2, <3>3, <3>4, SameTokensSameText
    <3>6. PICK m \in matches["all"][p.matched] : Fits(m) /\ c = Child(p, m) /\ Allowed(c)
      BY <3>1 DEF Longer
    <3>7. PICK d : d = Child(q, m)
      OBVIOUS
    <3>8. /\ d.tokens = c.tokens /\ d.text = c.text /\ d.matched = c.matched
          /\ d.predicted = c.predicted
      BY <3>4, <3>5, <3>6, <3>7 DEF Child
    <3>9. Allowed(d) /\ StateKey(d) = StateKey(c)
      BY <3>6, <3>8 DEF Allowed, StateKey
    <3>10. d \in Longer(q, "all")
      BY <3>4, <3>6, <3>7, <3>9 DEF Longer
    <3>11. q.matched # N
      BY <1>1, <3>1, <3>4
    <3>12. Due(StateKey(d))
      BY <3>3, <3>10, <3>11 DEF PathDone
    <3>13. QED
      BY <1>2, <3>9, <3>12
  <2>4. QED
    BY <1>3, <2>3
<1>7. QED
  BY <1>5, <1>6

\* An empty heap and nothing set aside: every legal path was taken, so every
\* text was given.
LEMMA EndsComplete ==
    ASSUME WalkInv, TailInv, NEW detokenized, NEW encoded, TokensSpellText(detokenized, encoded)
    PROVE  WalkLosesNothing
<1> SUFFICES ASSUME phase = "end"
             PROVE  existing = {c.text : c \in Range(pending)} \cup {c.text : c \in Covers}
  BY DEF WalkLosesNothing
<1>0. Begun
  BY DEF Begun, TailInv
<1>1. N \in Nat /\ N # 0
  BY <1>0, BegunQuery
<1>2. /\ {c.text : c \in Range(pending)} \subseteq existing
      /\ existing \subseteq {c.text : c \in Range(pending)} \cup {c.text : c \in Covers}
  BY DEF TailInv, TailSound
<1>3. ASSUME NEW c \in Covers PROVE c.text \in existing
  <2>1. c.matched = N /\ \E f \in {"all", "exact"} : \E k \in 0 .. N : c \in Levels(f)[k]
    BY DEF Covers
  <2>2. PICK k \in 0 .. N : c \in Levels("all")[k]
    BY <1>0, <2>1, ExactLevels
  <2>3. k \in 1 .. N
    <3>1. k # 0
      BY <1>1, <2>1, <2>2, LevelsStep, EmptyPathType
    <3>2. QED
      BY <3>1
  <2>4. c \in LegalPaths
    BY <2>2 DEF LegalPaths
  <2>5. PICK p \in LegalPaths : StateKey(p) = StateKey(c) /\ PathDone(p)
    <3>1. PICK key : key = StateKey(c)
      OBVIOUS
    <3>2. key \in taken
      BY <2>2, <2>3, <3>1, AllTaken
    <3>3. QED
      BY <3>1, <3>2 DEF TailInv, TailComplete
  <2>6. p.tokens = c.tokens /\ p.matched = N
    BY <2>1, <2>5 DEF StateKey
  <2>7. p.text = c.text
    BY <1>0, <2>4, <2>5, <2>6, SameTokensSameText
  <2>8. QED
    BY <2>5, <2>6, <2>7 DEF PathDone
<1>4. QED
  BY <1>2, <1>3

\* The lexical walk is a walk of the trie and more.
THEOREM WalkMatchesBest == WalkSpec => []MatchesAreBest
<1>1. WalkInit => WalkInv /\ TailInv
  BY TailInvInit
<1>2. WalkInv /\ TailInv /\ [WalkNext]_allVars => WalkInv' /\ TailInv'
  BY TailInvStep
<1>3. WalkInv => MatchesAreBest
  BY WalkInvBest
<1>4. QED
  BY <1>1, <1>2, <1>3, PTL DEF WalkSpec

\* When the generator of _iter_lexical_completion_candidates stops, it has
\* given every text the index spells at the keys and no other, for every
\* index whose tokens decode to the texts, every list of model candidates to
\* start with, and every order the priorities leave open: setting roots
\* aside, requeueing stale items, skipping visited states and leaving
\* siblings as a rest lose nothing.
THEOREM WalkGivesAll ==
    ASSUME NEW detokenized, NEW encoded, TokensSpellText(detokenized, encoded)
    PROVE  WalkSpec => []WalkLosesNothing
<1>1. WalkInit => WalkInv /\ TailInv
  BY TailInvInit
<1>2. WalkInv /\ TailInv /\ [WalkNext]_allVars => WalkInv' /\ TailInv'
  BY TailInvStep
<1>3. WalkInv /\ TailInv => WalkLosesNothing
  BY EndsComplete
<1>4. QED
  BY <1>1, <1>2, <1>3, PTL DEF WalkSpec

-----------------------------------------------------------------------------
(* The letters of a reading. *)

\* f holds the letters of the first syllables of s, up to n.
Flattens(f, s, n) == f = [i \in 1 .. n |-> IF i = 1 THEN s[i] ELSE f[i - 1] \o s[i]]

\* There is such an f.
LEMMA FlattensExist ==
    ASSUME NEW s
    PROVE  \A n \in Nat : \E f : Flattens(f, s, n)
<1> DEFINE Bad == {n \in Nat : ~\E f : Flattens(f, s, n)}
           E(f, i) == IF i = 1 THEN s[i] ELSE f[i - 1] \o s[i]
<1> SUFFICES ASSUME Bad # {} PROVE FALSE
  OBVIOUS
<1>1. PICK n \in Bad : \A k \in Bad : n <= k
  BY LeastNatural
<1>2. n # 0
  <2>1. Flattens([i \in 1 .. 0 |-> 0], s, 0)
    BY DEF Flattens
  <2>2. QED
    BY <2>1
<1>3. n - 1 \in Nat /\ n - 1 \notin Bad
  BY <1>1, <1>2
<1>4. PICK f : f = [i \in 1 .. n - 1 |-> E(f, i)]
  BY <1>3 DEF Flattens
<1>5. PICK g : g = [i \in 1 .. n |-> E(f, i)]
  OBVIOUS
<1>6. \A i \in 1 .. n - 1 : g[i] = f[i]
  <2> HIDE DEF E
  <2>1. QED
    BY <1>1, <1>3, <1>4, <1>5
<1>7. \A i \in 1 .. n : i # 1 => i - 1 \in 1 .. n - 1
  BY <1>1, <1>3
<1>8. \A i \in 1 .. n : E(f, i) = E(g, i)
  BY <1>6, <1>7
<1>9. g = [i \in 1 .. n |-> E(g, i)]
  <2> HIDE DEF E
  <2>1. QED
    BY <1>5, <1>8
<1>10. QED
  BY <1>1, <1>9 DEF Flattens

\* FlattenSeq computes it.
LEMMA FlattenUnfolds ==
    ASSUME NEW s \in Nodes
    PROVE  /\ Len(s) = 0 => FlattenSeq(s) = <<>>
           /\ Len(s) # 0 => \E f : Flattens(f, s, Len(s)) /\ FlattenSeq(s) = f[Len(s)]
<1> DEFINE f == CHOOSE h : h = [i \in 1 .. Len(s) |-> IF i = 1 THEN s[i] ELSE h[i - 1] \o s[i]]
<1>1. Len(s) \in Nat
  BY DEF Nodes
<1>2. PICK g : Flattens(g, s, Len(s))
  BY <1>1, FlattensExist
<1>3. f = [i \in 1 .. Len(s) |-> IF i = 1 THEN s[i] ELSE f[i - 1] \o s[i]]
  BY <1>2 DEF Flattens
<1>4. Len(s) # 0 => FlattenSeq(s) = f[Len(s)]
  BY DEF FlattenSeq
<1>5. Len(s) = 0 => FlattenSeq(s) = <<>>
  BY EmptySeq DEF FlattenSeq, Nodes
<1> HIDE DEF f
<1>6. Flattens(f, s, Len(s))
  BY <1>3 DEF Flattens
<1>7. QED
  BY <1>4, <1>5, <1>6

\* The letters of a reading are letters; one more syllable adds its own.
LEMMA FlattenStep ==
    ASSUME NEW s \in Nodes, NEW x \in Texts
    PROVE  /\ FlattenSeq(s) \in Texts
           /\ FlattenSeq(Append(s, x)) = FlattenSeq(s) \o x
<1> DEFINE len == Len(s)
<1>t. PICK t : t = Append(s, x)
  OBVIOUS
<1>0. /\ len \in Nat /\ t \in Nodes /\ Len(t) = len + 1 /\ Len(t) # 0 /\ t[len + 1] = x
      /\ \A i \in 1 .. len : t[i] = s[i] /\ s[i] \in Texts
  BY <1>t DEF Nodes
<1>1. CASE len = 0
  <2>1. FlattenSeq(s) = <<>> /\ <<>> \in Texts
    BY <1>1, FlattenUnfolds DEF Texts
  <2>2. PICK g : Flattens(g, t, Len(t)) /\ FlattenSeq(t) = g[Len(t)]
    BY <1>0, FlattenUnfolds
  <2>3. Len(t) = 1 /\ g[1] = t[1] /\ t[1] = x
    BY <1>0, <1>1, <2>2 DEF Flattens
  <2>4. <<>> \o x = x
    BY DEF Texts
  <2>5. QED
    BY <1>t, <2>1, <2>2, <2>3, <2>4
<1>2. CASE len # 0
  <2>1. PICK f : Flattens(f, s, len) /\ FlattenSeq(s) = f[len]
    BY <1>2, FlattenUnfolds
  <2>2. PICK g : Flattens(g, t, Len(t)) /\ FlattenSeq(t) = g[Len(t)]
    BY <1>0, FlattenUnfolds
  <2> DEFINE Bad == {i \in 1 .. len : ~(f[i] = g[i] /\ f[i] \in Texts)}
  <2>3. Bad = {}
    <3> SUFFICES ASSUME Bad # {} PROVE FALSE
      OBVIOUS
    <3>1. PICK i \in Bad : \A j \in Bad : i <= j
      <4>1. Bad \in SUBSET Nat
        BY <1>0
      <4> HIDE DEF Bad
      <4>2. QED
        BY <4>1, LeastNatural
    <3>2. i \in 1 .. len /\ i \in 1 .. Len(t)
      BY <1>0, <3>1
    <3>3. /\ f[i] = IF i = 1 THEN s[i] ELSE f[i - 1] \o s[i]
          /\ g[i] = IF i = 1 THEN t[i] ELSE g[i - 1] \o t[i]
      BY <2>1, <2>2, <3>2 DEF Flattens
    <3>4. CASE i = 1
      BY <1>0, <3>1, <3>2, <3>3, <3>4
    <3>5. CASE i # 1
      <4>1. i - 1 \in 1 .. len /\ i - 1 \notin Bad
        BY <1>0, <3>1, <3>2, <3>5
      <4>2. f[i - 1] = g[i - 1] /\ f[i - 1] \in Texts
        BY <4>1
      <4>3. f[i - 1] \o s[i] \in Texts
        BY <1>0, <3>2, <4>2 DEF Texts
      <4>4. QED
        BY <1>0, <3>1, <3>2, <3>3, <3>5, <4>2, <4>3
    <3>6. QED
      BY <3>4, <3>5
  <2>4. f[len] = g[len] /\ f[len] \in Texts
    <3>1. len \in 1 .. len
      BY <1>0, <1>2
    <3>2. QED
      BY <2>3, <3>1
  <2>5. g[len + 1] = g[len] \o x
    <3>1. len + 1 \in 1 .. Len(t) /\ len + 1 # 1 /\ (len + 1) - 1 = len
      BY <1>0, <1>2
    <3> HIDE DEF len
    <3>2. g[len + 1] = g[(len + 1) - 1] \o t[len + 1]
      BY <2>2, <3>1 DEF Flattens
    <3>3. QED
      BY <1>0, <3>1, <3>2
  <2>6. QED
    BY <1>0, <1>t, <2>1, <2>2, <2>4, <2>5
<1>3. QED
  BY <1>1, <1>2

\* Joining texts is associative.
LEMMA TextsJoin == \A x, y, z \in Texts : (x \o y) \o z = x \o (y \o z)
<1> SUFFICES ASSUME NEW x \in Texts, NEW y \in Texts, NEW z \in Texts
             PROVE  (x \o y) \o z = x \o (y \o z)
  OBVIOUS
<1>1. x \in Seq(Letters) /\ y \in Seq(Letters) /\ z \in Seq(Letters)
  BY DEF Texts
<1>2. QED
  BY <1>1, ConcatAssociative

\* The letters of two readings in a row.
LEMMA FlattenConcat ==
    ASSUME NEW s \in Nodes
    PROVE  \A t \in Nodes : FlattenSeq(s \o t) = FlattenSeq(s) \o FlattenSeq(t)
<1> DEFINE Fine(t) == FlattenSeq(s \o t) = FlattenSeq(s) \o FlattenSeq(t)
           Bad == {n \in Nat : \E t \in Nodes : Len(t) = n /\ ~Fine(t)}
<1>1. Bad = {}
  <2> SUFFICES ASSUME Bad # {} PROVE FALSE
    OBVIOUS
  <2>1. PICK n \in Bad : \A k \in Bad : n <= k
    <3>1. Bad \in SUBSET Nat
      OBVIOUS
    <3> HIDE DEF Bad
    <3>2. QED
      BY <3>1, LeastNatural
  <2>2. PICK t \in Nodes : Len(t) = n /\ ~Fine(t)
    BY <2>1
  <2>3. <<>> \in Texts /\ FlattenSeq(s) \in Texts
    <3>1. <<>> \in Texts
      BY DEF Texts
    <3>2. QED
      BY <3>1, FlattenStep
  <2>4. n # 0
    <3> SUFFICES ASSUME n = 0 PROVE FALSE
      OBVIOUS
    <3>1. t = <<>> /\ FlattenSeq(t) = <<>>
      BY <2>2, FlattenUnfolds, EmptySeq DEF Nodes
    <3>2. s \o <<>> = s /\ FlattenSeq(s) \o <<>> = FlattenSeq(s)
      BY <2>3, ConcatEmptySeq DEF Nodes, Texts
    <3>3. QED
      BY <2>2, <3>1, <3>2
  <2>5. PICK u \in Nodes, x \in Texts : t = Append(u, x) /\ Len(u) = n - 1
    <3>1. t # <<>>
      BY <2>2, <2>4
    <3>2. n \in Nat /\ 1 \in 1 .. Len(t) /\ n \in 1 .. Len(t) /\ t[n] \in Texts
      BY <2>1, <2>2, <2>4 DEF Nodes
    <3>3. PICK u : u = SubSeq(t, 1, n - 1)
      OBVIOUS
    <3>4. u \in Nodes /\ Len(u) = n - 1
      <4>1. \A i \in 1 .. n - 1 : t[i] \in Texts
        BY <2>2, <3>2 DEF Nodes
      <4>2. SubSeq(t, 1, n - 1) \in Seq(Texts) /\ Len(SubSeq(t, 1, n - 1)) = IF 1 <= n - 1 THEN (n - 1) - 1 + 1 ELSE 0
        BY <3>2, <4>1, SubSeqProperties
      <4>3. QED
        BY <2>4, <3>2, <3>3, <4>2 DEF Nodes
    <3>5. t = u \o <<t[n]>>
      BY <2>2, <3>2, <3>3, SubSeqFull, SubSeqRecursiveSecond DEF Nodes
    <3>6. u \o <<t[n]>> = Append(u, t[n])
      BY <3>2, <3>4, AppendIsConcat DEF Nodes
    <3>7. QED
      BY <3>2, <3>4, <3>5, <3>6
  <2>6. n - 1 \in Nat /\ n - 1 \notin Bad
    BY <2>1, <2>4
  <2>7. Fine(u)
    BY <2>5, <2>6
  <2>8. s \o t = Append(s \o u, x) /\ s \o u \in Nodes
    BY <2>5 DEF Nodes
  <2>9. FlattenSeq(s \o t) = FlattenSeq(s \o u) \o x
    BY <2>8, FlattenStep
  <2>10. FlattenSeq(t) = FlattenSeq(u) \o x /\ FlattenSeq(u) \in Texts
    BY <2>5, FlattenStep
  <2>11. (FlattenSeq(s) \o FlattenSeq(u)) \o x = FlattenSeq(s) \o (FlattenSeq(u) \o x)
    BY <2>3, <2>5, <2>10, TextsJoin
  <2>12. QED
    BY <2>2, <2>7, <2>9, <2>10, <2>11
<1>2. ASSUME NEW t \in Nodes PROVE Fine(t)
  <2>1. Len(t) \in Nat
    BY DEF Nodes
  <2>2. QED
    BY <1>1, <2>1
<1>3. QED
  BY <1>2

\* The letters of the first k syllables of an entry.
LettersOf(e, k) == FlattenSeq(SubSeq(e.syllables, 1, k))

\* A reading uses no more letters than its syllables have; an exact one uses
\* them all.
LEMMA ReadLetters ==
    ASSUME NEW q, QueryOK(q), NEW e \in Entries
    PROVE  \A k \in 0 .. Len(e.syllables) : \A r \in Readings(q, e)[k] :
              /\ LettersOf(e, k) \in Texts /\ r.pos - q.start <= Len(LettersOf(e, k))
              /\ q.flavour = "exact" => LettersOf(e, k) = SubSeq(q.raw, q.start + 1, r.pos)
<1> DEFINE Flat(k) == LettersOf(e, k)
           Fine(k) == \A r \in Readings(q, e)[k] :
                         /\ Flat(k) \in Texts /\ r.pos - q.start <= Len(Flat(k))
                         /\ q.flavour = "exact" => Flat(k) = SubSeq(q.raw, q.start + 1, r.pos)
           Bad == {k \in 0 .. Len(e.syllables) : ~Fine(k)}
<1>0. /\ Len(e.syllables) \in Nat /\ e.syllables \in Nodes
      /\ Len(q.raw) \in Nat /\ q.start \in Nat /\ q.start < Len(q.raw) /\ q.raw \in Seq(Letters)
  BY EntryFacts DEF QueryOK
<1>1. Bad = {}
  <2> SUFFICES ASSUME Bad # {} PROVE FALSE
    OBVIOUS
  <2>1. PICK k \in Bad : \A j \in Bad : k <= j
    <3>1. Bad \in SUBSET Nat
      BY <1>0
    <3> HIDE DEF Bad
    <3>2. QED
      BY <3>1, LeastNatural
  <2>k. k \in 0 .. Len(e.syllables) /\ k \in Nat
    BY <1>0, <2>1
  <2>2. k # 0
    <3> SUFFICES ASSUME k = 0 PROVE FALSE
      OBVIOUS
    <3>1. SubSeq(e.syllables, 1, 0) = <<>>
      BY SubSeqEmpty
    <3>2. <<>> \in Nodes /\ Len(<<>>) = 0
      BY DEF Nodes
    <3>3. Flat(0) = <<>> /\ <<>> \in Texts
      <4>1. FlattenSeq(<<>>) = <<>>
        BY <3>2, FlattenUnfolds
      <4>2. LettersOf(e, 0) = <<>>
        BY <3>1, <4>1 DEF LettersOf
      <4>3. <<>> \in Texts
        BY DEF Texts
      <4>4. QED
        BY <4>2, <4>3
    <3>4. \A r \in Readings(q, e)[0] : r.pos = q.start
      BY ReadingsStep DEF Reading
    <3>5. SubSeq(q.raw, q.start + 1, q.start) = <<>>
      BY <1>0, SubSeqEmpty
    <3> HIDE DEF Flat
    <3>6. ASSUME NEW r \in Readings(q, e)[0]
          PROVE  /\ Flat(0) \in Texts /\ r.pos - q.start <= Len(Flat(0))
                 /\ Flat(0) = SubSeq(q.raw, q.start + 1, r.pos)
      <4>1. r.pos = q.start /\ r.pos - q.start = 0
        BY <1>0, <3>4
      <4>2. Len(Flat(0)) = 0
        BY <3>2, <3>3
      <4>3. Flat(0) = SubSeq(q.raw, q.start + 1, r.pos)
        BY <3>3, <3>5, <4>1
      <4>4. Flat(0) \in Texts
        BY <3>3
      <4>5. r.pos - q.start <= Len(Flat(0))
        BY <4>1, <4>2
      <4>6. QED
        BY <4>3, <4>4, <4>5
    <3>7. Fine(0)
      BY <3>6
    <3>8. QED
      BY <2>1, <3>7
  <2>3. k \in 1 .. Len(e.syllables) /\ k - 1 \in 0 .. Len(e.syllables) /\ k - 1 \notin Bad
    <3>1. k - 1 \in Nat /\ ~(k <= k - 1)
      BY <2>k, <2>2
    <3>2. k \in 1 .. Len(e.syllables) /\ k - 1 \in 0 .. Len(e.syllables)
      BY <1>0, <2>k, <2>2
    <3>3. QED
      BY <2>1, <3>1, <3>2
  <2>4. Fine(k - 1)
    BY <2>3
  <2> DEFINE s == e.syllables[k]
  <2>5. s \in Texts /\ Len(s) \in Nat \ {0}
    BY <2>3, EntryFacts
  <2>6. PICK r \in Readings(q, e)[k] :
           ~(/\ Flat(k) \in Texts /\ r.pos - q.start <= Len(Flat(k))
             /\ q.flavour = "exact" => Flat(k) = SubSeq(q.raw, q.start + 1, r.pos))
    BY <2>1
  <2>7. PICK b \in Readings(q, e)[k - 1] : b.pos < Len(q.raw) /\ r \in Steps(q, s, b)
    BY <2>3, ReadingsStep
  <2>8. b \in ReadingType /\ q.start <= b.pos /\ b.pos \in Nat
    BY <2>3, ReadingsTypes DEF ReadingType
  <2>9. /\ Flat(k - 1) \in Texts /\ b.pos - q.start <= Len(Flat(k - 1))
        /\ q.flavour = "exact" => Flat(k - 1) = SubSeq(q.raw, q.start + 1, b.pos)
    BY <2>4, <2>7
  <2>10. Flat(k) = Flat(k - 1) \o s /\ Flat(k) \in Texts
    <3>1. 1 \in 1 .. Len(e.syllables) /\ k \in 1 .. Len(e.syllables)
      BY <1>0, <2>3
    <3>2. SubSeq(e.syllables, 1, k) = SubSeq(e.syllables, 1, k - 1) \o <<s>>
      BY <1>0, <3>1, SubSeqRecursiveSecond DEF Nodes
    <3>3. PICK u : u = SubSeq(e.syllables, 1, k - 1)
      OBVIOUS
    <3>4. u \in Nodes
      <4>1. \A i \in 1 .. k - 1 : e.syllables[i] \in Texts
        <5>1. \A i \in 1 .. k - 1 : i \in 1 .. Len(e.syllables)
          BY <1>0, <2>k
        <5>2. QED
          BY <5>1, EntryFacts
      <4>2. QED
        BY <2>k, <3>3, <4>1, SubSeqProperties DEF Nodes
    <3>5. u \o <<s>> = Append(u, s)
      BY <2>5, <3>4, AppendIsConcat DEF Nodes
    <3>6. FlattenSeq(Append(u, s)) = FlattenSeq(u) \o s
      BY <2>5, <3>4, FlattenStep
    <3>7. Flat(k) = Flat(k - 1) \o s
      BY <3>2, <3>3, <3>5, <3>6 DEF LettersOf
    <3> HIDE DEF Flat, s
    <3>8. Flat(k - 1) \o s \in Texts
      BY <2>5, <2>9 DEF Texts
    <3>9. QED
      BY <3>7, <3>8
  <2> HIDE DEF Flat, s
  <2>11. Len(Flat(k)) = Len(Flat(k - 1)) + Len(s) /\ Len(Flat(k - 1)) \in Nat
    BY <2>5, <2>9, <2>10 DEF Texts
  <2>12. \/ ReadsWhole(q, s, b.pos) /\ r.pos = b.pos + Len(s)
         \/ ReadsInitial(q, s, b.pos) /\ r.pos = b.pos + 1
         \/ ReadsUnfinished(q, s, b.pos) /\ r.pos = Len(q.raw)
    BY <2>7, StepCases DEF Reading
  <2>13. r.pos - q.start <= Len(Flat(k))
    <3>1. ReadsUnfinished(q, s, b.pos) => Len(q.raw) - b.pos < Len(s)
      BY DEF ReadsUnfinished
    <3>2. b.pos \in Nat /\ q.start \in Nat /\ Len(s) \in Nat /\ Len(s) >= 1 /\ Len(q.raw) \in Nat
      BY <1>0, <2>5, <2>8
    <3>3. r.pos - q.start <= (b.pos - q.start) + Len(s)
      <4>1. \/ r.pos = b.pos + Len(s) \/ r.pos = b.pos + 1
            \/ r.pos = Len(q.raw) /\ Len(q.raw) - b.pos < Len(s)
        BY <2>12, <3>1
      <4>2. QED
        BY <3>2, <4>1
    <3>4. r.pos \in Nat
      <4>1. r.pos = b.pos + Len(s) \/ r.pos = b.pos + 1 \/ r.pos = Len(q.raw)
        BY <2>12
      <4>2. \A x, y \in Nat : x + y \in Nat
        OBVIOUS
      <4>3. QED
        BY <3>2, <4>1, <4>2
    <3>5. QED
      BY <2>9, <2>11, <3>2, <3>3, <3>4
  <2>14. ASSUME q.flavour = "exact" PROVE Flat(k) = SubSeq(q.raw, q.start + 1, r.pos)
    <3>1. /\ r.pos = b.pos + Len(s) /\ b.pos + Len(s) <= Len(q.raw)
          /\ s = SubSeq(q.raw, b.pos + 1, b.pos + Len(s))
      BY <2>12, <2>14 DEF ReadsInitial, ReadsUnfinished, ReadsWhole, StartsWith
    <3>2. /\ q.start + 1 \in 1 .. Len(q.raw) + 1 /\ b.pos \in (q.start + 1) - 1 .. Len(q.raw)
          /\ r.pos \in b.pos .. Len(q.raw)
      <4>1. b.pos \in Nat /\ Len(s) \in Nat /\ r.pos \in Nat /\ q.start <= b.pos
        BY <2>5, <2>8, <3>1
      <4>2. q.start + 1 \in 1 .. Len(q.raw) + 1
        <5>1. Len(q.raw) \in Nat /\ q.start \in Nat /\ q.start < Len(q.raw)
          BY <1>0
        <5>2. \A x, y \in Nat : x < y => x + 1 \in 1 .. y + 1
          OBVIOUS
        <5>3. QED
          BY <5>1, <5>2
      <4>3. b.pos \in (q.start + 1) - 1 .. Len(q.raw)
        BY <1>0, <2>7, <4>1
      <4>4. r.pos \in b.pos .. Len(q.raw)
        BY <1>0, <3>1, <4>1
      <4>5. QED
        BY <4>2, <4>3, <4>4
    <3>3. SubSeq(q.raw, q.start + 1, b.pos) \o SubSeq(q.raw, b.pos + 1, r.pos)
             = SubSeq(q.raw, q.start + 1, r.pos)
      BY <1>0, <3>2, ConcatAdjacentSubSeq
    <3>4. QED
      BY <2>9, <2>10, <2>14, <3>1, <3>3
  <2>15. QED
    BY <2>6, <2>10, <2>13, <2>14
<1>2. QED
  BY <1>1

\* So does a match.
LEMMA MatchLetters ==
    ASSUME NEW q, QueryOK(q), NEW m \in NeuralMatches(q)
    PROVE  LET letters == FlattenSeq(m.entry.syllables)
           IN  /\ letters \in Texts /\ m.pos - q.start <= Len(letters)
               /\ q.flavour = "exact" => letters = SubSeq(q.raw, q.start + 1, m.pos)
<1>1. PICK e \in Entries : m \in MatchesOf(q, e)
  BY NeuralOf DEF Furthest
<1>2. e.syllables \in Nodes /\ Len(e.syllables) \in Nat \ {0} /\ m.entry = e
  BY <1>1, EntryFacts, MatchesOfTypes
<1>3. CASE IsWhole(q, e, m)
  <2>1. PICK r \in Readings(q, e)[Len(e.syllables)] : m.pos = r.pos
    BY <1>3 DEF IsWhole, Match
  <2>2. SubSeq(e.syllables, 1, Len(e.syllables)) = e.syllables
    BY <1>2, SubSeqFull DEF Nodes
  <2>3. Len(e.syllables) \in 0 .. Len(e.syllables)
    BY <1>2
  <2>4. /\ LettersOf(e, Len(e.syllables)) \in Texts
        /\ r.pos - q.start <= Len(LettersOf(e, Len(e.syllables)))
        /\ q.flavour = "exact" => LettersOf(e, Len(e.syllables)) = SubSeq(q.raw, q.start + 1, r.pos)
    BY <2>1, <2>3, ReadLetters
  <2>5. QED
    BY <1>2, <2>1, <2>2, <2>4 DEF LettersOf
<1>4. CASE q.flavour = "all" /\ IsPredicted(q, e, m)
  <2>1. PICK k \in 1 .. Len(e.syllables) - 1 : \E r \in Readings(q, e)[k] : m.pos = r.pos
    BY <1>4 DEF IsPredicted, Match
  <2>2. PICK r \in Readings(q, e)[k] : m.pos = r.pos
    BY <2>1
  <2>3. k \in 0 .. Len(e.syllables)
    BY <1>2, <2>1
  <2>4. PICK u, v : u = SubSeq(e.syllables, 1, k) /\ v = SubSeq(e.syllables, k + 1, Len(e.syllables))
    OBVIOUS
  <2>5. FlattenSeq(u) \in Texts /\ m.pos - q.start <= Len(FlattenSeq(u))
    BY <2>2, <2>3, <2>4, ReadLetters DEF LettersOf
  <2>6. u \in Nodes /\ v \in Nodes
    <3>1. /\ \A i \in 1 .. k : e.syllables[i] \in Texts
          /\ \A i \in k + 1 .. Len(e.syllables) : e.syllables[i] \in Texts
      <4>1. \A i \in 1 .. k : i \in 1 .. Len(e.syllables)
        BY <1>2, <2>3
      <4>2. \A i \in k + 1 .. Len(e.syllables) : i \in 1 .. Len(e.syllables)
        BY <1>2, <2>3
      <4>3. QED
        BY <4>1, <4>2, EntryFacts
    <3>2. QED
      BY <1>2, <2>3, <2>4, <3>1, SubSeqProperties DEF Nodes
  <2>7. e.syllables = u \o v
    <3>1. /\ 1 \in 1 .. Len(e.syllables) + 1 /\ k \in 1 - 1 .. Len(e.syllables)
          /\ Len(e.syllables) \in k .. Len(e.syllables)
      BY <1>2, <2>3
    <3>2. u \o v = SubSeq(e.syllables, 1, Len(e.syllables))
      BY <1>2, <2>4, <3>1, ConcatAdjacentSubSeq DEF Nodes
    <3>3. QED
      BY <1>2, <3>2, SubSeqFull DEF Nodes
  <2>8. FlattenSeq(v) \in Texts
    <3>1. <<>> \in Texts
      BY DEF Texts
    <3>2. QED
      BY <2>6, <3>1, FlattenStep
  <2>9. FlattenSeq(e.syllables) = FlattenSeq(u) \o FlattenSeq(v)
    BY <2>6, <2>7, FlattenConcat
  <2>10. /\ FlattenSeq(u) \o FlattenSeq(v) \in Texts
         /\ Len(FlattenSeq(u) \o FlattenSeq(v)) >= Len(FlattenSeq(u))
         /\ Len(FlattenSeq(u)) \in Nat /\ Len(FlattenSeq(u) \o FlattenSeq(v)) \in Nat
    <3>1. PICK x, y : x = FlattenSeq(u) /\ y = FlattenSeq(v)
      OBVIOUS
    <3>2. x \in Seq(Letters) /\ y \in Seq(Letters)
      BY <2>5, <2>8, <3>1 DEF Texts
    <3>3. x \o y \in Seq(Letters) /\ Len(x \o y) >= Len(x) /\ Len(x) \in Nat /\ Len(x \o y) \in Nat
      BY <3>2
    <3>4. QED
      BY <3>1, <3>3 DEF Texts
  <2>11. m.pos \in Nat /\ q.start \in Nat
    BY NeuralTypes DEF MatchType, QueryOK
  <2>12. m.pos - q.start <= Len(FlattenSeq(e.syllables))
    BY <2>5, <2>9, <2>10, <2>11
  <2>13. QED
    BY <1>2, <1>4, <2>9, <2>10, <2>12
<1>5. QED
  BY <1>1, <1>3, <1>4, MatchesOfCases

\* The letters of a path and one more match.
LEMMA ChildLetters ==
    ASSUME Begun, NEW p \in PathType, p.matched < N, NEW f \in Flavours,
           NEW m \in matches[f][p.matched]
    PROVE  LET old == FlattenSeq(p.reading)
               new == FlattenSeq(m.entry.syllables)
           IN  /\ FlattenSeq(Child(p, m).reading) = old \o new /\ Child(p, m).matched = m.pos
               /\ old \in Texts /\ new \in Texts /\ m.pos - p.matched <= Len(new)
               /\ p.matched < m.pos /\ m.pos <= N /\ m.pos \in Nat /\ p.matched \in Nat
               /\ f = "exact" => new = SubSeq(query.raw, p.matched + 1, m.pos)
<1>1. p.matched \in 0 .. N - 1 /\ p.matched \in Nat
  BY BegunQuery DEF PathType
<1>2. /\ m \in NeuralMatches(QueryAt(p.matched, f)) /\ QueryOK(QueryAt(p.matched, f))
      /\ QueryAt(p.matched, f).flavour = f /\ QueryAt(p.matched, f).raw = query.raw
      /\ m \in MatchType /\ p.matched < m.pos /\ m.pos <= N
  BY <1>1, BegunMatches
<1>3. QueryAt(p.matched, f).start = p.matched
  <2>1. PICK keys, start, flavour :
         query = [keys |-> keys, raw |-> Compact(keys), boundaries |-> Boundaries(keys),
                  start |-> start, flavour |-> flavour]
    BY DEF Begun, TailTypes
  <2>2. QED
    BY <2>1 DEF QueryAt
<1>4. PICK q : q = QueryAt(p.matched, f)
  OBVIOUS
<1>5. /\ FlattenSeq(m.entry.syllables) \in Texts
      /\ m.pos - q.start <= Len(FlattenSeq(m.entry.syllables))
      /\ q.flavour = "exact" => FlattenSeq(m.entry.syllables) = SubSeq(q.raw, q.start + 1, m.pos)
  BY <1>2, <1>4, MatchLetters
<1>6. p.reading \in Nodes /\ m.entry.syllables \in Nodes /\ m.pos \in Nat
  BY <1>2, EntryFacts DEF PathType, MatchType
<1>7. Child(p, m).reading = p.reading \o m.entry.syllables /\ Child(p, m).matched = m.pos
  BY DEF Child
<1>8. FlattenSeq(p.reading) \in Texts
  <2>1. <<>> \in Texts
    BY DEF Texts
  <2>2. QED
    BY <1>6, <2>1, FlattenStep
<1>9. FlattenSeq(p.reading \o m.entry.syllables) = FlattenSeq(p.reading) \o FlattenSeq(m.entry.syllables)
  BY <1>6, FlattenConcat
<1>10. QED
  BY <1>1, <1>2, <1>3, <1>4, <1>5, <1>6, <1>7, <1>8, <1>9

\* A path uses no more letters than its reading has.
LEMMA PathLetters ==
    ASSUME Begun
    PROVE  \A p \in LegalPaths : FlattenSeq(p.reading) \in Texts /\ p.matched <= Len(FlattenSeq(p.reading))
<1> DEFINE Good(p) == FlattenSeq(p.reading) \in Texts /\ p.matched <= Len(FlattenSeq(p.reading))
           Fine(k) == \A p \in Levels("all")[k] : Good(p)
           Bad == {k \in 0 .. N : ~Fine(k)}
<1>0. N \in Nat /\ N # 0
  BY BegunQuery
<1>1. Bad = {}
  <2> SUFFICES ASSUME Bad # {} PROVE FALSE
    OBVIOUS
  <2>1. PICK k \in Bad : \A n \in Bad : k <= n
    <3>1. Bad \in SUBSET Nat
      BY <1>0
    <3> HIDE DEF Bad
    <3>2. QED
      BY <3>1, LeastNatural
  <2>2. k # 0
    <3>1. Levels("all")[0] = {EmptyPath}
      BY <1>0, LevelsStep
    <3>2. EmptyPath.reading = <<>> /\ EmptyPath.matched = 0
      BY DEF EmptyPath
    <3>3. FlattenSeq(<<>>) = <<>>
      <4>1. <<>> \in Nodes /\ Len(<<>>) = 0
        BY DEF Nodes
      <4>2. QED
        BY <4>1, FlattenUnfolds
    <3>4. <<>> \in Texts /\ Len(<<>>) = 0
      BY DEF Texts
    <3>5. Good(EmptyPath)
      BY <3>2, <3>3, <3>4
    <3>6. QED
      BY <2>1, <3>1, <3>5
  <2>3. k - 1 \in 0 .. N /\ k - 1 \notin Bad /\ k \in 1 .. N
    BY <1>0, <2>1, <2>2
  <2>4. Fine(k - 1)
    BY <2>3
  <2>5. ASSUME NEW c \in Levels("all")[k] PROVE Good(c)
    <3>1. PICK p \in Levels("all")[k - 1] : p.matched < N /\ c \in Longer(p, "all")
      BY <1>0, <2>3, LevelsStep
    <3>2. p \in PathType /\ Good(p)
      BY <2>3, <2>4, <3>1, LevelTypes
    <3>3. PICK m \in matches["all"][p.matched] : c = Child(p, m)
      BY <3>1 DEF Longer
    <3>4. "all" \in Flavours
      BY DEF Flavours
    <3>5. PICK x, y : x = FlattenSeq(p.reading) /\ y = FlattenSeq(m.entry.syllables)
      OBVIOUS
    <3>6. /\ FlattenSeq(c.reading) = x \o y /\ c.matched = m.pos
          /\ x \in Texts /\ y \in Texts /\ m.pos - p.matched <= Len(y)
          /\ m.pos \in Nat /\ p.matched \in Nat
      BY <3>1, <3>2, <3>3, <3>4, <3>5, ChildLetters
    <3>7. p.matched <= Len(x)
      BY <3>2, <3>5
    <3>8. x \o y \in Texts /\ Len(x \o y) = Len(x) + Len(y) /\ Len(x) \in Nat /\ Len(y) \in Nat
      BY <3>6 DEF Texts
    <3>9. m.pos <= Len(x \o y)
      BY <3>6, <3>7, <3>8
    <3>10. QED
      BY <3>6, <3>8, <3>9
  <2>6. QED
    BY <2>1, <2>5
<1>2. QED
  BY <1>1 DEF LegalPaths

\* Longer than a prefix: what SubSeq says of it.
LEMMA PrefixOfJoin ==
    ASSUME NEW raw \in Texts, NEW x \in Texts, NEW y \in Texts, NEW n \in 0 .. Len(raw),
           x \o y = SubSeq(raw, 1, n)
    PROVE  x = SubSeq(raw, 1, Len(x))
<1>1. /\ Len(raw) \in Nat /\ Len(x) \in Nat /\ Len(y) \in Nat /\ n \in Nat /\ n <= Len(raw)
      /\ x \in Seq(Letters) /\ y \in Seq(Letters) /\ raw \in Seq(Letters)
  BY DEF Texts
<1>2. /\ \A i \in 1 .. n : raw[i] \in Letters
      /\ \A i \in 1 .. Len(x) : x[i] \in Letters
  BY <1>1
<1>3. Len(SubSeq(raw, 1, n)) = n /\ \A i \in 1 .. n : SubSeq(raw, 1, n)[i] = raw[i]
  BY <1>1, <1>2
<1>4. Len(x \o y) = Len(x) + Len(y) /\ \A i \in 1 .. Len(x) : (x \o y)[i] = x[i]
  BY <1>1
<1>5. Len(x) <= n /\ \A i \in 1 .. Len(x) : x[i] = raw[i]
  BY <1>1, <1>3, <1>4
<1>6. \A i \in 1 .. Len(x) : raw[i] \in Letters
  BY <1>2, <1>5
<1>7. /\ SubSeq(raw, 1, Len(x)) \in Seq(Letters) /\ Len(SubSeq(raw, 1, Len(x))) = Len(x)
      /\ \A i \in 1 .. Len(x) : SubSeq(raw, 1, Len(x))[i] = raw[i]
  BY <1>1, <1>6
<1>8. QED
  BY <1>1, <1>5, <1>7, SeqEqual

\* A path stays extended; along exact readings, one that is not stays so.
LEMMA ExtendedStays ==
    ASSUME Begun, NEW p \in LegalPaths, p.matched < N
    PROVE  /\ Extended(p) => \A m \in matches["all"][p.matched] : Extended(Child(p, m))
           /\ ~Extended(p) => \A m \in matches["exact"][p.matched] : ~Extended(Child(p, m))
<1>1. /\ "all" \in Flavours /\ "exact" \in Flavours /\ p \in PathType
      /\ query.raw \in Texts /\ N = Len(query.raw) /\ N \in Nat
  BY LegalTypes, BegunQuery DEF Flavours, QueryOK, Texts, N
<1>2. ASSUME NEW m \in matches["all"][p.matched], ~Extended(Child(p, m)) PROVE ~Extended(p)
  <2>1. PICK x, y : x = FlattenSeq(p.reading) /\ y = FlattenSeq(m.entry.syllables)
    OBVIOUS
  <2>2. /\ FlattenSeq(Child(p, m).reading) = x \o y /\ Child(p, m).matched = m.pos
        /\ x \in Texts /\ y \in Texts /\ m.pos - p.matched <= Len(y)
        /\ p.matched < m.pos /\ m.pos <= N /\ m.pos \in Nat /\ p.matched \in Nat
    BY <1>1, <2>1, ChildLetters
  <2>3. x \o y = SubSeq(query.raw, 1, m.pos)
    BY <1>2, <2>2 DEF Extended
  <2>4. m.pos \in 0 .. Len(query.raw)
    BY <1>1, <2>2
  <2>5. x = SubSeq(query.raw, 1, Len(x))
    BY <1>1, <2>2, <2>3, <2>4, PrefixOfJoin
  <2>6. Len(x \o y) = m.pos /\ Len(x \o y) = Len(x) + Len(y) /\ Len(x) \in Nat /\ Len(y) \in Nat
    <3>1. \A i \in 1 .. m.pos : query.raw[i] \in Letters
      BY <1>1, <2>4 DEF Texts
    <3>2. Len(SubSeq(query.raw, 1, m.pos)) = m.pos
      BY <2>2, <3>1
    <3>3. Len(x \o y) = Len(x) + Len(y) /\ Len(x) \in Nat /\ Len(y) \in Nat
      BY <2>2 DEF Texts
    <3>4. Len(x \o y) = m.pos
      BY <2>3, <3>2
    <3>5. QED
      BY <3>3, <3>4
  <2>7. p.matched <= Len(x)
    BY <2>1, PathLetters
  <2>8. Len(x) = p.matched
    BY <2>2, <2>6, <2>7
  <2>9. QED
    BY <2>1, <2>5, <2>8 DEF Extended
<1>3. ASSUME ~Extended(p), NEW m \in matches["exact"][p.matched] PROVE ~Extended(Child(p, m))
  <2>1. PICK x, y : x = FlattenSeq(p.reading) /\ y = FlattenSeq(m.entry.syllables)
    OBVIOUS
  <2>2. /\ FlattenSeq(Child(p, m).reading) = x \o y /\ Child(p, m).matched = m.pos
        /\ p.matched < m.pos /\ m.pos <= N /\ m.pos \in Nat /\ p.matched \in Nat
        /\ y = SubSeq(query.raw, p.matched + 1, m.pos)
    BY <1>1, <2>1, ChildLetters
  <2>3. x = SubSeq(query.raw, 1, p.matched)
    BY <1>3, <2>1 DEF Extended
  <2>4. /\ 1 \in 1 .. Len(query.raw) + 1 /\ p.matched \in 1 - 1 .. Len(query.raw)
        /\ m.pos \in p.matched .. Len(query.raw)
    BY <1>1, <2>2
  <2>5. x \o y = SubSeq(query.raw, 1, m.pos)
    BY <1>1, <2>2, <2>3, <2>4, ConcatAdjacentSubSeq DEF Texts
  <2>6. QED
    BY <2>2, <2>5 DEF Extended
<1>4. QED
  BY <1>2, <1>3

\* Exact paths to the same position are extended alike.
LEMMA ExtendedAlike ==
    ASSUME Begun, NEW p \in LegalPaths, NEW q \in LegalPaths, ~Extended(p), ~Extended(q),
           p.matched = q.matched, p.matched < N, NEW m \in matches["all"][p.matched]
    PROVE  Extended(Child(p, m)) <=> Extended(Child(q, m))
<1>1. "all" \in Flavours /\ p \in PathType /\ q \in PathType
  BY LegalTypes DEF Flavours
<1>2. FlattenSeq(p.reading) = FlattenSeq(q.reading)
  BY DEF Extended
<1>3. /\ FlattenSeq(Child(p, m).reading) = FlattenSeq(p.reading) \o FlattenSeq(m.entry.syllables)
      /\ FlattenSeq(Child(q, m).reading) = FlattenSeq(q.reading) \o FlattenSeq(m.entry.syllables)
      /\ Child(p, m).matched = m.pos /\ Child(q, m).matched = m.pos
  BY <1>1, ChildLetters
<1>4. QED
  BY <1>2, <1>3 DEF Extended

-----------------------------------------------------------------------------
(* Sums and priorities. *)

\* The element a fold takes first.
First(s) == CHOOSE x \in s : TRUE

\* The subsets of S with up to n elements.
Small(S, n) == {s \in SUBSET S : Cardinality(s) <= n}

\* f holds the sums of "a" over the subsets of S with up to n elements.
Sums(f, a, S, n) ==
    f = [s \in Small(S, n) |-> IF s = {} THEN 0 ELSE a[First(s)] + f[s \ {First(s)}]]

\* Taking the first element away leaves a smaller set.
LEMMA SmallStep ==
    ASSUME NEW S, IsFiniteSet(S), NEW n \in Nat, NEW s \in Small(S, n), s # {}
    PROVE  n # 0 /\ First(s) \in s /\ s \ {First(s)} \in Small(S, n - 1)
<1>1. s \in SUBSET S /\ Cardinality(s) <= n /\ IsFiniteSet(s)
  BY FS_Subset DEF Small
<1>2. First(s) \in s
  BY DEF First
<1>3. Cardinality(s) \in Nat /\ Cardinality(s) # 0
  BY <1>1, FS_CardinalityType, FS_EmptySet
<1>4. Cardinality(s \ {First(s)}) = Cardinality(s) - 1
  BY <1>1, <1>2, FS_RemoveElement
<1>5. Cardinality(s \ {First(s)}) <= n - 1
  BY <1>1, <1>3, <1>4
<1>6. QED
  BY <1>1, <1>2, <1>3, <1>5 DEF Small

\* There are such sums, built from smaller to larger sets.
LEMMA SumsExist ==
    ASSUME NEW S, IsFiniteSet(S), NEW a
    PROVE  \A n \in Nat : \E f : Sums(f, a, S, n)
<1> DEFINE Bad == {n \in Nat : ~\E f : Sums(f, a, S, n)}
           E(f, s) == IF s = {} THEN 0 ELSE a[First(s)] + f[s \ {First(s)}]
<1> SUFFICES ASSUME Bad # {} PROVE FALSE
  OBVIOUS
<1>1. PICK n \in Bad : \A k \in Bad : n <= k
  BY LeastNatural
<1>2. n # 0
  <2>1. SUFFICES ASSUME n = 0 PROVE FALSE
    OBVIOUS
  <2>2. PICK f : f = [s \in Small(S, 0) |-> 0]
    OBVIOUS
  <2>3. \A s \in Small(S, 0) : s = {}
    BY SmallStep
  <2>4. f = [s \in Small(S, 0) |-> E(f, s)]
    BY <2>2, <2>3
  <2>5. QED
    BY <1>1, <2>1, <2>4 DEF Sums
<1>3. n - 1 \in Nat /\ n - 1 \notin Bad
  BY <1>1, <1>2
<1>4. PICK f : f = [s \in Small(S, n - 1) |-> E(f, s)]
  BY <1>3 DEF Sums
<1>5. PICK g : g = [s \in Small(S, n) |-> E(f, s)]
  OBVIOUS
<1>6. Small(S, n - 1) \subseteq Small(S, n)
  <2>1. \A s \in SUBSET S : Cardinality(s) \in Nat
    BY FS_Subset, FS_CardinalityType
  <2>2. QED
    BY <1>1, <1>3, <2>1 DEF Small
<1>7. \A s \in Small(S, n - 1) : g[s] = f[s]
  <2> HIDE DEF E
  <2>1. QED
    BY <1>4, <1>5, <1>6
<1>8. \A s \in Small(S, n) : E(f, s) = E(g, s)
  BY <1>1, <1>7, SmallStep
<1>9. g = [s \in Small(S, n) |-> E(g, s)]
  <2> HIDE DEF E
  <2>1. QED
    BY <1>5, <1>8
<1>10. QED
  BY <1>1, <1>9 DEF Sums

\* The sum of "a" over S.
Total(a, S) == MapThenSumSet(LAMBDA t : a[t], S)

\* The fold is one of them.
LEMMA TotalUnfolds ==
    ASSUME NEW S, IsFiniteSet(S), NEW a
    PROVE  \E f : Sums(f, a, S, Cardinality(S)) /\ Total(a, S) = f[S]
<1> DEFINE f == CHOOSE h : h = [s \in SUBSET S |->
                   IF s = {} THEN 0 ELSE a[CHOOSE x \in s : TRUE] + h[s \ {CHOOSE x \in s : TRUE}]]
<1>1. SUBSET S = Small(S, Cardinality(S)) /\ Cardinality(S) \in Nat
  BY FS_Subset, FS_CardinalityType DEF Small
<1>2. PICK g : Sums(g, a, S, Cardinality(S))
  BY <1>1, SumsExist
<1>3. g = [s \in SUBSET S |->
              IF s = {} THEN 0 ELSE a[CHOOSE x \in s : TRUE] + g[s \ {CHOOSE x \in s : TRUE}]]
  BY <1>1, <1>2 DEF Sums, First
<1>4. f = [s \in SUBSET S |->
              IF s = {} THEN 0 ELSE a[CHOOSE x \in s : TRUE] + f[s \ {CHOOSE x \in s : TRUE}]]
  BY <1>3
<1>5. Total(a, S) = f[S]
  BY DEF Total, MapThenSumSet, MapThenFoldSet
<1> HIDE DEF f
<1>6. Sums(f, a, S, Cardinality(S))
  BY <1>1, <1>4 DEF Sums, First
<1>7. QED
  BY <1>5, <1>6

\* A sum of larger numbers is larger.
LEMMA SumsGrow ==
    ASSUME NEW D, NEW a \in [D -> Nat], NEW b \in [D -> Nat], \A t \in D : a[t] <= b[t],
           NEW S \in SUBSET D, IsFiniteSet(S)
    PROVE  Total(a, S) \in Nat /\ Total(b, S) \in Nat /\ Total(a, S) <= Total(b, S)
<1> DEFINE card == Cardinality(S)
<1>0. card \in Nat /\ S \in Small(S, card)
  BY FS_CardinalityType, FS_Subset DEF Small
<1>1. PICK f : Sums(f, a, S, card) /\ Total(a, S) = f[S]
  BY TotalUnfolds
<1>2. PICK g : Sums(g, b, S, card) /\ Total(b, S) = g[S]
  BY TotalUnfolds
<1> DEFINE Fine(s) == f[s] \in Nat /\ g[s] \in Nat /\ f[s] <= g[s]
           Bad == {n \in 0 .. card : \E s \in Small(S, n) : ~Fine(s)}
<1>3. Bad = {}
  <2> SUFFICES ASSUME Bad # {} PROVE FALSE
    OBVIOUS
  <2>1. PICK n \in Bad : \A k \in Bad : n <= k
    <3>1. Bad \in SUBSET Nat
      BY <1>0
    <3> HIDE DEF Bad
    <3>2. QED
      BY <3>1, LeastNatural
  <2>2. n \in 0 .. card /\ n \in Nat
    BY <1>0, <2>1
  <2>3. PICK s \in Small(S, n) : ~Fine(s)
    BY <2>1
  <2>4. s \in Small(S, card)
    <3>1. Cardinality(s) \in Nat /\ s \in SUBSET S /\ Cardinality(s) <= n
      BY FS_Subset, FS_CardinalityType DEF Small
    <3>2. QED
      BY <1>0, <2>2, <3>1 DEF Small
  <2>5. /\ f[s] = IF s = {} THEN 0 ELSE a[First(s)] + f[s \ {First(s)}]
        /\ g[s] = IF s = {} THEN 0 ELSE b[First(s)] + g[s \ {First(s)}]
    BY <1>1, <1>2, <2>4 DEF Sums
  <2>6. s # {}
    BY <2>3, <2>5
  <2>7. n # 0 /\ First(s) \in s /\ s \ {First(s)} \in Small(S, n - 1)
    BY <2>2, <2>6, SmallStep
  <2>8. First(s) \in D
    BY <2>7 DEF Small
  <2>9. n - 1 \in 0 .. card /\ n - 1 \notin Bad
    BY <1>0, <2>1, <2>2, <2>7
  <2>10. Fine(s \ {First(s)})
    BY <2>7, <2>9
  <2>11. a[First(s)] \in Nat /\ b[First(s)] \in Nat /\ a[First(s)] <= b[First(s)]
    BY <2>8
  <2>12. Fine(s)
    BY <2>5, <2>6, <2>10, <2>11
  <2>13. QED
    BY <2>3, <2>12
<1>4. Fine(S)
  BY <1>0, <1>3
<1>5. QED
  BY <1>1, <1>2, <1>4

\* More candidates given, no fewer pages.
LEMMA PagesGrow ==
    ASSUME NEW x \in Nat, NEW y \in Nat, x <= y
    PROVE  x \div PageSize \in Nat /\ y \div PageSize \in Nat /\ x \div PageSize <= y \div PageSize
<1>1. PageSize \in Nat /\ PageSize > 0
  BY MatchAssumption
<1>2. PICK a \in Nat, b \in Nat : /\ a = x \div PageSize /\ b = y \div PageSize
                                  /\ a * PageSize <= x /\ y < (b + 1) * PageSize
  BY <1>1
<1>3. a <= b
  <2> SUFFICES ASSUME b + 1 <= a PROVE FALSE
    BY <1>2
  <2>1. (b + 1) * PageSize <= a * PageSize
    BY <1>1, <1>2
  <2>2. a * PageSize \in Nat /\ (b + 1) * PageSize \in Nat
    BY <1>1, <1>2
  <2>3. QED
    BY <1>2, <2>1, <2>2
<1>4. QED
  BY <1>2, <1>3

\* What comes first decides.
LEMMA BeforeJoin ==
    ASSUME NEW S, NEW u \in Seq(S), NEW v \in Seq(S), NEW x \in Seq(S), NEW y \in Seq(S),
           Len(u) = Len(x), Before(u, x)
    PROVE  Before(u \o v, x \o y)
<1>1. PICK i \in DOMAIN u : u[i] < x[i] /\ \A j \in 1 .. (i - 1) : u[j] = x[j]
  BY DEF Before
<1>2. i \in 1 .. Len(u) /\ Len(u) \in Nat /\ Len(v) \in Nat
  BY <1>1
<1>3. /\ \A j \in 1 .. Len(u) : (u \o v)[j] = u[j] /\ (x \o y)[j] = x[j]
      /\ DOMAIN (u \o v) = 1 .. Len(u) + Len(v)
  <2>1. /\ u \o v \in Seq(S) /\ Len(u \o v) = Len(u) + Len(v)
        /\ \A j \in 1 .. Len(u) + Len(v) : (u \o v)[j] = IF j <= Len(u) THEN u[j] ELSE v[j - Len(u)]
    BY ConcatProperties
  <2>2. \A j \in 1 .. Len(u) : j \in 1 .. Len(u) + Len(v) /\ j <= Len(u)
    BY <1>2
  <2>3. \A j \in 1 .. Len(u) : (u \o v)[j] = u[j]
    BY <2>1, <2>2
  <2>4. \A j \in 1 .. Len(x) : (x \o y)[j] = x[j]
    OBVIOUS
  <2>5. QED
    BY <2>1, <2>3, <2>4
<1>4. i \in DOMAIN (u \o v) /\ \A j \in 1 .. (i - 1) : j \in 1 .. Len(u)
  BY <1>2, <1>3
<1>5. (u \o v)[i] < (x \o y)[i] /\ \A j \in 1 .. (i - 1) : (u \o v)[j] = (x \o y)[j]
  BY <1>1, <1>2, <1>3, <1>4
<1>6. QED
  BY <1>4, <1>5 DEF Before

-----------------------------------------------------------------------------
(* Turns. *)

\* An item's priority was its path's when it was pushed; the counts of its
\* root and group may have grown since.
Queued(i) ==
    /\ i.path.tokens # <<>>
    /\ \A r \in i.rest : r.parent.tokens # <<>> /\ Root(r.parent) = Root(i.path)
    /\ mode = "exact" => i.rest = {} /\ i.priority = PathPriority(i.path)
    /\ mode = "hinted" => i.priority = <<order[Root(i.path)]>> \o PathPriority(i.path)
    /\ mode = "grouped" =>
          /\ Root(i.path) \in DOMAIN order
          /\ \E ga \in 0 .. (EmittedByGroup(Group(Root(i.path))) \div PageSize),
                gb \in 0 .. (emitted[Root(i.path)] \div PageSize) :
                i.priority = <<ga, Group(Root(i.path)), gb>> \o PathPriority(i.path)

\* An exact path in this state was taken or is in the heap.
Waits(p) ==
    \/ StateKey(p) \in taken
    \/ \E i \in heap : ~Extended(i.path) /\ StateKey(i.path) = StateKey(p)

\* An exact path was given to the caller, or its exact children wait.
ExactDone(p) ==
    IF p.matched = N
    THEN p.text \in existing
    ELSE \A c \in Longer(p, "all") : ~Extended(c) => Waits(c)

ExactsDue ==
    /\ \A p \in RootPaths(FALSE) : ~Extended(p) => Waits(p)
    /\ \A key \in taken : \E p \in LegalPaths : ~Extended(p) /\ StateKey(p) = key /\ ExactDone(p)

ExactsOut == \A c \in Covers : ~Extended(c) => c.text \in existing

TurnTypes ==
    /\ mode \in {"exact", "hinted", "grouped"}
    /\ mode # "exact" => deferred = {}
    /\ \A p \in deferred : p.tokens # <<>>
    /\ mode = "grouped" => emitted \in [DOMAIN order -> Nat] /\ IsFiniteSet(DOMAIN order)

TurnInv ==
    phase \in {"exact", "full"} =>
        /\ TurnTypes
        /\ \A i \in heap : Queued(i)
        /\ phase = "exact" => deferred = {} /\ \A i \in heap : ~Extended(i.path)
        /\ phase = "full" /\ mode = "exact" =>
              (\A p \in deferred : Extended(p)) /\ (ExactsOut \/ ExactsDue)

-----------------------------------------------------------------------------
(* Items and their turns. *)

\* An item as it is pushed.
Fresh(i) ==
    /\ i.path.tokens # <<>>
    /\ \A r \in i.rest : r.parent.tokens # <<>> /\ Root(r.parent) = Root(i.path)
    /\ mode = "exact" => i.rest = {}
    /\ mode = "grouped" => Root(i.path) \in DOMAIN order
    /\ i.priority = QueuePriority(i.path)

\* A priority of five numbers, as a sequence.
LEMMA PriorityIsSeq ==
    ASSUME NEW p
    PROVE  /\ \E a, b, c, d : PathPriority(p) = <<IF mode = "exact" /\ Extended(p) THEN 1 ELSE 0, a, b, c, d>>
           /\ \E S : PathPriority(p) \in Seq(S)
<1>1. PICK f, a, b, c, d : /\ f = IF mode = "exact" /\ Extended(p) THEN 1 ELSE 0
                           /\ PathPriority(p) = <<f, a, b, c, d>>
  BY DEF PathPriority
<1>2. <<f, a, b, c, d>> \in Seq({f, a, b, c, d})
  OBVIOUS
<1>3. QED
  BY <1>1, <1>2

\* The roots of a group.
Members(g) == {t \in DOMAIN order : Group(t) = g}

\* EmittedByGroup is a sum.
LEMMA GroupTotal == \A g : EmittedByGroup(g) = Total(emitted, Members(g))
BY DEF EmittedByGroup, Total, Members

\* The same in the next state.
LEMMA GroupTotalNext == (\A g : EmittedByGroup(g) = Total(emitted, Members(g)))'
BY GroupTotal, PTL

\* The counts of a group are numbers, and grow with those of its roots.
LEMMA GroupsGrow ==
    ASSUME mode = "grouped", TurnTypes, order' = order,
           emitted' \in [DOMAIN order -> Nat], \A t \in DOMAIN order : emitted[t] <= emitted'[t],
           NEW g
    PROVE  /\ EmittedByGroup(g) \in Nat /\ EmittedByGroup(g)' \in Nat
           /\ EmittedByGroup(g) <= EmittedByGroup(g)'
<1> DEFINE S == {t \in DOMAIN order : Group(t) = g}
<1>1. emitted \in [DOMAIN order -> Nat] /\ IsFiniteSet(DOMAIN order)
  BY DEF TurnTypes
<1>2. IsFiniteSet(S) /\ S \in SUBSET DOMAIN order
  BY <1>1, FS_Subset
<1>3. EmittedByGroup(g) = Total(emitted, S)
  BY DEF EmittedByGroup, Total
<1>4. EmittedByGroup(g)' = Total(emitted', S)
  <2>1. Members(g)' = S
    BY DEF Members, Group
  <2> HIDE DEF S
  <2>2. QED
    BY <2>1, GroupTotalNext
<1> HIDE DEF S
<1>5. QED
  BY <1>1, <1>2, <1>3, <1>4, SumsGrow

\* The same at one moment.
LEMMA GroupCounts ==
    ASSUME mode = "grouped", TurnTypes, NEW t \in DOMAIN order
    PROVE  /\ EmittedByGroup(Group(t)) \in Nat /\ EmittedByGroup(Group(t)) \div PageSize \in Nat
           /\ emitted[t] \in Nat /\ emitted[t] \div PageSize \in Nat
<1> DEFINE S == {u \in DOMAIN order : Group(u) = Group(t)}
<1>1. emitted \in [DOMAIN order -> Nat] /\ IsFiniteSet(DOMAIN order)
  BY DEF TurnTypes
<1>2. IsFiniteSet(S) /\ S \in SUBSET DOMAIN order
  BY <1>1, FS_Subset
<1>3. EmittedByGroup(Group(t)) = Total(emitted, S)
  BY DEF EmittedByGroup, Total
<1>4. emitted[t] \in Nat /\ \A u \in DOMAIN order : emitted[u] <= emitted[u]
  BY <1>1
<1> HIDE DEF S
<1>5. EmittedByGroup(Group(t)) \in Nat
  BY <1>1, <1>2, <1>3, <1>4, SumsGrow
<1>6. \A x \in Nat : x \div PageSize \in Nat
  BY PagesGrow
<1>7. QED
  BY <1>4, <1>5, <1>6

\* An item just pushed is queued.
LEMMA FreshQueued == TurnTypes => \A i : Fresh(i) => Queued(i)
<1> SUFFICES ASSUME TurnTypes, NEW i, Fresh(i) PROVE Queued(i)
  OBVIOUS
<1>1. mode = "exact" => i.priority = PathPriority(i.path)
  <2> SUFFICES ASSUME mode = "exact" PROVE i.priority = PathPriority(i.path)
    OBVIOUS
  <2>1. i.priority = <<>> \o PathPriority(i.path)
    BY DEF Fresh, QueuePriority, Turn
  <2>2. PICK S : PathPriority(i.path) \in Seq(S)
    BY PriorityIsSeq
  <2>3. QED
    BY <2>1, <2>2, ConcatEmptySeq
<1>2. mode = "hinted" => i.priority = <<order[Root(i.path)]>> \o PathPriority(i.path)
  BY DEF Fresh, QueuePriority, Turn
<1>3. ASSUME mode = "grouped"
      PROVE  \E ga \in 0 .. (EmittedByGroup(Group(Root(i.path))) \div PageSize),
                gb \in 0 .. (emitted[Root(i.path)] \div PageSize) :
                i.priority = <<ga, Group(Root(i.path)), gb>> \o PathPriority(i.path)
  <2>1. PICK t, x, y : /\ t = Root(i.path) /\ x = EmittedByGroup(Group(t)) \div PageSize
                       /\ y = emitted[t] \div PageSize
    OBVIOUS
  <2>2. i.priority = <<x, Group(t), y>> \o PathPriority(i.path)
    BY <1>3, <2>1 DEF Fresh, QueuePriority, Turn
  <2>3. t \in DOMAIN order
    BY <1>3, <2>1 DEF Fresh
  <2>4. x \in Nat /\ y \in Nat
    BY <1>3, <2>1, <2>3, GroupCounts
  <2>5. x \in 0 .. x /\ y \in 0 .. y
    BY <2>4
  <2>6. QED
    BY <2>1, <2>2, <2>5
<1>4. QED
  BY <1>1, <1>2, <1>3 DEF Fresh, Queued

\* The same in the next state.
LEMMA FreshQueuedNext == (TurnTypes => \A i : Fresh(i) => Queued(i))'
BY FreshQueued, PTL

\* An item stays queued while the counts grow.
LEMMA QueuedStays ==
    ASSUME TurnTypes, query' = query, mode' = mode, order' = order,
           mode = "grouped" => /\ emitted' \in [DOMAIN order -> Nat]
                               /\ \A t \in DOMAIN order : emitted[t] <= emitted'[t],
           NEW i, Queued(i)
    PROVE  Queued(i)'
<1>1. PathPriority(i.path)' = PathPriority(i.path)
  BY DEF PathPriority, Extended, N, StructuralRank
<1>2. CASE mode # "grouped"
  BY <1>1, <1>2 DEF Queued, Root
<1>3. CASE mode = "grouped"
  <2>1. PICK t : t = Root(i.path) /\ t \in DOMAIN order
    BY <1>3 DEF Queued
  <2>2. PICK x, y, z, w : /\ x = EmittedByGroup(Group(t)) /\ y = EmittedByGroup(Group(t))'
                          /\ z = emitted[t] /\ w = emitted'[t]
    OBVIOUS
  <2>3. PICK g : g = Group(t) /\ g = Group(t)'
    BY DEF Group
  <2>4. x \in Nat /\ y \in Nat /\ x <= y
    <3>1. EmittedByGroup(g) \in Nat /\ EmittedByGroup(g)' \in Nat /\ EmittedByGroup(g) <= EmittedByGroup(g)'
      BY <1>3, GroupsGrow
    <3>2. x = EmittedByGroup(g) /\ y = EmittedByGroup(g)'
      BY <2>2, <2>3 DEF EmittedByGroup
    <3>3. QED
      BY <3>1, <3>2
  <2>5. z \in Nat /\ w \in Nat /\ z <= w
    BY <1>3, <2>1, <2>2 DEF TurnTypes
  <2>6. PICK ga \in 0 .. (x \div PageSize), gb \in 0 .. (z \div PageSize) :
           i.priority = <<ga, g, gb>> \o PathPriority(i.path)
    BY <1>3, <2>1, <2>2, <2>3 DEF Queued
  <2>7. ga \in 0 .. (y \div PageSize) /\ gb \in 0 .. (w \div PageSize)
    <3>1. /\ x \div PageSize \in Nat /\ y \div PageSize \in Nat /\ x \div PageSize <= y \div PageSize
          /\ z \div PageSize \in Nat /\ w \div PageSize \in Nat /\ z \div PageSize <= w \div PageSize
      BY <2>4, <2>5, PagesGrow
    <3>2. \A a, b \in Nat : a <= b => \A c \in 0 .. a : c \in 0 .. b
      OBVIOUS
    <3>3. QED
      BY <2>6, <3>1, <3>2
  <2>8. \E a \in 0 .. (EmittedByGroup(Group(Root(i.path)))' \div PageSize),
           b \in 0 .. (emitted'[Root(i.path)] \div PageSize) :
           i.priority = <<a, Group(Root(i.path))', b>> \o PathPriority(i.path)'
    BY <1>1, <2>1, <2>2, <2>3, <2>6, <2>7 DEF Root
  <2>9. /\ i.path.tokens # <<>> /\ Root(i.path) \in DOMAIN order
        /\ \A r \in i.rest : r.parent.tokens # <<>> /\ Root(r.parent) = Root(i.path)
    BY <1>3 DEF Queued
  <2>10. QED
    BY <1>3, <2>8, <2>9 DEF Queued, Root
<1>4. QED
  BY <1>2, <1>3

\* A child begins with the same token.
LEMMA ChildRoot ==
    ASSUME NEW p \in PathType, NEW m \in MatchType
    PROVE  /\ Child(p, m).tokens # <<>>
           /\ p.tokens # <<>> => Root(Child(p, m)) = Root(p)
<1>1. PICK s, t : s = p.tokens /\ t = m.entry.tokens
  OBVIOUS
<1>2. s \in Seq(Nat) /\ t \in Seq(Nat) /\ t # <<>>
  BY <1>1, WalkAssumption DEF PathType, MatchType
<1>3. Child(p, m).tokens = s \o t
  BY <1>1 DEF Child
<1>4. Len(s) \in Nat /\ Len(t) \in Nat /\ Len(t) # 0 /\ Len(s \o t) = Len(s) + Len(t)
  BY <1>2, EmptySeq
<1>5. s \o t # <<>>
  BY <1>4
<1>6. s # <<>> => (s \o t)[1] = s[1]
  BY <1>2
<1>7. QED
  BY <1>1, <1>3, <1>5, <1>6 DEF Root

\* push_child_head pushes with the priority of the moment.
LEMMA PushedPriority ==
    \A r : \A items \in PushChildHead(r) : \A j \in items : j.priority = QueuePriority(j.path)
<1> SUFFICES ASSUME NEW r, NEW items \in PushChildHead(r), NEW j \in items
             PROVE  j.priority = QueuePriority(j.path)
  OBVIOUS
<1> DEFINE P == r.parent
           own == {m \in r.seeds : Allowed(Child(P, m))}
           tail == IF r.unextended
                   THEN {m \in OrderedSuffixes(P.matched, FALSE) : Allowed(Child(P, m))} ELSE {}
           at(m, seeds, u) == Item(Child(P, m), {Rest(P, seeds \ {m}, u)})
<1>0. \/ \E m \in own : j = at(m, own, r.unextended)
      \/ \E m \in tail : j = at(m, tail, FALSE)
  BY DEF PushChildHead, Firsts
<1>1. \E p, rest : j = Item(p, rest)
  <2>1. CASE \E m \in own : j = at(m, own, r.unextended)
    BY <2>1
  <2>2. CASE \E m \in tail : j = at(m, tail, FALSE)
    <3>1. PICK no \in BOOLEAN : no = FALSE
      OBVIOUS
    <3>2. PICK m \in tail : j = at(m, tail, no)
      BY <2>2, <3>1
    <3>3. QED
      BY <3>2
  <2>3. QED
    BY <1>0, <2>1, <2>2
<1>2. PICK p, rest : j = [path |-> p, priority |-> QueuePriority(p), rest |-> rest]
  BY <1>1 DEF Item
<1>3. QED
  BY <1>2

\* The seeds of a legal rest are matches.
LEMMA SeedTypes ==
    ASSUME Begun, NEW r, RestOK(r), NEW m \in Seeds(r)
    PROVE  m \in MatchType /\ r.parent \in PathType
<1>1. r.parent \in PathType /\ r.parent.matched \in 0 .. N - 1 /\ "all" \in Flavours
  BY LegalTypes, BegunQuery DEF RestOK, PathType, Flavours
<1>2. m \in matches["all"][r.parent.matched]
  BY DEF Seeds, RestOK, OrderedSuffixes
<1>3. QED
  BY <1>1, <1>2, BegunMatches

\* Siblings are pushed fresh.
LEMMA RestFresh ==
    ASSUME Begun, mode # "exact", NEW r, RestOK(r), r.parent.tokens # <<>>,
           mode = "grouped" => Root(r.parent) \in DOMAIN order,
           NEW items \in PushChildHead(r), NEW j \in items
    PROVE  Fresh(j)
<1>1. Pushed(items, r)
  BY PushesOne
<1>2. PICK s : \E m \in Seeds(r) : j.path = Child(r.parent, m) /\ j.rest = {s} /\ s.parent = r.parent
  BY <1>1 DEF Pushed
<1>3. PICK m \in Seeds(r) : j.path = Child(r.parent, m) /\ j.rest = {s} /\ s.parent = r.parent
  BY <1>2
<1>4. j.path.tokens # <<>> /\ Root(j.path) = Root(r.parent)
  BY <1>3, SeedTypes, ChildRoot
<1>5. j.priority = QueuePriority(j.path)
  BY PushedPriority
<1>6. QED
  BY <1>3, <1>4, <1>5 DEF Fresh

\* So are those an item leaves behind.
LEMMA LeftFresh ==
    Begun /\ TurnTypes =>
        \A i : ItemOK(i) /\ Queued(i) => \A items \in PushRemaining(i) : \A j \in items : Fresh(j)
<1> SUFFICES ASSUME Begun, TurnTypes, NEW i, ItemOK(i), Queued(i),
                    NEW items \in PushRemaining(i), NEW j \in items
             PROVE  Fresh(j)
  OBVIOUS
<1>1. PICK r \in i.rest : items \in PushChildHead(r)
  BY DEF PushRemaining
<1>2. RestOK(r) /\ mode # "exact"
  BY <1>1 DEF ItemOK, Queued
<1>3. r.parent.tokens # <<>> /\ (mode = "grouped" => Root(r.parent) \in DOMAIN order)
  BY <1>1 DEF Queued
<1>4. QED
  BY <1>1, <1>2, <1>3, RestFresh

\* The same when the siblings are pushed after the counts have grown.
LEMMA LeftFreshNext ==
    (Begun /\ TurnTypes =>
        \A i : ItemOK(i) /\ Queued(i) => \A items \in PushRemaining(i) : \A j \in items : Fresh(j))'
BY LeftFresh, PTL

\* And the children of a path.
LEMMA ExpandFresh ==
    ASSUME Begun, NEW p \in LegalPaths, p.matched < N, p.tokens # <<>>,
           mode = "grouped" => Root(p) \in DOMAIN order,
           NEW children \in Expand(p), NEW j \in children
    PROVE  Fresh(j)
<1>1. p \in PathType /\ p.matched \in 0 .. N - 1 /\ {"all", "exact"} \subseteq Flavours
  BY LegalTypes, BegunQuery DEF PathType, Flavours
<1>2. CASE mode = "exact"
  <2>1. PICK f \in {"exact", "all"} : children = {Item(c, {}) : c \in Longer(p, f)}
    BY <1>2 DEF Expand
  <2>2. PICK c \in Longer(p, f) : j = Item(c, {})
    BY <2>1
  <2>3. PICK m \in matches[f][p.matched] : c = Child(p, m)
    BY <2>2 DEF Longer
  <2>4. m \in MatchType
    BY <1>1, <2>1, <2>3, BegunMatches
  <2>5. c.tokens # <<>>
    BY <1>1, <2>3, <2>4, ChildRoot
  <2>6. j.path = c /\ j.rest = {} /\ j.priority = QueuePriority(c)
    BY <2>2 DEF Item
  <2>7. QED
    BY <1>2, <2>5, <2>6 DEF Fresh
<1>3. CASE mode # "exact"
  <2>0. PICK yes \in BOOLEAN : yes = TRUE
    OBVIOUS
  <2>1. PICK r : r = Rest(p, OrderedSuffixes(p.matched, TRUE), yes)
    OBVIOUS
  <2>2. r.parent = p /\ r.seeds = OrderedSuffixes(p.matched, TRUE) /\ r.unextended
    BY <2>0, <2>1 DEF Rest
  <2>3. children \in PushChildHead(r)
    BY <1>3, <2>0, <2>1 DEF Expand
  <2>4. RestOK(r)
    BY <2>2, WholeRest
  <2>5. QED
    BY <1>3, <2>2, <2>3, <2>4, RestFresh
<1>4. QED
  BY <1>2, <1>3

\* A larger set of elements.
LEMMA SeqOfMore ==
    ASSUME NEW A, NEW B, A \subseteq B, NEW s \in Seq(A)
    PROVE  s \in Seq(B)
<1>1. s \in [1 .. Len(s) -> A] /\ Len(s) \in Nat
  OBVIOUS
<1>2. s \in [1 .. Len(s) -> B]
  BY <1>1
<1>3. QED
  BY <1>1, <1>2

\* The order of three numbers.
LEMMA BeforeThree ==
    ASSUME NEW a, NEW b, NEW c, NEW x, NEW y, NEW z
    PROVE  Before(<<a, b, c>>, <<x, y, z>>) <=>
              a < x \/ (a = x /\ b < y) \/ (a = x /\ b = y /\ c < z)
<1>1. PICK s, t : s = <<a, b, c>> /\ t = <<x, y, z>>
  OBVIOUS
<1>2. /\ DOMAIN s = {1, 2, 3} /\ s[1] = a /\ s[2] = b /\ s[3] = c
      /\ t[1] = x /\ t[2] = y /\ t[3] = z
  BY <1>1
<1>3. (\A j \in 1 .. (1 - 1) : s[j] = t[j]) <=> TRUE
  OBVIOUS
<1>4. (\A j \in 1 .. (2 - 1) : s[j] = t[j]) <=> a = x
  BY <1>2
<1>5. (\A j \in 1 .. (3 - 1) : s[j] = t[j]) <=> a = x /\ b = y
  <2>1. 1 .. (3 - 1) = {1, 2}
    OBVIOUS
  <2>2. QED
    BY <1>2, <2>1
<1>6. Before(s, t) <=> \E i \in {1, 2, 3} : s[i] < t[i] /\ \A j \in 1 .. (i - 1) : s[j] = t[j]
  BY <1>2 DEF Before
<1>7. QED
  BY <1>1, <1>2, <1>3, <1>4, <1>5, <1>6

\* An item was pushed no later in the turn of its root than now, so it comes
\* before an up-to-date one of a root whose turn is later.
LEMMA EarlierTurn ==
    ASSUME TurnTypes, mode # "exact", NEW i, NEW j, Queued(i), Queued(j), ~Stale(i),
           Before(Turn(Root(j.path)), Turn(Root(i.path)))
    PROVE  Before(j.priority, i.priority)
<1>1. PICK t, w, v, y : /\ t = Root(j.path) /\ w = Root(i.path)
                        /\ v = PathPriority(j.path) /\ y = PathPriority(i.path)
  OBVIOUS
<1>2. i.priority = Turn(w) \o y /\ Before(Turn(t), Turn(w))
  BY <1>1 DEF Stale, QueuePriority
<1>3. PICK S1, S2 : v \in Seq(S1) /\ y \in Seq(S2)
  BY <1>1, PriorityIsSeq
<1>4. CASE mode = "hinted"
  <2>1. Turn(t) = <<order[t]>> /\ Turn(w) = <<order[w]>> /\ j.priority = Turn(t) \o v
    BY <1>1, <1>4 DEF Turn, Queued
  <2>2. PICK S : S = S1 \cup S2 \cup {order[t], order[w]}
    OBVIOUS
  <2>3. v \in Seq(S) /\ y \in Seq(S)
    <3>1. S1 \subseteq S /\ S2 \subseteq S
      BY <2>2
    <3>2. QED
      BY <1>3, <3>1, SeqOfMore
  <2>4. Turn(t) \in Seq(S) /\ Turn(w) \in Seq(S) /\ Len(Turn(t)) = Len(Turn(w))
    BY <2>1, <2>2
  <2>5. QED
    BY <1>2, <2>1, <2>3, <2>4, BeforeJoin
<1>5. CASE mode = "grouped"
  <2>1. PICK A, G, B, C, H, D :
           /\ A = EmittedByGroup(Group(t)) \div PageSize /\ G = Group(t) /\ B = emitted[t] \div PageSize
           /\ C = EmittedByGroup(Group(w)) \div PageSize /\ H = Group(w) /\ D = emitted[w] \div PageSize
    OBVIOUS
  <2>2. Turn(t) = <<A, G, B>> /\ Turn(w) = <<C, H, D>>
    BY <1>5, <2>1 DEF Turn
  <2>3. A \in Nat /\ B \in Nat /\ C \in Nat /\ D \in Nat
    <3>1. t \in DOMAIN order /\ w \in DOMAIN order
      BY <1>1, <1>5 DEF Queued
    <3>2. QED
      BY <1>5, <2>1, <3>1, GroupCounts
  <2>4. PICK ga \in 0 .. A, gb \in 0 .. B : j.priority = <<ga, G, gb>> \o v
    BY <1>1, <1>5, <2>1 DEF Queued
  <2>5. Before(<<ga, G, gb>>, <<C, H, D>>)
    <3>1. A < C \/ (A = C /\ G < H) \/ (A = C /\ G = H /\ B < D)
      BY <1>2, <2>2, BeforeThree
    <3>2. ga \in Nat /\ gb \in Nat /\ ga <= A /\ gb <= B
      BY <2>3
    <3>3. ga < C \/ (ga = C /\ G < H) \/ (ga = C /\ G = H /\ gb < D)
      <4>1. CASE A < C
        BY <2>3, <3>2, <4>1
      <4>2. CASE A = C /\ G < H
        <5>1. ga < C \/ ga = C
          BY <2>3, <3>2, <4>2
        <5>2. QED
          BY <4>2, <5>1
      <4>3. CASE A = C /\ G = H /\ B < D
        <5>1. (ga < C \/ ga = C) /\ gb < D
          BY <2>3, <3>2, <4>3
        <5>2. QED
          BY <4>3, <5>1
      <4>4. QED
        BY <3>1, <4>1, <4>2, <4>3
    <3>4. QED
      BY <3>3, BeforeThree
  <2>6. PICK S : S = S1 \cup S2 \cup {ga, G, gb, C, H, D}
    OBVIOUS
  <2>7. v \in Seq(S) /\ y \in Seq(S)
    <3>1. S1 \subseteq S /\ S2 \subseteq S
      BY <2>6
    <3>2. QED
      BY <1>3, <3>1, SeqOfMore
  <2>8. PICK u, x : u = <<ga, G, gb>> /\ x = <<C, H, D>>
    OBVIOUS
  <2>9. u \in Seq(S) /\ x \in Seq(S) /\ Len(u) = 3 /\ Len(x) = 3
    BY <2>6, <2>8
  <2>10. Before(u \o v, x \o y)
    BY <2>5, <2>7, <2>8, <2>9, BeforeJoin
  <2>11. QED
    BY <1>2, <2>2, <2>4, <2>8, <2>10
<1>6. QED
  BY <1>4, <1>5 DEF TurnTypes

-----------------------------------------------------------------------------
(* Roots and exact readings that are used up. *)

\* A path of one match or more has tokens.
LEMMA LevelTokens ==
    ASSUME Begun, NEW k \in 1 .. N, NEW c \in Levels("all")[k]
    PROVE  c.tokens # <<>>
<1>1. N \in Nat /\ k - 1 \in 0 .. N /\ "all" \in Flavours
  BY BegunQuery DEF Flavours
<1>2. PICK p \in Levels("all")[k - 1] : p.matched < N /\ c \in Longer(p, "all")
  BY <1>1, LevelsStep
<1>3. p \in PathType /\ p.matched \in 0 .. N - 1
  BY <1>1, <1>2, LevelTypes DEF PathType
<1>4. PICK m \in matches["all"][p.matched] : c = Child(p, m)
  BY <1>2 DEF Longer
<1>5. m \in MatchType
  BY <1>1, <1>3, <1>4, BegunMatches
<1>6. QED
  BY <1>3, <1>4, <1>5, ChildRoot

\* A root no item of the heap begins with is used up.
LEMMA RootUsedUp ==
    ASSUME WalkInv, TailInv, TurnInv, phase = "full", mode # "exact",
           NEW detokenized, NEW encoded, TokensSpellText(detokenized, encoded),
           NEW t, \A i \in heap : Root(i.path) # t
    PROVE  \A k \in 1 .. N : \A p \in Levels("all")[k] : Root(p) = t => StateKey(p) \in taken
<1> DEFINE Fine(k) == \A p \in Levels("all")[k] : Root(p) = t => StateKey(p) \in taken
           Bad == {k \in 1 .. N : ~Fine(k)}
<1>0. Begun
  BY DEF Begun, TailInv
<1>1. N \in Nat /\ N # 0 /\ "all" \in Flavours
  BY <1>0, BegunQuery DEF Flavours
<1>2. ASSUME NEW p, Root(p) = t, Due(StateKey(p)) PROVE StateKey(p) \in taken
  <2>1. PICK key : key = StateKey(p)
    OBVIOUS
  <2>2. deferred = {} /\ \A i \in heap : Queued(i) /\ ItemOK(i)
    BY DEF TurnInv, TurnTypes, TailInv, TailSound
  <2>3. \A q : StateKey(q) = key => Root(q) = t
    BY <1>2, <2>1 DEF StateKey, Root
  <2>4. \A i \in heap : StateKey(i.path) # key
    BY <2>3
  <2>5. ASSUME NEW i \in heap, NEW r \in i.rest, NEW m \in Seeds(r) PROVE StateKey(Child(r.parent, m)) # key
    <3>1. RestOK(r) /\ r.parent.tokens # <<>> /\ Root(r.parent) = Root(i.path)
      BY <2>2, <2>5 DEF ItemOK, Queued
    <3>2. Root(Child(r.parent, m)) = Root(r.parent)
      BY <1>0, <3>1, SeedTypes, ChildRoot
    <3>3. QED
      BY <2>3, <3>1, <3>2
  <2>6. QED
    BY <1>2, <2>1, <2>2, <2>4, <2>5 DEF Due
<1> SUFFICES ASSUME Bad # {} PROVE FALSE
  OBVIOUS
<1>3. PICK k \in Bad : \A n \in Bad : k <= n
  <2>1. Bad \in SUBSET Nat
    BY <1>1
  <2> HIDE DEF Bad
  <2>2. QED
    BY <2>1, LeastNatural
<1>4. k \in 1 .. N /\ k - 1 \in 0 .. N
  BY <1>1, <1>3
<1>5. CASE k = 1
  <2>1. k - 1 = 0 /\ Levels("all")[0] = {EmptyPath}
    BY <1>1, <1>5, LevelsStep
  <2>2. ASSUME NEW p \in Levels("all")[k], Root(p) = t PROVE StateKey(p) \in taken
    <3>1. PICK q \in Levels("all")[k - 1] : p \in Longer(q, "all")
      BY <1>1, <1>4, LevelsStep
    <3>2. p \in RootPaths(FALSE)
      BY <1>0, <2>1, <3>1, RootsAreFirst
    <3>3. Due(StateKey(p))
      BY <3>2 DEF TailInv, TailComplete
    <3>4. QED
      BY <1>2, <2>2, <3>3
  <2>3. QED
    BY <1>3, <2>2
<1>6. CASE k # 1
  <2>1. k - 1 \in 1 .. N /\ k - 1 \notin Bad
    BY <1>1, <1>3, <1>4, <1>6
  <2>2. Fine(k - 1)
    BY <2>1
  <2>3. ASSUME NEW c \in Levels("all")[k], Root(c) = t PROVE StateKey(c) \in taken
    <3>1. PICK p \in Levels("all")[k - 1] : p.matched < N /\ c \in Longer(p, "all")
      BY <1>1, <1>4, LevelsStep
    <3>2. p \in LegalPaths /\ p \in PathType /\ p.matched \in 0 .. N - 1
      <4>1. p \in LegalPaths
        BY <1>4, <3>1 DEF LegalPaths
      <4>2. p \in PathType
        BY <1>0, <4>1, LegalTypes
      <4>3. QED
        BY <1>1, <3>1, <4>1, <4>2 DEF PathType
    <3>3. PICK m \in matches["all"][p.matched] : Fits(m) /\ c = Child(p, m) /\ Allowed(c)
      BY <3>1 DEF Longer
    <3>4. m \in MatchType
      BY <1>0, <1>1, <3>2, <3>3, BegunMatches
    <3>5. Root(p) = t
      BY <1>0, <2>1, <2>3, <3>1, <3>2, <3>3, <3>4, LevelTokens, ChildRoot
    <3>6. PICK q \in LegalPaths : StateKey(q) = StateKey(p) /\ PathDone(q)
      <4>1. PICK key : key = StateKey(p)
        OBVIOUS
      <4>2. key \in taken
        BY <2>2, <3>1, <3>5, <4>1
      <4>3. QED
        BY <4>1, <4>2 DEF TailInv, TailComplete
    <3>7. q.tokens = p.tokens /\ q.matched = p.matched /\ q.predicted = p.predicted
      BY <3>6 DEF StateKey
    <3>8. q.text = p.text
      BY <1>0, <3>2, <3>6, <3>7, SameTokensSameText
    <3>9. PICK d : d = Child(q, m)
      OBVIOUS
    <3>10. /\ d.tokens = c.tokens /\ d.text = c.text /\ d.matched = c.matched
           /\ d.predicted = c.predicted
      BY <3>3, <3>7, <3>8, <3>9 DEF Child
    <3>11. Allowed(d) /\ StateKey(d) = StateKey(c) /\ Root(d) = t
      BY <2>3, <3>3, <3>10 DEF Allowed, StateKey, Root
    <3>12. d \in Longer(q, "all")
      BY <3>3, <3>7, <3>9, <3>11 DEF Longer
    <3>13. q.matched # N
      BY <1>1, <3>1, <3>7
    <3>14. Due(StateKey(d))
      BY <3>6, <3>12, <3>13 DEF PathDone
    <3>15. QED
      BY <1>2, <3>11, <3>14
  <2>4. QED
    BY <1>3, <2>3
<1>7. QED
  BY <1>5, <1>6

\* What the index spells is a legal path of one match or more.
LEMMA CoversLegal ==
    ASSUME Begun, NEW c \in Covers
    PROVE  c.matched = N /\ c \in LegalPaths /\ \E k \in 1 .. N : c \in Levels("all")[k]
<1>1. N \in Nat /\ N # 0
  BY BegunQuery
<1>2. c.matched = N /\ \E f \in {"all", "exact"} : \E k \in 0 .. N : c \in Levels(f)[k]
  BY DEF Covers
<1>3. PICK k \in 0 .. N : c \in Levels("all")[k]
  BY <1>2, ExactLevels
<1>4. k # 0
  BY <1>1, <1>2, <1>3, LevelsStep, EmptyPathType
<1>5. k \in 1 .. N
  BY <1>4
<1>6. QED
  BY <1>2, <1>3, <1>5 DEF LegalPaths

\* A text whose state was taken is out.
LEMMA TakenIsOut ==
    ASSUME WalkInv, TailInv, phase = "full",
           NEW detokenized, NEW encoded, TokensSpellText(detokenized, encoded),
           NEW c \in Covers, StateKey(c) \in taken
    PROVE  c.text \in existing
<1>0. Begun
  BY DEF Begun, TailInv
<1>1. c.matched = N /\ c \in LegalPaths
  BY <1>0, CoversLegal
<1>2. PICK p \in LegalPaths : StateKey(p) = StateKey(c) /\ PathDone(p)
  <2>1. PICK key : key = StateKey(c)
    OBVIOUS
  <2>2. key \in taken
    BY <2>1
  <2>3. QED
    BY <2>1, <2>2 DEF TailInv, TailComplete
<1>3. p.tokens = c.tokens /\ p.matched = N
  BY <1>1, <1>2 DEF StateKey
<1>4. p.text = c.text
  BY <1>0, <1>1, <1>2, <1>3, SameTokensSameText
<1>5. QED
  BY <1>2, <1>3, <1>4 DEF PathDone

\* When an up-to-date item is first in the heap, the roots whose turn is
\* earlier are used up.
LEMMA RootsInTurn ==
    ASSUME WalkInv, TailInv, TurnInv, phase = "full", mode # "exact",
           NEW detokenized, NEW encoded, TokensSpellText(detokenized, encoded),
           NEW i \in Top, ~Stale(i), NEW d \in Covers, Before(Turn(Root(d)), Turn(Root(i.path)))
    PROVE  d.text \in existing
<1>0. Begun
  BY DEF Begun, TailInv
<1>1. i \in heap /\ \A j \in heap : ~Before(j.priority, i.priority)
  BY DEF Top, Firsts
<1>2. TurnTypes /\ \A j \in heap : Queued(j)
  BY DEF TurnInv
<1>3. ASSUME NEW j \in heap, Root(j.path) = Root(d) PROVE FALSE
  <2>1. Before(Turn(Root(j.path)), Turn(Root(i.path)))
    BY <1>3
  <2>2. QED
    BY <1>1, <1>2, <2>1, EarlierTurn
<1>4. PICK k \in 1 .. N : d \in Levels("all")[k]
  BY <1>0, CoversLegal
<1>5. PICK t : t = Root(d)
  OBVIOUS
<1>6. \A j \in heap : Root(j.path) # t
  BY <1>3, <1>5
<1>7. StateKey(d) \in taken
  BY <1>4, <1>5, <1>6, RootUsedUp
<1>8. QED
  BY <1>7, TakenIsOut

\* An extended path is first in the heap only when no exact one is there.
LEMMA ExtendedLast ==
    ASSUME mode = "exact", NEW i \in Top, \A j \in heap : Queued(j), Extended(i.path)
    PROVE  \A j \in heap : Extended(j.path)
<1> SUFFICES ASSUME NEW j \in heap, ~Extended(j.path) PROVE FALSE
  OBVIOUS
<1>1. i \in heap /\ ~Before(j.priority, i.priority)
  BY DEF Top, Firsts
<1>2. i.priority = PathPriority(i.path) /\ j.priority = PathPriority(j.path)
  BY <1>1 DEF Queued
<1>3. PICK a, b, c, d : i.priority = <<1, a, b, c, d>>
  BY <1>2, PriorityIsSeq
<1>4. PICK w, x, y, z : j.priority = <<0, w, x, y, z>>
  BY <1>2, PriorityIsSeq
<1>5. 1 \in DOMAIN j.priority /\ j.priority[1] = 0 /\ i.priority[1] = 1
  BY <1>3, <1>4
<1>6. j.priority[1] < i.priority[1] /\ \A k \in 1 .. (1 - 1) : j.priority[k] = i.priority[k]
  BY <1>5
<1>7. Before(j.priority, i.priority)
  BY <1>5, <1>6 DEF Before
<1>8. QED
  BY <1>1, <1>7

\* The exact readings are used up when no item of the heap has one.
LEMMA ExactUsedUp ==
    ASSUME WalkInv, TailInv, phase = "full", ExactsDue, \A i \in heap : Extended(i.path),
           NEW detokenized, NEW encoded, TokensSpellText(detokenized, encoded)
    PROVE  \A k \in 1 .. N : \A p \in Levels("all")[k] : ~Extended(p) => StateKey(p) \in taken
<1> DEFINE Fine(k) == \A p \in Levels("all")[k] : ~Extended(p) => StateKey(p) \in taken
           Bad == {k \in 1 .. N : ~Fine(k)}
<1>0. Begun
  BY DEF Begun, TailInv
<1>1. N \in Nat /\ N # 0
  BY <1>0, BegunQuery
<1>2. \A p : Waits(p) => StateKey(p) \in taken
  BY DEF Waits
<1> SUFFICES ASSUME Bad # {} PROVE FALSE
  OBVIOUS
<1>3. PICK k \in Bad : \A n \in Bad : k <= n
  <2>1. Bad \in SUBSET Nat
    BY <1>1
  <2> HIDE DEF Bad
  <2>2. QED
    BY <2>1, LeastNatural
<1>4. k \in 1 .. N /\ k - 1 \in 0 .. N
  BY <1>1, <1>3
<1>5. CASE k = 1
  <2>1. k - 1 = 0 /\ Levels("all")[0] = {EmptyPath}
    BY <1>1, <1>5, LevelsStep
  <2>2. ASSUME NEW p \in Levels("all")[k], ~Extended(p) PROVE StateKey(p) \in taken
    <3>1. PICK q \in Levels("all")[k - 1] : p \in Longer(q, "all")
      BY <1>1, <1>4, LevelsStep
    <3>2. p \in RootPaths(FALSE)
      BY <1>0, <2>1, <3>1, RootsAreFirst
    <3>3. Waits(p)
      BY <2>2, <3>2 DEF ExactsDue
    <3>4. QED
      BY <1>2, <3>3
  <2>3. QED
    BY <1>3, <2>2
<1>6. CASE k # 1
  <2>1. k - 1 \in 1 .. N /\ k - 1 \notin Bad
    BY <1>1, <1>3, <1>4, <1>6
  <2>2. Fine(k - 1)
    BY <2>1
  <2>3. ASSUME NEW c \in Levels("all")[k], ~Extended(c) PROVE StateKey(c) \in taken
    <3>1. PICK p \in Levels("all")[k - 1] : p.matched < N /\ c \in Longer(p, "all")
      BY <1>1, <1>4, LevelsStep
    <3>2. p \in LegalPaths
      BY <1>4, <3>1 DEF LegalPaths
    <3>3. PICK m \in matches["all"][p.matched] : Fits(m) /\ c = Child(p, m) /\ Allowed(c)
      BY <3>1 DEF Longer
    <3>4. ~Extended(p)
      BY <1>0, <2>3, <3>1, <3>2, <3>3, ExtendedStays
    <3>5. PICK q \in LegalPaths : ~Extended(q) /\ StateKey(q) = StateKey(p) /\ ExactDone(q)
      <4>1. PICK key : key = StateKey(p)
        OBVIOUS
      <4>2. key \in taken
        BY <2>2, <3>1, <3>4, <4>1
      <4>3. QED
        BY <4>1, <4>2 DEF ExactsDue
    <3>6. q.tokens = p.tokens /\ q.matched = p.matched /\ q.predicted = p.predicted
      BY <3>5 DEF StateKey
    <3>7. q.text = p.text
      BY <1>0, <3>2, <3>5, <3>6, SameTokensSameText
    <3>8. PICK d : d = Child(q, m)
      OBVIOUS
    <3>9. /\ d.tokens = c.tokens /\ d.text = c.text /\ d.matched = c.matched
          /\ d.predicted = c.predicted
      BY <3>3, <3>6, <3>7, <3>8 DEF Child
    <3>10. Allowed(d) /\ StateKey(d) = StateKey(c)
      BY <3>3, <3>9 DEF Allowed, StateKey
    <3>11. d \in Longer(q, "all")
      BY <3>3, <3>6, <3>8, <3>10 DEF Longer
    <3>12. q.matched # N
      BY <1>1, <3>1, <3>6
    <3>13. ~Extended(d)
      BY <1>0, <2>3, <3>1, <3>2, <3>3, <3>4, <3>5, <3>6, <3>8, ExtendedAlike
    <3>14. Waits(d)
      BY <3>5, <3>11, <3>12, <3>13 DEF ExactDone
    <3>15. QED
      BY <1>2, <3>10, <3>14
  <2>4. QED
    BY <1>3, <2>3
<1>7. QED
  BY <1>5, <1>6

\* An extended path is first in the heap only when every exact text is out.
LEMMA ExactsInTurn ==
    ASSUME WalkInv, TailInv, TurnInv, phase = "full", mode = "exact",
           NEW detokenized, NEW encoded, TokensSpellText(detokenized, encoded),
           NEW i \in Top, Extended(i.path)
    PROVE  ExactsOut
<1>0. Begun
  BY DEF Begun, TailInv
<1>1. (ExactsOut \/ ExactsDue) /\ \A j \in heap : Queued(j)
  BY DEF TurnInv
<1>2. CASE ExactsDue
  <2>1. \A j \in heap : Extended(j.path)
    BY <1>1, ExtendedLast
  <2>2. ASSUME NEW c \in Covers, ~Extended(c) PROVE c.text \in existing
    <3>1. PICK k \in 1 .. N : c \in Levels("all")[k]
      BY <1>0, CoversLegal
    <3>2. StateKey(c) \in taken
      BY <1>2, <2>1, <2>2, <3>1, ExactUsedUp
    <3>3. QED
      BY <3>2, TakenIsOut
  <2>3. QED
    BY <2>2 DEF ExactsOut
<1>3. QED
  BY <1>1, <1>2

-----------------------------------------------------------------------------
(* The roots, when the walk starts. *)

\* The path no match was laid to yet is exact.
LEMMA EmptyIsExact == ASSUME Begun PROVE ~Extended(EmptyPath)
<1>1. EmptyPath.reading = <<>> /\ EmptyPath.matched = 0
  BY DEF EmptyPath
<1>2. FlattenSeq(<<>>) = <<>>
  <2>1. <<>> \in Nodes /\ Len(<<>>) = 0
    BY DEF Nodes
  <2>2. QED
    BY <2>1, FlattenUnfolds
<1>3. SubSeq(query.raw, 1, 0) = <<>>
  OBVIOUS
<1>4. QED
  BY <1>1, <1>2, <1>3 DEF Extended

\* Roots begin with a token of some entry; along exact readings they are exact.
LEMMA RootFacts ==
    ASSUME Begun
    PROVE  /\ \A p \in RootPaths(FALSE) : p.tokens # <<>> /\ p \in LegalPaths
           /\ \A p \in RootPaths(TRUE) : p.tokens # <<>> /\ p \in LegalPaths /\ ~Extended(p)
           /\ IsFiniteSet({Root(p) : p \in RootPaths(FALSE)})
<1>1. /\ EmptyPath.matched < N /\ EmptyPath.matched = 0 /\ EmptyPath \in PathType /\ EmptyPath \in LegalPaths
      /\ Longer(EmptyPath, "all") \subseteq LegalPaths /\ 0 \in 0 .. N - 1 /\ "all" \in Flavours
  BY EmptyPathType, BegunQuery, LegalTypes DEF Flavours
<1>2. /\ RootPaths(FALSE) = Longer(EmptyPath, "all") /\ RootPaths(TRUE) \subseteq Longer(EmptyPath, "all")
      /\ \A p \in RootPaths(TRUE) : \E m \in matches["exact"][0] : p = Child(EmptyPath, m)
  BY RootsAreFirst
<1>3. ASSUME NEW p \in Longer(EmptyPath, "all")
      PROVE  p.tokens # <<>> /\ p \in LegalPaths /\ \E e \in Entries : Root(p) = e.tokens[1]
  <2>1. PICK m \in matches["all"][0] : p = Child(EmptyPath, m)
    BY <1>1 DEF Longer
  <2>2. m \in MatchType /\ m.entry \in Entries
    BY <1>1, <2>1, BegunMatches DEF MatchType
  <2>3. p.tokens # <<>>
    BY <1>1, <2>1, <2>2, ChildRoot
  <2>4. m.entry.tokens \in Seq(Nat)
    BY <2>2, WalkAssumption
  <2>5. p.tokens = <<>> \o m.entry.tokens
    BY <2>1 DEF Child, EmptyPath
  <2>6. p.tokens = m.entry.tokens
    BY <2>4, <2>5, ConcatEmptySeq
  <2>7. QED
    BY <1>1, <2>2, <2>3, <2>6 DEF Root
<1>4. ASSUME NEW p \in RootPaths(TRUE) PROVE ~Extended(p)
  <2>1. PICK m \in matches["exact"][0] : p = Child(EmptyPath, m)
    BY <1>2
  <2>2. QED
    BY <1>1, <2>1, EmptyIsExact, ExtendedStays
<1>5. IsFiniteSet({Root(p) : p \in RootPaths(FALSE)})
  <2> DEFINE f == [e \in Entries |-> e.tokens[1]]
             R == {f[e] : e \in Entries}
  <2>1. f \in Surjection(Entries, R)
    BY DEF Surjection
  <2>2. IsFiniteSet(R)
    BY <2>1, MatchAssumption, FS_Surjection
  <2>3. {Root(p) : p \in RootPaths(FALSE)} \subseteq R
    BY <1>2, <1>3
  <2> HIDE DEF R
  <2>4. QED
    BY <2>2, <2>3, FS_Subset
<1>6. QED
  BY <1>2, <1>3, <1>4, <1>5

\* The modes, and the counts at zero.
CountsStart ==
    /\ mode \in {"exact", "hinted", "grouped"}
    /\ mode = "grouped" => /\ DOMAIN order = {Root(p) : p \in RootPaths(FALSE)}
                           /\ emitted \in [DOMAIN order -> Nat]

\* The heap that the roots start.
LEMMA RootsTurn ==
    Begun /\ RootsPushed /\ CountsStart /\ taken = {} /\ phase \in {"exact", "full"} => TurnInv
<1> SUFFICES ASSUME Begun, RootsPushed, CountsStart, taken = {}, phase \in {"exact", "full"}
             PROVE  TurnInv
  OBVIOUS
<1>1. phase = "exact" => mode = "exact"
  BY DEF Begun, TailTypes
<1>2. PICK roots : roots = RootPaths(phase = "exact")
  OBVIOUS
<1>3. (phase = "exact" /\ roots = RootPaths(TRUE)) \/ (phase = "full" /\ roots = RootPaths(FALSE))
  <2>1. CASE phase = "exact"
    <3>1. (phase = "exact") = TRUE
      BY <2>1
    <3>2. QED
      BY <1>2, <2>1, <3>1 DEF RootPaths
  <2>2. CASE phase = "full"
    <3>1. (phase = "exact") = FALSE
      BY <2>2
    <3>2. QED
      BY <1>2, <2>2, <3>1 DEF RootPaths
  <2>3. QED
    BY <2>1, <2>2
<1>4. Aside = {p \in roots : mode = "exact" /\ Extended(p)}
  BY <1>2 DEF Aside
<1>5. deferred = Aside /\ heap = {Item(p, {}) : p \in roots \ Aside}
  BY <1>2 DEF RootsPushed
<1>6. \A p \in roots : p.tokens # <<>> /\ (mode = "grouped" => Root(p) \in DOMAIN order)
  BY <1>1, <1>3, RootFacts DEF CountsStart
<1>7. TurnTypes
  <2>1. mode = "grouped" => IsFiniteSet(DOMAIN order)
    BY RootFacts DEF CountsStart
  <2>2. QED
    BY <1>4, <1>5, <1>6, <2>1 DEF TurnTypes, CountsStart
<1>8. ASSUME NEW i \in heap PROVE Queued(i) /\ i.path \in roots \ Aside
  <2>1. PICK p \in roots \ Aside : i = Item(p, {})
    BY <1>5
  <2>2. i.path = p /\ i.rest = {} /\ i.priority = QueuePriority(p)
    BY <2>1 DEF Item
  <2>3. Fresh(i)
    BY <1>6, <2>1, <2>2 DEF Fresh
  <2>4. QED
    BY <1>7, <2>1, <2>2, <2>3, FreshQueued
<1>9. phase = "exact" => deferred = {} /\ \A i \in heap : ~Extended(i.path)
  BY <1>3, <1>4, <1>5, <1>8, RootFacts
<1>10. ASSUME phase = "full", mode = "exact"
       PROVE  (\A p \in deferred : Extended(p)) /\ ExactsDue
  <2>1. \A p \in deferred : Extended(p)
    BY <1>4, <1>5
  <2>2. ASSUME NEW p \in RootPaths(FALSE), ~Extended(p) PROVE Waits(p)
    <3>1. p \in roots \ Aside
      BY <1>3, <1>4, <1>10, <2>2
    <3>2. PICK i : i = Item(p, {})
      OBVIOUS
    <3>3. i \in heap /\ i.path = p
      BY <1>5, <3>1, <3>2 DEF Item
    <3>4. QED
      BY <2>2, <3>3 DEF Waits
  <2>3. QED
    BY <2>1, <2>2 DEF ExactsDue
<1>11. QED
  BY <1>7, <1>8, <1>9, <1>10 DEF TurnInv

\* The same in the next state.
LEMMA RootsTurnNext ==
    (Begun /\ RootsPushed /\ CountsStart /\ taken = {} /\ phase \in {"exact", "full"} => TurnInv)'
BY RootsTurn, PTL

\* The roots are numbered, each once.
LEMMA RootsNumbered == \A f \in OrderedRoots : DOMAIN f = {Root(p) : p \in RootPaths(FALSE)}
BY DEF OrderedRoots, Numberings

\* The same in the next state.
LEMMA RootsNumberedNext == (\A f \in OrderedRoots : DOMAIN f = {Root(p) : p \in RootPaths(FALSE)})'
BY RootsNumbered, PTL

\* The walk begins with every root in its turn.
LEMMA BeginTurn ==
    ASSUME WalkInv, TailInv, WalkInv', TailInv', Begin
    PROVE  TurnInv'
<1>1. /\ phase = "matching" /\ taken' = taken
      /\ mode' \in {"exact", "hinted", "grouped"}
      /\ phase' \in {"exact", "full"} /\ phase' # "matching"
      /\ emitted' = [t \in DOMAIN order' |-> 0]
      /\ PushRoots
  BY DEF Begin
<1>2. mode' = "grouped" => order' \in OrderedRoots'
  BY DEF Begin
<1>3. Begun'
  BY <1>1 DEF Begun, TailInv
<1>4. taken' = {}
  BY <1>1 DEF TailInv, TailTypes
<1>5. CountsStart'
  BY <1>1, <1>2, RootsNumberedNext DEF CountsStart
<1>6. RootsPushed'
  BY <1>1 DEF PushRoots, RootsPushed
<1>7. QED
  BY <1>1, <1>3, <1>4, <1>5, <1>6, RootsTurnNext

\* So does the second walk.
LEMMA SecondTurn ==
    ASSUME WalkInv, TailInv, TurnInv, WalkInv', TailInv', SecondWalk
    PROVE  TurnInv'
<1>1. /\ phase = "exact" /\ phase' = "full" /\ taken' = {} /\ UNCHANGED inputVars
      /\ PushRoots
  BY DEF SecondWalk
<1>2. mode = "exact" /\ mode' = mode
  BY <1>1 DEF TailInv, TailTypes, inputVars
<1>3. Begun'
  BY <1>1 DEF Begun, TailInv
<1>4. CountsStart' /\ RootsPushed'
  BY <1>1, <1>2 DEF CountsStart, PushRoots, RootsPushed
<1>5. QED
  BY <1>1, <1>3, <1>4, RootsTurnNext

-----------------------------------------------------------------------------
(* Every step keeps the turns. *)

\* In exact mode the counts play no part.
LEMMA NeverStale ==
    ASSUME mode = "exact", NEW i, Queued(i)
    PROVE  ~Stale(i)
<1>1. i.priority = PathPriority(i.path) /\ QueuePriority(i.path) = <<>> \o PathPriority(i.path)
  BY DEF Queued, QueuePriority, Turn
<1>2. PICK S : PathPriority(i.path) \in Seq(S)
  BY PriorityIsSeq
<1>3. QED
  BY <1>1, <1>2, ConcatEmptySeq DEF Stale

\* What a step must do to keep the turns.
LEMMA TurnStep ==
    ASSUME TurnInv, phase \in {"exact", "full"}, phase' = phase, UNCHANGED <<vars, inputVars>>,
           deferred' \subseteq deferred,
           mode = "grouped" => /\ emitted' \in [DOMAIN order -> Nat]
                               /\ \A t \in DOMAIN order : emitted[t] <= emitted'[t],
           \A i \in heap' : i \in heap \/ Queued(i)',
           phase = "exact" => \A i \in heap' : ~Extended(i.path),
           phase = "full" /\ mode = "exact" => ExactsOut' \/ ExactsDue'
    PROVE  TurnInv'
<1>1. query' = query /\ mode' = mode /\ order' = order
  BY DEF vars, inputVars
<1>2. \A p : Extended(p)' <=> Extended(p)
  BY <1>1 DEF Extended
<1>3. TurnTypes
  BY DEF TurnInv
<1>4. TurnTypes'
  BY <1>1, <1>3 DEF TurnTypes
<1>5. ASSUME NEW i \in heap' PROVE Queued(i)'
  <2>1. CASE i \in heap
    <3>1. Queued(i)
      BY <2>1 DEF TurnInv
    <3>2. QED
      BY <1>1, <1>3, <3>1, QueuedStays
  <2>2. QED
    BY <2>1
<1>6. phase = "exact" => deferred' = {}
  BY DEF TurnInv
<1>7. phase = "full" /\ mode = "exact" => \A p \in deferred' : Extended(p)
  BY DEF TurnInv
<1>8. QED
  BY <1>1, <1>2, <1>4, <1>5, <1>6, <1>7 DEF TurnInv

\* Texts that are out stay out.
LEMMA OutStays ==
    ASSUME UNCHANGED <<vars, inputVars>>, existing \subseteq existing', ExactsOut
    PROVE  ExactsOut'
<1>1. query' = query /\ matches' = matches
  BY DEF vars, inputVars
<1>2. Covers' = Covers
  BY <1>1, InputsFixed
<1>3. QED
  BY <1>1, <1>2 DEF ExactsOut, Extended

\* What a step must do to keep the exact readings due.
LEMMA ExactsStay ==
    ASSUME UNCHANGED <<vars, inputVars>>, existing \subseteq existing', taken \subseteq taken', ExactsDue,
           \A j \in heap : Extended(j.path) \/ j \in heap' \/ StateKey(j.path) \in taken',
           \A key \in taken' : \/ key \in taken
                               \/ \E p \in LegalPaths : ~Extended(p) /\ StateKey(p) = key /\ ExactDone(p)'
    PROVE  ExactsDue'
<1>1. query' = query /\ matches' = matches /\ found' = found
  BY DEF vars, inputVars
<1>2. /\ N' = N /\ LegalPaths' = LegalPaths
      /\ \A p, flavour : Longer(p, flavour)' = Longer(p, flavour)
  BY <1>1, InputsFixed
<1>3. \A p : Extended(p)' <=> Extended(p)
  BY <1>1 DEF Extended
<1>4. ASSUME NEW p, Waits(p) PROVE Waits(p)'
  <2>1. PICK key : key = StateKey(p)
    OBVIOUS
  <2>2. key \in taken \/ \E i \in heap : ~Extended(i.path) /\ StateKey(i.path) = key
    BY <1>4, <2>1 DEF Waits
  <2>3. key \in taken' \/ \E i \in heap' : ~Extended(i.path) /\ StateKey(i.path) = key
    BY <2>2
  <2>4. QED
    BY <1>3, <2>1, <2>3 DEF Waits
<1>5. RootPaths(FALSE)' = RootPaths(FALSE)
  <2>1. \A m : RootPath(m)' = RootPath(m)
    BY <1>1, <1>2 DEF RootPath, PredictedBy
  <2>2. QED
    BY <1>1, <2>1 DEF RootPaths, Fits
<1>6. ASSUME NEW p, ExactDone(p) PROVE ExactDone(p)'
  <2>1. CASE p.matched = N
    BY <1>2, <1>6, <2>1 DEF ExactDone
  <2>2. CASE p.matched # N
    BY <1>2, <1>3, <1>4, <1>6, <2>2 DEF ExactDone
  <2>3. QED
    BY <2>1, <2>2
<1>7. \A p \in RootPaths(FALSE)' : ~Extended(p)' => Waits(p)'
  BY <1>3, <1>4, <1>5 DEF ExactsDue
<1>8. ASSUME NEW key \in taken'
      PROVE  \E p \in LegalPaths : ~Extended(p) /\ StateKey(p) = key /\ ExactDone(p)'
  BY <1>6, <1>8 DEF ExactsDue
<1>9. QED
  BY <1>2, <1>3, <1>7, <1>8 DEF ExactsDue

\* The counts of a step that gives nothing.
LEMMA CountsStay ==
    ASSUME TurnTypes, emitted' = emitted
    PROVE  mode = "grouped" => /\ emitted' \in [DOMAIN order -> Nat]
                               /\ \A t \in DOMAIN order : emitted[t] <= emitted'[t]
<1> SUFFICES ASSUME mode = "grouped"
             PROVE  emitted \in [DOMAIN order -> Nat] /\ \A t \in DOMAIN order : emitted[t] <= emitted[t]
  OBVIOUS
<1>1. emitted \in [DOMAIN order -> Nat]
  BY DEF TurnTypes
<1>2. QED
  BY <1>1

\* Roots set aside join the heap when only extended paths are there.
LEMMA UndeferTurn ==
    ASSUME WalkInv, TailInv, TurnInv, Undefer
    PROVE  TurnInv'
<1>1. /\ phase \in {"exact", "full"} /\ deferred # {} /\ deferred' = {}
      /\ heap' = heap \cup {Item(p, {}) : p \in deferred}
      /\ UNCHANGED <<vars, inputVars>>
      /\ phase' = phase /\ taken' = taken /\ existing' = existing /\ emitted' = emitted
  BY DEF Undefer
<1>2. TurnTypes /\ mode = "exact" /\ phase = "full" /\ (ExactsOut \/ ExactsDue)
  BY <1>1 DEF TurnInv, TurnTypes
<1>3. query' = query /\ mode' = mode /\ order' = order
  BY <1>1 DEF vars, inputVars
<1>4. mode = "grouped" => /\ emitted' \in [DOMAIN order -> Nat]
                          /\ \A t \in DOMAIN order : emitted[t] <= emitted'[t]
  BY <1>1, <1>2, CountsStay
<1>5. ASSUME NEW i \in heap' PROVE i \in heap \/ Queued(i)'
  <2> SUFFICES ASSUME i \notin heap PROVE Queued(i)'
    OBVIOUS
  <2>1. PICK p \in deferred : i = Item(p, {})
    BY <1>1
  <2>2. p.tokens # <<>> /\ i.path = p /\ i.rest = {} /\ i.priority = QueuePriority(p)
    BY <1>2, <2>1 DEF Item, TurnTypes
  <2>3. Fresh(i)
    BY <1>2, <2>2 DEF Fresh
  <2>4. Queued(i)
    BY <1>2, <2>3, FreshQueued
  <2>5. QED
    BY <1>2, <1>3, <1>4, <2>4, QueuedStays
<1>6. ExactsOut' \/ ExactsDue'
  <2>1. ExactsOut => ExactsOut'
    BY <1>1, OutStays
  <2>2. ExactsDue => ExactsDue'
    BY <1>1, ExactsStay
  <2>3. QED
    BY <1>2, <2>1, <2>2
<1>7. QED
  BY <1>1, <1>2, <1>4, <1>5, <1>6, TurnStep

\* A stale item goes back with the priority of its root's turn.
LEMMA RequeueTurn ==
    ASSUME WalkInv, TailInv, TurnInv, NEW i \in heap, Requeue(i)
    PROVE  TurnInv'
<1>1. /\ phase \in {"exact", "full"} /\ deferred' = deferred /\ Stale(i)
      /\ heap' = (heap \ {i}) \cup {Item(i.path, i.rest)}
      /\ UNCHANGED <<vars, inputVars>>
      /\ phase' = phase /\ emitted' = emitted
  BY DEF Requeue, Popping
<1>2. TurnTypes /\ Queued(i)
  BY <1>1 DEF TurnInv
<1>3. mode # "exact" /\ phase = "full"
  BY <1>1, <1>2, NeverStale DEF TailInv, TailTypes
<1>4. query' = query /\ mode' = mode /\ order' = order
  BY <1>1 DEF vars, inputVars
<1>5. mode = "grouped" => /\ emitted' \in [DOMAIN order -> Nat]
                          /\ \A t \in DOMAIN order : emitted[t] <= emitted'[t]
  BY <1>1, <1>2, CountsStay
<1>6. ASSUME NEW j \in heap' PROVE j \in heap \/ Queued(j)'
  <2> SUFFICES ASSUME j \notin heap PROVE Queued(j)'
    OBVIOUS
  <2>1. j = Item(i.path, i.rest)
    BY <1>1
  <2>2. j.path = i.path /\ j.rest = i.rest /\ j.priority = QueuePriority(j.path)
    BY <2>1 DEF Item
  <2>3. Fresh(j)
    BY <1>2, <1>3, <2>2 DEF Fresh, Queued
  <2>4. Queued(j)
    BY <1>2, <2>3, FreshQueued
  <2>5. QED
    BY <1>2, <1>4, <1>5, <2>4, QueuedStays
<1>7. QED
  BY <1>1, <1>3, <1>5, <1>6, TurnStep

\* What is left behind in exact mode is nothing.
LEMMA NothingLeft ==
    ASSUME mode = "exact", NEW i, Queued(i)
    PROVE  PushRemaining(i) = {{}}
BY DEF Queued, PushRemaining

\* A path skipped as visited.
LEMMA SkipTurn ==
    ASSUME WalkInv, TailInv, TurnInv, NEW i \in heap, SkipVisited(i)
    PROVE  TurnInv'
<1>1. /\ phase \in {"exact", "full"} /\ deferred' = deferred /\ StateKey(i.path) \in taken
      /\ UNCHANGED <<vars, inputVars>>
      /\ phase' = phase /\ taken' = taken /\ existing' = existing /\ emitted' = emitted
  BY DEF SkipVisited, Popping
<1>2. TurnTypes /\ \A j \in heap : Queued(j)
  BY <1>1 DEF TurnInv
<1>3. PICK items \in PushRemaining(i) : heap' = (heap \ {i}) \cup items
  BY DEF SkipVisited
<1>4. query' = query /\ mode' = mode /\ order' = order
  BY <1>1 DEF vars, inputVars
<1>5. mode = "grouped" => /\ emitted' \in [DOMAIN order -> Nat]
                          /\ \A t \in DOMAIN order : emitted[t] <= emitted'[t]
  BY <1>1, <1>2, CountsStay
<1>6. Begun /\ ItemOK(i)
  BY <1>1 DEF Begun, TailInv, TailSound
<1>7. ASSUME NEW j \in heap' PROVE j \in heap \/ Queued(j)'
  <2> SUFFICES ASSUME j \notin heap PROVE Queued(j)'
    OBVIOUS
  <2>1. j \in items
    BY <1>3
  <2>2. Fresh(j)
    BY <1>2, <1>3, <1>6, <2>1, LeftFresh
  <2>3. Queued(j)
    BY <1>2, <2>2, FreshQueued
  <2>4. QED
    BY <1>2, <1>4, <1>5, <2>3, QueuedStays
<1>8. mode = "exact" => heap' = heap \ {i}
  BY <1>2, <1>3, NothingLeft
<1>9. phase = "exact" => \A j \in heap' : ~Extended(j.path)
  BY <1>1, <1>8 DEF TurnInv, TailInv, TailTypes
<1>10. ASSUME phase = "full", mode = "exact" PROVE ExactsOut' \/ ExactsDue'
  <2>1. ExactsOut => ExactsOut'
    BY <1>1, OutStays
  <2>2. \A j \in heap : Extended(j.path) \/ j \in heap' \/ StateKey(j.path) \in taken'
    BY <1>1, <1>8, <1>10
  <2>3. ExactsDue => ExactsDue'
    BY <1>1, <2>2, ExactsStay
  <2>4. QED
    BY <1>10, <2>1, <2>3 DEF TurnInv
<1>11. QED
  BY <1>1, <1>5, <1>7, <1>9, <1>10, TurnStep

\* A path given to the caller: the counts of its root grow, and its siblings
\* are pushed with the new ones.
LEMMA YieldTurn ==
    ASSUME WalkInv, TailInv, TurnInv, WalkInv', TailInv', NEW i \in heap, Yield(i),
           NEW detokenized, NEW encoded, TokensSpellText(detokenized, encoded)
    PROVE  TurnInv'
<1>1. /\ phase \in {"exact", "full"} /\ deferred' = deferred /\ i \in Top
      /\ i.path.matched = N
      /\ UNCHANGED <<vars, inputVars>>
      /\ phase' = phase /\ taken' = taken \cup {StateKey(i.path)}
      /\ existing' = existing \cup {i.path.text}
      /\ emitted' = [t \in DOMAIN emitted |->
                        IF mode = "grouped" /\ t = Root(i.path) /\ i.path.text \notin existing
                        THEN emitted[t] + 1 ELSE emitted[t]]
  BY DEF Yield, Popping
<1>2. TurnTypes /\ \A j \in heap : Queued(j)
  BY <1>1 DEF TurnInv
<1>3. PICK items \in PushRemaining(i)' : heap' = (heap \ {i}) \cup items
  BY DEF Yield
<1>4. query' = query /\ mode' = mode /\ order' = order /\ matches' = matches
  BY <1>1 DEF vars, inputVars
<1>5. ASSUME mode = "grouped"
      PROVE  /\ emitted' \in [DOMAIN order -> Nat]
             /\ \A t \in DOMAIN order : emitted[t] <= emitted'[t]
  <2>1. emitted \in [DOMAIN order -> Nat] /\ DOMAIN emitted = DOMAIN order
    BY <1>2, <1>5 DEF TurnTypes
  <2>2. \A t \in DOMAIN order : emitted[t] \in Nat /\ (emitted'[t] = emitted[t] \/ emitted'[t] = emitted[t] + 1)
    BY <1>1, <2>1
  <2>3. \A t \in DOMAIN order : emitted'[t] \in Nat /\ emitted[t] <= emitted'[t]
    BY <2>2
  <2>4. emitted' = [t \in DOMAIN order |-> emitted'[t]]
    BY <1>1, <2>1
  <2>5. QED
    BY <2>3, <2>4
<1>6. Begun /\ ItemOK(i) /\ Begun'
  BY <1>1 DEF Begun, TailInv, TailSound
<1>7. Queued(i)' /\ ItemOK(i)' /\ TurnTypes'
  <2>1. Queued(i)'
    BY <1>2, <1>4, <1>5, QueuedStays
  <2>2. ItemOK(i)'
    BY <1>4, <1>6, SeedsFixed
  <2>3. TurnTypes'
    BY <1>1, <1>2, <1>4, <1>5 DEF TurnTypes
  <2>4. QED
    BY <2>1, <2>2, <2>3
<1>8. ASSUME NEW j \in heap' PROVE j \in heap \/ Queued(j)'
  <2> SUFFICES ASSUME j \notin heap PROVE Queued(j)'
    OBVIOUS
  <2>1. j \in items
    BY <1>3
  <2>2. Fresh(j)'
    BY <1>3, <1>6, <1>7, <2>1, LeftFreshNext
  <2>3. QED
    BY <1>7, <2>2, FreshQueuedNext
<1>9. mode = "exact" => heap' = heap \ {i}
  <2> SUFFICES ASSUME mode = "exact" PROVE items = {}
    BY <1>3
  <2>1. i.rest = {}
    BY <1>2 DEF Queued
  <2>2. QED
    BY <1>3, <2>1 DEF PushRemaining
<1>10. phase = "exact" => \A j \in heap' : ~Extended(j.path)
  BY <1>1, <1>9 DEF TurnInv, TailInv, TailTypes
<1>11. ASSUME phase = "full", mode = "exact" PROVE ExactsOut' \/ ExactsDue'
  <2>1. ExactsOut => ExactsOut'
    BY <1>1, OutStays
  <2>2. CASE Extended(i.path)
    <3>1. ExactsOut
      BY <1>1, <1>11, <2>2, ExactsInTurn
    <3>2. QED
      BY <2>1, <3>1
  <2>3. CASE ~Extended(i.path) /\ ExactsDue
    <3>1. i.path \in LegalPaths /\ ExactDone(i.path)'
      <4>1. N' = N
        BY <1>4 DEF N
      <4>2. QED
        BY <1>1, <1>6, <4>1 DEF ItemOK, ExactDone
    <3>2. \A j \in heap : Extended(j.path) \/ j \in heap' \/ StateKey(j.path) \in taken'
      BY <1>1, <1>9, <1>11
    <3>3. \A key \in taken' : \/ key \in taken
                              \/ \E p \in LegalPaths : ~Extended(p) /\ StateKey(p) = key /\ ExactDone(p)'
      BY <1>1, <2>3, <3>1
    <3>4. existing \subseteq existing' /\ taken \subseteq taken'
      BY <1>1
    <3>5. ExactsDue'
      BY <1>1, <2>3, <3>2, <3>3, <3>4, ExactsStay
    <3>6. QED
      BY <3>5
  <2>4. QED
    BY <1>11, <2>1, <2>2, <2>3 DEF TurnInv
<1>12. QED
  BY <1>1, <1>5, <1>8, <1>10, <1>11, TurnStep

\* A shorter path: its children are pushed in turn.
LEMMA WidenTurn ==
    ASSUME WalkInv, TailInv, TurnInv, NEW i \in heap, Widen(i),
           NEW detokenized, NEW encoded, TokensSpellText(detokenized, encoded)
    PROVE  TurnInv'
<1>1. /\ phase \in {"exact", "full"} /\ deferred' = deferred /\ i \in Top
      /\ i.path.matched < N
      /\ UNCHANGED <<vars, inputVars>>
      /\ phase' = phase /\ taken' = taken \cup {StateKey(i.path)}
      /\ existing' = existing /\ emitted' = emitted
  BY DEF Widen, Popping
<1>2. TurnTypes /\ \A j \in heap : Queued(j)
  BY <1>1 DEF TurnInv
<1>3. PICK siblings \in PushRemaining(i), children \in Expand(i.path) :
         heap' = (heap \ {i}) \cup siblings \cup children
  BY DEF Widen
<1>4. query' = query /\ mode' = mode /\ order' = order /\ matches' = matches
  BY <1>1 DEF vars, inputVars
<1>5. mode = "grouped" => /\ emitted' \in [DOMAIN order -> Nat]
                          /\ \A t \in DOMAIN order : emitted[t] <= emitted'[t]
  BY <1>1, <1>2, CountsStay
<1>6. Begun /\ ItemOK(i) /\ i.path \in LegalPaths
  BY <1>1 DEF Begun, TailInv, TailSound, ItemOK
<1>7. ASSUME NEW j \in heap' PROVE j \in heap \/ Queued(j)'
  <2> SUFFICES ASSUME j \notin heap PROVE Queued(j)'
    OBVIOUS
  <2>1. CASE j \in siblings
    <3>1. Fresh(j)
      BY <1>2, <1>3, <1>6, <2>1, LeftFresh
    <3>2. Queued(j)
      BY <1>2, <3>1, FreshQueued
    <3>3. QED
      BY <1>2, <1>4, <1>5, <3>2, QueuedStays
  <2>2. CASE j \in children
    <3>1. i.path.tokens # <<>> /\ (mode = "grouped" => Root(i.path) \in DOMAIN order)
      BY <1>2 DEF Queued
    <3>2. Fresh(j)
      BY <1>1, <1>3, <1>6, <2>2, <3>1, ExpandFresh
    <3>3. Queued(j)
      BY <1>2, <3>2, FreshQueued
    <3>4. QED
      BY <1>2, <1>4, <1>5, <3>3, QueuedStays
  <2>3. QED
    BY <1>3, <2>1, <2>2
<1>8. ASSUME mode = "exact"
      PROVE  heap' = (heap \ {i}) \cup {Item(c, {}) : c \in Longer(i.path, IF phase = "exact" THEN "exact" ELSE "all")}
  <2>1. siblings = {}
    BY <1>2, <1>3, <1>8, NothingLeft
  <2>2. QED
    BY <1>3, <1>8, <2>1 DEF Expand
<1>9. ASSUME phase = "exact", NEW j \in heap' PROVE ~Extended(j.path)
  <2>0. mode = "exact" /\ \A k \in heap : ~Extended(k.path)
    BY <1>9 DEF TurnInv, TailInv, TailTypes
  <2>1. CASE j \in heap
    BY <2>0, <2>1
  <2>2. CASE j \notin heap
    <3>1. PICK c \in Longer(i.path, "exact") : j = Item(c, {})
      BY <1>8, <1>9, <2>0, <2>2
    <3>2. j.path = c
      BY <3>1 DEF Item
    <3>3. PICK m \in matches["exact"][i.path.matched] : c = Child(i.path, m)
      BY <3>1 DEF Longer
    <3>4. ~Extended(c)
      BY <1>1, <1>6, <2>0, <3>3, ExtendedStays
    <3>5. QED
      BY <3>2, <3>4
  <2>3. QED
    BY <2>1, <2>2
<1>10. ASSUME phase = "full", mode = "exact" PROVE ExactsOut' \/ ExactsDue'
  <2>1. ExactsOut => ExactsOut'
    BY <1>1, OutStays
  <2>2. CASE Extended(i.path)
    <3>1. ExactsOut
      BY <1>1, <1>10, <2>2, ExactsInTurn
    <3>2. QED
      BY <2>1, <3>1
  <2>3. CASE ~Extended(i.path) /\ ExactsDue
    <3>1. heap' = (heap \ {i}) \cup {Item(c, {}) : c \in Longer(i.path, "all")}
      BY <1>8, <1>10
    <3>2. ExactDone(i.path)'
      <4>1. N' = N /\ Longer(i.path, "all")' = Longer(i.path, "all") /\ i.path.matched # N
        <5>1. N \in Nat /\ i.path.matched \in Nat
          BY <1>6, BegunQuery, LegalTypes DEF PathType
        <5>2. QED
          BY <1>1, <1>4, <5>1, InputsFixed
      <4>2. ASSUME NEW c \in Longer(i.path, "all"), ~Extended(c) PROVE Waits(c)'
        <5>1. PICK j : j = Item(c, {})
          OBVIOUS
        <5>2. j \in heap' /\ j.path = c
          BY <3>1, <5>1 DEF Item
        <5>3. ~Extended(c)'
          BY <1>4, <4>2 DEF Extended
        <5>4. QED
          BY <5>2, <5>3 DEF Waits
      <4>3. \A c : Extended(c)' <=> Extended(c)
        BY <1>4 DEF Extended
      <4>4. QED
        BY <4>1, <4>2, <4>3 DEF ExactDone
    <3>3. \A j \in heap : Extended(j.path) \/ j \in heap' \/ StateKey(j.path) \in taken'
      BY <1>1, <3>1
    <3>4. \A key \in taken' : \/ key \in taken
                              \/ \E p \in LegalPaths : ~Extended(p) /\ StateKey(p) = key /\ ExactDone(p)'
      BY <1>1, <1>6, <2>3, <3>2
    <3>5. existing \subseteq existing' /\ taken \subseteq taken'
      BY <1>1
    <3>6. ExactsDue'
      BY <1>1, <2>3, <3>3, <3>4, <3>5, ExactsStay
    <3>7. QED
      BY <3>6
  <2>4. QED
    BY <1>10, <2>1, <2>2, <2>3 DEF TurnInv
<1>11. QED
  BY <1>1, <1>5, <1>7, <1>9, <1>10, TurnStep

\* A step that changes nothing.
LEMMA StutterTurn ==
    ASSUME TurnInv, UNCHANGED allVars
    PROVE  TurnInv'
<1>1. /\ UNCHANGED <<vars, inputVars>> /\ phase' = phase /\ deferred' = deferred /\ heap' = heap
      /\ taken' = taken /\ existing' = existing /\ emitted' = emitted
  BY DEF allVars, walkVars
<1>2. CASE phase \notin {"exact", "full"}
  BY <1>1, <1>2 DEF TurnInv
<1>3. CASE phase \in {"exact", "full"}
  <2>1. TurnTypes
    BY <1>3 DEF TurnInv
  <2>2. mode = "grouped" => /\ emitted' \in [DOMAIN order -> Nat]
                            /\ \A t \in DOMAIN order : emitted[t] <= emitted'[t]
    BY <1>1, <2>1, CountsStay
  <2>3. ExactsOut => ExactsOut'
    BY <1>1, OutStays
  <2>4. ExactsDue => ExactsDue'
    BY <1>1, ExactsStay
  <2>5. phase = "exact" => \A i \in heap' : ~Extended(i.path)
    BY <1>1 DEF TurnInv
  <2>6. phase = "full" /\ mode = "exact" => ExactsOut' \/ ExactsDue'
    BY <2>3, <2>4 DEF TurnInv
  <2>7. QED
    BY <1>1, <1>3, <2>2, <2>5, <2>6, TurnStep
<1>4. QED
  BY <1>2, <1>3

\* Every step of the walk keeps the turns.
LEMMA TurnInvStep ==
    ASSUME WalkInv, TailInv, TurnInv, WalkInv', TailInv', [WalkNext]_allVars,
           NEW detokenized, NEW encoded, TokensSpellText(detokenized, encoded)
    PROVE  TurnInv'
<1>1. CASE Matching
  <2>1. UNCHANGED walkVars /\ Next
    BY <1>1 DEF Matching
  <2>2. CASE phase \in {"exact", "full"}
    <3>1. stack = <<>>
      BY <2>2 DEF TailInv, TailTypes
    <3>2. UNCHANGED vars
      BY <2>1, <3>1 DEF Next, Done, Visit
    <3>3. UNCHANGED allVars
      BY <2>1, <3>2 DEF allVars
    <3>4. QED
      BY <3>3, StutterTurn
  <2>3. CASE phase \notin {"exact", "full"}
    BY <2>1, <2>3 DEF walkVars, TurnInv
  <2>4. QED
    BY <2>2, <2>3
<1>2. CASE Begin
  BY <1>2, BeginTurn
<1>3. CASE SecondWalk
  BY <1>3, SecondTurn
<1>4. CASE Undefer
  BY <1>4, UndeferTurn
<1>5. CASE \E i \in heap : Requeue(i) \/ SkipVisited(i) \/ Yield(i) \/ Widen(i)
  <2>1. PICK i \in heap : Requeue(i) \/ SkipVisited(i) \/ Yield(i) \/ Widen(i)
    BY <1>5
  <2>2. QED
    BY <2>1, RequeueTurn, SkipTurn, YieldTurn, WidenTurn
<1>6. CASE End
  <2>1. phase' = "end"
    BY <1>6 DEF End
  <2>2. QED
    BY <2>1 DEF TurnInv
<1>7. CASE UNCHANGED allVars
  BY <1>7, StutterTurn
<1>8. QED
  BY <1>1, <1>2, <1>3, <1>4, <1>5, <1>6, <1>7 DEF WalkNext

\* A path given to the caller is in turn.
LEMMA GivenInTurn ==
    ASSUME WalkInv, TailInv, TurnInv, NEW i \in heap, Yield(i),
           NEW detokenized, NEW encoded, TokensSpellText(detokenized, encoded)
    PROVE  InTurn
<1> DEFINE turn(c) == IF mode = "exact" THEN <<IF Extended(c) THEN 1 ELSE 0>> ELSE Turn(Root(c))
<1>1. /\ phase \in {"exact", "full"} /\ i \in Top /\ ~Stale(i)
      /\ i.path.matched = N /\ existing' = existing \cup {i.path.text}
  BY DEF Yield, Popping
<1>2. Begun /\ i.path \in Covers
  <2>1. Begun /\ ItemOK(i)
    BY <1>1 DEF Begun, TailInv, TailSound
  <2>2. QED
    BY <1>1, <2>1, LegalTypes DEF ItemOK
<1>3. ASSUME NEW d \in Covers, Before(turn(d), turn(i.path)) PROVE d.text \in existing
  <2>1. CASE mode # "exact"
    <3>1. phase = "full"
      BY <1>1, <2>1 DEF TailInv, TailTypes
    <3>2. Before(Turn(Root(d)), Turn(Root(i.path)))
      BY <1>3, <2>1
    <3>3. QED
      BY <1>1, <2>1, <3>1, <3>2, RootsInTurn
  <2>2. CASE mode = "exact"
    <3>1. PICK x, y : x = (IF Extended(d) THEN 1 ELSE 0) /\ y = (IF Extended(i.path) THEN 1 ELSE 0)
      OBVIOUS
    <3>2. Before(<<x>>, <<y>>)
      BY <1>3, <2>2, <3>1
    <3>3. x < y
      <4>1. PICK u, v : u = <<x>> /\ v = <<y>>
        OBVIOUS
      <4>2. DOMAIN u = {1} /\ u[1] = x /\ v[1] = y
        BY <4>1
      <4>3. QED
        BY <3>2, <4>1, <4>2 DEF Before
    <3>4. ~Extended(d) /\ Extended(i.path)
      BY <3>1, <3>3
    <3>5. phase = "full"
      BY <1>1, <3>4 DEF TurnInv
    <3>6. ExactsOut
      BY <1>1, <2>2, <3>4, <3>5, ExactsInTurn
    <3>7. QED
      BY <3>4, <3>6 DEF ExactsOut
  <2>3. QED
    BY <2>1, <2>2
<1>4. \A d \in Covers : Before(turn(d), turn(i.path)) => d.text \in existing'
  BY <1>1, <1>3
<1> HIDE DEF turn
<1>5. \E c \in Covers : /\ existing' = existing \cup {c.text}
                        /\ \A d \in Covers : Before(turn(d), turn(c)) => d.text \in existing'
  BY <1>1, <1>2, <1>4
<1> USE DEF turn
<1>6. QED
  BY <1>5 DEF InTurn

\* Of the steps of the walk, only one that gives a path changes what is out.
LEMMA StepsInTurn ==
    ASSUME WalkInv, TailInv, TurnInv, [WalkNext]_allVars,
           NEW detokenized, NEW encoded, TokensSpellText(detokenized, encoded)
    PROVE  [phase # "matching" /\ existing' # existing => InTurn]_allVars
<1> SUFFICES ASSUME phase # "matching", existing' # existing PROVE InTurn
  OBVIOUS
<1>1. \E i \in heap : Yield(i)
  BY DEF WalkNext, Matching, walkVars, Begin, SecondWalk, Undefer, Requeue, SkipVisited, Widen, End, allVars
<1>2. QED
  BY <1>1, GivenInTurn

\* The generator of _iter_lexical_completion_candidates gives its texts in
\* turn: an extended reading only when every exact one is out, a root only
\* when every root hinted at before it is used up, a group or root that has
\* given a page only when those that have given less are, for every index
\* whose tokens decode to the texts.  Items stay in the heap with outdated
\* counts, and every requeue, skip and postponed sibling keeps this.
THEOREM WalkInTurn ==
    ASSUME NEW detokenized, NEW encoded, TokensSpellText(detokenized, encoded)
    PROVE  WalkSpec => YieldsInTurn
<1>1. WalkInit => WalkInv /\ TailInv /\ TurnInv
  <2>1. WalkInit => TurnInv
    BY DEF WalkInit, TurnInv
  <2>2. QED
    BY <2>1, TailInvInit
<1>2. WalkInv /\ TailInv /\ TurnInv /\ [WalkNext]_allVars => WalkInv' /\ TailInv' /\ TurnInv'
  BY TailInvStep, TurnInvStep
<1>3. WalkInv /\ TailInv /\ TurnInv /\ [WalkNext]_allVars
      => [phase # "matching" /\ existing' # existing => InTurn]_allVars
  BY StepsInTurn
<1>4. QED
  BY <1>1, <1>2, <1>3, PTL DEF WalkSpec, YieldsInTurn

-----------------------------------------------------------------------------
(* Whether the lexical tail may fill a page. *)

\* The library's two sums are the same fold.
LEMMA SumIsTotal ==
    ASSUME NEW S, NEW a, DOMAIN a = S
    PROVE  SumFunction(a) = Total(a, S)
BY DEF SumFunction, SumFunctionOnSet, FoldFunctionOnSet, Total, MapThenSumSet, MapThenFoldSet

\* A union is no larger than the sum of its parts, as far as sizes matter: up
\* to a limit P.
LEMMA UnionWithinSum ==
    ASSUME NEW S, IsFiniteSet(S), NEW X, NEW a \in [S -> Nat], NEW P \in Nat,
           \A m \in S : IsFiniteSet(X[m]) /\ (P <= a[m] \/ Cardinality(X[m]) <= a[m]),
           NEW V, \A x : x \in V <=> \E m \in S : x \in X[m]
    PROVE  /\ SumFunction(a) \in Nat /\ IsFiniteSet(V)
           /\ P <= SumFunction(a) \/ Cardinality(V) <= SumFunction(a)
<1> DEFINE card == Cardinality(S)
           U(s) == UNION {X[m] : m \in s}
<1>0. card \in Nat /\ S \in Small(S, card)
  BY FS_CardinalityType, FS_Subset DEF Small
<1>1. PICK f : Sums(f, a, S, card) /\ SumFunction(a) = f[S]
  BY TotalUnfolds, SumIsTotal
<1> DEFINE Fine(s) == /\ f[s] \in Nat /\ IsFiniteSet(U(s))
                      /\ P <= f[s] \/ Cardinality(U(s)) <= f[s]
           Bad == {n \in 0 .. card : \E s \in Small(S, n) : ~Fine(s)}
<1>2. Bad = {}
  <2> SUFFICES ASSUME Bad # {} PROVE FALSE
    OBVIOUS
  <2>1. PICK n \in Bad : \A k \in Bad : n <= k
    <3>1. Bad \in SUBSET Nat
      BY <1>0
    <3> HIDE DEF Bad
    <3>2. QED
      BY <3>1, LeastNatural
  <2>2. n \in 0 .. card /\ n \in Nat
    BY <1>0, <2>1
  <2>3. PICK s \in Small(S, n) : ~Fine(s)
    BY <2>1
  <2>4. s \in Small(S, card) /\ s \in SUBSET S
    <3>1. Cardinality(s) \in Nat /\ s \in SUBSET S /\ Cardinality(s) <= n
      BY FS_Subset, FS_CardinalityType DEF Small
    <3>2. QED
      BY <1>0, <2>2, <3>1 DEF Small
  <2>5. f[s] = IF s = {} THEN 0 ELSE a[First(s)] + f[s \ {First(s)}]
    BY <1>1, <2>4 DEF Sums
  <2>6. s # {}
    <3> SUFFICES ASSUME s = {} PROVE FALSE
      OBVIOUS
    <3>1. U(s) = {} /\ f[s] = 0
      BY <2>5
    <3> HIDE DEF U
    <3>2. IsFiniteSet({}) /\ Cardinality({}) = 0
      BY FS_EmptySet
    <3>3. Fine(s)
      BY <3>1, <3>2
    <3>4. QED
      BY <2>3, <3>3
  <2>7. PICK x, r : x = First(s) /\ r = s \ {First(s)}
    OBVIOUS
  <2>8. n # 0 /\ x \in s /\ r \in Small(S, n - 1)
    BY <2>2, <2>6, <2>7, SmallStep
  <2>9. n - 1 \in 0 .. card /\ n - 1 \notin Bad
    <3> HIDE DEF Bad
    <3>1. QED
      BY <1>0, <2>1, <2>2, <2>8
  <2>10. Fine(r)
    BY <2>8, <2>9
  <2>11. a[x] \in Nat /\ IsFiniteSet(X[x]) /\ (P <= a[x] \/ Cardinality(X[x]) <= a[x])
    BY <2>4, <2>8
  <2>12. U(s) = X[x] \cup U(r)
    BY <2>7, <2>8
  <2>13. f[s] = a[x] + f[r]
    BY <2>5, <2>6, <2>7
  <2> HIDE DEF U
  <2>14. /\ IsFiniteSet(U(s)) /\ Cardinality(U(s)) \in Nat
         /\ Cardinality(U(s)) <= Cardinality(X[x]) + Cardinality(U(r))
    <3>1. IsFiniteSet(X[x]) /\ IsFiniteSet(U(r))
      BY <2>10, <2>11
    <3>2. IsFiniteSet(X[x] \cap U(r))
      BY <3>1, FS_Intersection
    <3>3. /\ Cardinality(X[x] \cap U(r)) \in Nat /\ Cardinality(X[x]) \in Nat
          /\ Cardinality(U(r)) \in Nat
      BY <3>1, <3>2, FS_CardinalityType
    <3>4. /\ IsFiniteSet(X[x] \cup U(r))
          /\ Cardinality(X[x] \cup U(r)) =
                Cardinality(X[x]) + Cardinality(U(r)) - Cardinality(X[x] \cap U(r))
      BY <3>1, FS_Union
    <3>5. Cardinality(X[x] \cup U(r)) \in Nat
      BY <3>4, FS_CardinalityType
    <3>6. QED
      BY <2>12, <3>3, <3>4, <3>5
  <2>15. Cardinality(X[x]) \in Nat /\ Cardinality(U(r)) \in Nat
    BY <2>10, <2>11, FS_CardinalityType
  <2>16. Fine(s)
    BY <2>10, <2>11, <2>13, <2>14, <2>15
  <2>17. QED
    BY <2>3, <2>16
<1>3. Fine(S)
  <2>1. card \notin Bad /\ card \in 0 .. card
    <3> HIDE DEF Bad, card
    <3>1. QED
      BY <1>0, <1>2
  <2> HIDE DEF Fine
  <2>2. QED
    BY <1>0, <2>1
<1>4. U(S) = V
  BY Zenon
<1>5. QED
  BY <1>1, <1>3, <1>4

\* neural_matches gives at most one match of an entry.
LEMMA NeuralFinite ==
    ASSUME NEW q, QueryOK(q)
    PROVE  IsFiniteSet(NeuralMatches(q))
<1> DEFINE M == NeuralMatches(q)
           f == [m \in M |-> m.entry]
<1>1. ASSUME NEW m \in M, NEW n \in M, m.entry = n.entry PROVE m = n
  <2>1. PICK d \in Entries : /\ m \in Furthest(MatchesOf(q, d))
                             /\ \A l \in Furthest(MatchesOf(q, d)) : ~Better(l, m)
    BY NeuralOf
  <2>2. PICK e \in Entries : /\ n \in Furthest(MatchesOf(q, e))
                             /\ \A l \in Furthest(MatchesOf(q, e)) : ~Better(l, n)
    BY NeuralOf
  <2>3. m \in MatchesOf(q, d) /\ n \in MatchesOf(q, e)
    BY <2>1, <2>2 DEF Furthest
  <2>4. m \in MatchType /\ m.entry = d
    BY <2>3, MatchesOfTypes
  <2>5. n \in MatchType /\ n.entry = e
    BY <2>3, MatchesOfTypes
  <2>6. d = e
    BY <1>1, <2>4, <2>5
  <2>7. m.pos <= n.pos /\ n.pos <= m.pos
    BY <1>1, <2>1, <2>2, <2>3, <2>6 DEF Furthest
  <2>8. m.pos = n.pos
    BY <2>4, <2>5, <2>7 DEF MatchType
  <2>9. StandsFor(m, n) /\ StandsFor(n, m)
    BY <1>1, <2>1, <2>2, <2>6, <2>8 DEF StandsFor, Same
  <2>10. QED
    BY <2>4, <2>5, <2>9, BetterOrder
<1>2. \A m \in M : m.entry \in Entries
  <2> SUFFICES ASSUME NEW m \in M PROVE m.entry \in Entries
    OBVIOUS
  <2>1. m \in MatchType
    BY NeuralTypes
  <2>2. QED
    BY <2>1 DEF MatchType
<1> HIDE DEF M
<1>3. f \in Injection(M, Entries)
  BY <1>1, <1>2 DEF Injection, IsInjective
<1>4. QED
  BY <1>3, MatchAssumption, FS_Injection DEF M

\* A query of Init.
IsQuery(q) ==
    /\ QueryOK(q)
    /\ \E keys \in Keys, start \in 0 .. (MaxKeys - 1), flavour \in Flavours :
          q = [keys |-> keys, raw |-> Compact(keys), boundaries |-> Boundaries(keys),
               start |-> start, flavour |-> flavour]

\* The matches where "left" letters are left.
Suffix(q, left) == NeuralMatches(At(q, Len(q.raw) - left))

\* They are finitely many and leave fewer letters.
LEMMA SuffixFacts ==
    ASSUME NEW q, IsQuery(q), NEW left \in 1 .. Len(q.raw)
    PROVE  /\ IsFiniteSet(Suffix(q, left))
           /\ \A m \in Suffix(q, left) : Len(q.raw) - m.pos \in 0 .. left - 1
<1> DEFINE len == Len(q.raw)
           p == At(q, len - left)
<1>1. QueryOK(q) /\ len \in Nat
  BY DEF IsQuery, QueryOK
<1>2. PICK keys, start, flavour :
         q = [keys |-> keys, raw |-> Compact(keys), boundaries |-> Boundaries(keys),
              start |-> start, flavour |-> flavour]
  BY DEF IsQuery
<1>3. /\ p.raw = q.raw /\ p.boundaries = q.boundaries
      /\ p.start = len - left /\ p.flavour = "all"
  BY <1>2 DEF At
<1>4. QueryOK(p)
  BY <1>1, <1>3 DEF QueryOK, Flavours
<1>5. \A m \in Suffix(q, left) : m \in MatchType /\ p.start < m.pos /\ m.pos <= Len(p.raw)
  BY <1>4, NeuralTypes DEF Suffix
<1>6. \A m \in Suffix(q, left) : m.pos \in Nat /\ len - left < m.pos /\ m.pos <= len
  BY <1>3, <1>5 DEF MatchType
<1>7. \A m \in Suffix(q, left) : len - m.pos \in 0 .. left - 1
  <2> HIDE DEF len
  <2>1. QED
    BY <1>1, <1>6
<1>8. QED
  BY <1>4, <1>7, NeuralFinite DEF Suffix

\* The counts of _lexical_tail_may_fill_page, from those for fewer letters.
MayFill(f, q, left) ==
    IF left = 0
    THEN 1
    ELSE Min({PageSize, SumFunction([m \in Suffix(q, left) |-> f[Len(q.raw) - m.pos]])})

\* They are there for up to m letters.
LEMMA CountsExist ==
    ASSUME NEW q, IsQuery(q)
    PROVE  \A n \in 0 .. Len(q.raw) : \E f : f = [left \in 0 .. n |-> MayFill(f, q, left)]
<1> DEFINE len == Len(q.raw)
           Bad == {n \in 0 .. len : ~\E f : f = [left \in 0 .. n |-> MayFill(f, q, left)]}
<1>0. len \in Nat
  BY DEF IsQuery, QueryOK
<1> SUFFICES ASSUME Bad # {} PROVE FALSE
  OBVIOUS
<1>1. PICK n \in Bad : \A k \in Bad : n <= k
  <2>1. Bad \in SUBSET Nat
    BY <1>0
  <2> HIDE DEF Bad
  <2>2. QED
    BY <2>1, LeastNatural
<1>2. n \in 0 .. len /\ n \in Nat /\ ~\E f : f = [left \in 0 .. n |-> MayFill(f, q, left)]
  BY <1>0, <1>1
<1>3. n # 0
  <2> SUFFICES ASSUME n = 0 PROVE FALSE
    OBVIOUS
  <2>1. PICK f : f = [left \in 0 .. 0 |-> 1]
    OBVIOUS
  <2>2. \A left \in 0 .. 0 : MayFill(f, q, left) = 1
    BY DEF MayFill
  <2>3. f = [left \in 0 .. 0 |-> MayFill(f, q, left)]
    BY <2>1, <2>2
  <2>4. QED
    BY <1>2, <2>3
<1>4. n - 1 \in 0 .. len /\ n - 1 \notin Bad
  <2> HIDE DEF Bad
  <2>1. QED
    BY <1>0, <1>1, <1>2, <1>3
<1>5. PICK f : f = [left \in 0 .. n - 1 |-> MayFill(f, q, left)]
  BY <1>4
<1>6. PICK g : g = [left \in 0 .. n |-> MayFill(f, q, left)]
  OBVIOUS
<1>7. \A left \in 0 .. n - 1 : g[left] = f[left]
  BY <1>2, <1>5, <1>6
<1>8. \A left \in 0 .. n : MayFill(f, q, left) = MayFill(g, q, left)
  <2> SUFFICES ASSUME NEW left \in 0 .. n, left # 0
               PROVE  MayFill(f, q, left) = MayFill(g, q, left)
    BY DEF MayFill
  <2>1. left \in 1 .. len /\ left - 1 \in 0 .. n - 1
    BY <1>0, <1>2
  <2>2. \A m \in Suffix(q, left) : len - m.pos \in 0 .. n - 1
    <3>1. \A m \in Suffix(q, left) : len - m.pos \in 0 .. left - 1
      BY <2>1, SuffixFacts
    <3>2. QED
      BY <1>2, <2>1, <3>1
  <2>3. \A m \in Suffix(q, left) : f[len - m.pos] = g[len - m.pos]
    BY <1>7, <2>2
  <2>4. [m \in Suffix(q, left) |-> f[len - m.pos]] = [m \in Suffix(q, left) |-> g[len - m.pos]]
    BY <2>3
  <2>5. QED
    BY <2>4 DEF MayFill
<1>9. g = [left \in 0 .. n |-> MayFill(g, q, left)]
  BY <1>6, <1>8
<1>10. QED
  BY <1>2, <1>9

\* A path and a match before it.
Led(m, p) == <<m.entry>> \o p

\* The ways to cover "left" letters, from those for fewer.
PathsFrom(f, q, left) ==
    IF left = 0
    THEN {<<>>}
    ELSE UNION {{Led(m, p) : p \in f[Len(q.raw) - m.pos]} : m \in Suffix(q, left)}

\* They are there for up to n letters.
LEMMA PathsFromExist ==
    ASSUME NEW q, IsQuery(q)
    PROVE  \A n \in 0 .. Len(q.raw) : \E f : f = [left \in 0 .. n |-> PathsFrom(f, q, left)]
<1> DEFINE len == Len(q.raw)
           Bad == {n \in 0 .. len : ~\E f : f = [left \in 0 .. n |-> PathsFrom(f, q, left)]}
<1>0. len \in Nat
  BY DEF IsQuery, QueryOK
<1> SUFFICES ASSUME Bad # {} PROVE FALSE
  OBVIOUS
<1>1. PICK n \in Bad : \A k \in Bad : n <= k
  <2>1. Bad \in SUBSET Nat
    BY <1>0
  <2> HIDE DEF Bad
  <2>2. QED
    BY <2>1, LeastNatural
<1>2. n \in 0 .. len /\ n \in Nat /\ ~\E f : f = [left \in 0 .. n |-> PathsFrom(f, q, left)]
  BY <1>0, <1>1
<1>3. n # 0
  <2> SUFFICES ASSUME n = 0 PROVE FALSE
    OBVIOUS
  <2>1. PICK f : f = [left \in 0 .. 0 |-> {<<>>}]
    OBVIOUS
  <2>2. \A left \in 0 .. 0 : PathsFrom(f, q, left) = {<<>>}
    BY DEF PathsFrom
  <2>3. f = [left \in 0 .. 0 |-> PathsFrom(f, q, left)]
    BY <2>1, <2>2
  <2>4. QED
    BY <1>2, <2>3
<1>4. n - 1 \in 0 .. len /\ n - 1 \notin Bad
  <2> HIDE DEF Bad
  <2>1. QED
    BY <1>0, <1>1, <1>2, <1>3
<1>5. PICK f : f = [left \in 0 .. n - 1 |-> PathsFrom(f, q, left)]
  BY <1>4
<1>6. PICK g : g = [left \in 0 .. n |-> PathsFrom(f, q, left)]
  OBVIOUS
<1>7. \A left \in 0 .. n - 1 : g[left] = f[left]
  BY <1>2, <1>5, <1>6
<1>8. \A left \in 0 .. n : PathsFrom(f, q, left) = PathsFrom(g, q, left)
  <2> SUFFICES ASSUME NEW left \in 0 .. n, left # 0
               PROVE  PathsFrom(f, q, left) = PathsFrom(g, q, left)
    BY DEF PathsFrom
  <2>1. left \in 1 .. len /\ left - 1 \in 0 .. n - 1
    BY <1>0, <1>2
  <2>2. \A m \in Suffix(q, left) : len - m.pos \in 0 .. n - 1
    <3>1. \A m \in Suffix(q, left) : len - m.pos \in 0 .. left - 1
      BY <2>1, SuffixFacts
    <3>2. QED
      BY <1>2, <2>1, <3>1
  <2>3. \A m \in Suffix(q, left) : f[len - m.pos] = g[len - m.pos]
    BY <1>7, <2>2
  <2>4. \A h, x : x \in PathsFrom(h, q, left) <=>
            \E m \in Suffix(q, left) : \E p \in h[len - m.pos] : x = Led(m, p)
    BY DEF PathsFrom
  <2>5. \A x : x \in PathsFrom(f, q, left) <=> x \in PathsFrom(g, q, left)
    BY <2>3, <2>4
  <2>6. PICK s, t : s = PathsFrom(f, q, left) /\ t = PathsFrom(g, q, left)
    OBVIOUS
  <2>7. PathsFrom(f, q, left) = UNION {PathsFrom(f, q, left)} /\ PathsFrom(g, q, left) = UNION {PathsFrom(g, q, left)}
    OBVIOUS
  <2>8. QED
    BY <2>5, <2>7
<1>9. g = [left \in 0 .. n |-> PathsFrom(g, q, left)]
  BY <1>6, <1>8
<1>10. QED
  BY <1>2, <1>9

\* What _lexical_tail_may_fill_page computes, and the paths it counts.
LEMMA TailUnfolds ==
    ASSUME NEW q, IsQuery(q)
    PROVE  \E f, g : /\ f = [left \in 0 .. Len(q.raw) |-> MayFill(f, q, left)]
                     /\ g = [left \in 0 .. Len(q.raw) |-> PathsFrom(g, q, left)]
                     /\ f[Len(q.raw)] >= PageSize => LexicalTailMayFillPage(q)
                     /\ Paths(q) = g[Len(q.raw)]
<1>0. Len(q.raw) \in Nat /\ Len(q.raw) \in 0 .. Len(q.raw)
  BY DEF IsQuery, QueryOK
<1> DEFINE f == CHOOSE h : h = [left \in 0 .. Len(q.raw) |->
                    IF left = 0
                    THEN 1
                    ELSE Min({PageSize,
                              SumFunction([m \in NeuralMatches(At(q, Len(q.raw) - left)) |->
                                              h[Len(q.raw) - m.pos]])})]
           g == CHOOSE h : h = [left \in 0 .. Len(q.raw) |->
                    IF left = 0
                    THEN {<<>>}
                    ELSE UNION {{<<m.entry>> \o p : p \in h[Len(q.raw) - m.pos]} :
                                    m \in NeuralMatches(At(q, Len(q.raw) - left))}]
<1>1. PICK c : c = [left \in 0 .. Len(q.raw) |-> MayFill(c, q, left)]
  BY <1>0, CountsExist
<1>2. PICK d : d = [left \in 0 .. Len(q.raw) |-> PathsFrom(d, q, left)]
  BY <1>0, PathsFromExist
<1>3. f = [left \in 0 .. Len(q.raw) |->
              IF left = 0
              THEN 1
              ELSE Min({PageSize,
                        SumFunction([m \in NeuralMatches(At(q, Len(q.raw) - left)) |->
                                        f[Len(q.raw) - m.pos]])})]
  <2>1. c = [left \in 0 .. Len(q.raw) |->
              IF left = 0
              THEN 1
              ELSE Min({PageSize,
                        SumFunction([m \in NeuralMatches(At(q, Len(q.raw) - left)) |->
                                        c[Len(q.raw) - m.pos]])})]
    BY <1>1 DEF MayFill, Suffix
  <2>2. QED
    BY <2>1
<1>4. g = [left \in 0 .. Len(q.raw) |->
              IF left = 0
              THEN {<<>>}
              ELSE UNION {{<<m.entry>> \o p : p \in g[Len(q.raw) - m.pos]} :
                              m \in NeuralMatches(At(q, Len(q.raw) - left))}]
  <2>1. d = [left \in 0 .. Len(q.raw) |->
              IF left = 0
              THEN {<<>>}
              ELSE UNION {{<<m.entry>> \o p : p \in d[Len(q.raw) - m.pos]} :
                              m \in NeuralMatches(At(q, Len(q.raw) - left))}]
    BY <1>2 DEF PathsFrom, Suffix, Led
  <2>2. QED
    BY <2>1
<1>5. Paths(q) = g[Len(q.raw)]
  BY DEF Paths
<1>6. f[Len(q.raw)] >= PageSize => LexicalTailMayFillPage(q)
  BY DEF LexicalTailMayFillPage
<1> HIDE DEF f, g
<1>7. f = [left \in 0 .. Len(q.raw) |-> MayFill(f, q, left)]
  BY <1>3 DEF MayFill, Suffix
<1>8. g = [left \in 0 .. Len(q.raw) |-> PathsFrom(g, q, left)]
  BY <1>4 DEF PathsFrom, Suffix, Led
<1>9. QED
  BY <1>5, <1>6, <1>7, <1>8

\* The smaller of a page and a count.
LEMMA MinOfPage ==
    ASSUME NEW x \in Nat
    PROVE  Min({PageSize, x}) \in Nat /\ (Min({PageSize, x}) = PageSize \/ Min({PageSize, x}) = x)
<1>1. PageSize \in Nat
  BY MatchAssumption
<1>2. \E y \in {PageSize, x} : \A z \in {PageSize, x} : y =< z
  BY <1>1
<1>3. Min({PageSize, x}) \in {PageSize, x}
  BY <1>2 DEF Min
<1>4. QED
  BY <1>1, <1>3

\* A page of paths is never ruled out: the counts, which stop at a page and
\* add up matches, are no smaller than the number of paths.
LEMMA PageNotRuledOut ==
    ASSUME NEW q, IsQuery(q), Cardinality(Paths(q)) >= PageSize
    PROVE  LexicalTailMayFillPage(q)
<1> DEFINE len == Len(q.raw)
<1>0. len \in Nat /\ PageSize \in Nat
  BY MatchAssumption DEF IsQuery, QueryOK
<1>1. PICK f, g : /\ f = [left \in 0 .. len |-> MayFill(f, q, left)]
                  /\ g = [left \in 0 .. len |-> PathsFrom(g, q, left)]
                  /\ f[len] >= PageSize => LexicalTailMayFillPage(q)
                  /\ Paths(q) = g[len]
  BY TailUnfolds
<1> DEFINE Fine(left) == /\ f[left] \in Nat /\ IsFiniteSet(g[left])
                         /\ PageSize <= f[left] \/ Cardinality(g[left]) <= f[left]
           Bad == {left \in 0 .. len : ~Fine(left)}
<1>2. Bad = {}
  <2> SUFFICES ASSUME Bad # {} PROVE FALSE
    OBVIOUS
  <2>1. PICK left \in Bad : \A k \in Bad : left <= k
    <3>1. Bad \in SUBSET Nat
      BY <1>0
    <3> HIDE DEF Bad
    <3>2. QED
      BY <3>1, LeastNatural
  <2>2. left \in 0 .. len /\ ~Fine(left)
    BY <2>1
  <2>3. f[left] = MayFill(f, q, left) /\ g[left] = PathsFrom(g, q, left)
    BY <1>1, <2>2
  <2>4. left # 0
    <3> SUFFICES ASSUME left = 0 PROVE FALSE
      OBVIOUS
    <3>1. f[left] = 1 /\ g[left] = {<<>>}
      BY <2>3 DEF MayFill, PathsFrom
    <3>2. IsFiniteSet({<<>>}) /\ Cardinality({<<>>}) = 1
      BY FS_Singleton, Zenon
    <3>3. QED
      BY <2>2, <3>1, <3>2
  <2>5. left \in 1 .. len
    BY <1>0, <2>2, <2>4
  <2> DEFINE S == Suffix(q, left)
             a == [m \in S |-> f[len - m.pos]]
             X == [m \in S |-> {Led(m, p) : p \in g[len - m.pos]}]
  <2>6. ASSUME NEW m \in S
        PROVE  /\ a[m] \in Nat /\ IsFiniteSet(X[m])
               /\ PageSize <= a[m] \/ Cardinality(X[m]) <= a[m]
    <3>1. PICK k : k = len - m.pos /\ k \in 0 .. left - 1
      BY <2>5, SuffixFacts
    <3>2. k \in 0 .. len /\ k \notin Bad
      <4> HIDE DEF Bad
      <4>1. QED
        BY <1>0, <2>1, <2>5, <3>1
    <3>3. Fine(k)
      BY <3>2
    <3> DEFINE T == {Led(m, p) : p \in g[k]}
               h == [p \in g[k] |-> Led(m, p)]
    <3>4. h \in Surjection(g[k], T)
      BY DEF Surjection
    <3> HIDE DEF h
    <3>5. IsFiniteSet(T) /\ Cardinality(T) <= Cardinality(g[k])
      BY <3>3, <3>4, FS_Surjection
    <3>6. a[m] = f[k] /\ X[m] = T
      BY <3>1
    <3> HIDE DEF T, a, X
    <3>7. Cardinality(T) \in Nat /\ Cardinality(g[k]) \in Nat
      BY <3>3, <3>5, FS_CardinalityType
    <3>8. QED
      BY <1>0, <3>3, <3>5, <3>6, <3>7
  <2>7. IsFiniteSet(S)
    BY <2>5, SuffixFacts
  <2>8. g[left] = UNION {X[m] : m \in S}
    BY <2>3, <2>4 DEF PathsFrom
  <2>9. f[left] = Min({PageSize, SumFunction(a)})
    BY <2>3, <2>4 DEF MayFill
  <2> HIDE DEF S, X
  <2>10. a \in [S -> Nat]
    BY <2>6
  <2> HIDE DEF a
  <2>11. /\ SumFunction(a) \in Nat /\ IsFiniteSet(g[left])
         /\ PageSize <= SumFunction(a) \/ Cardinality(g[left]) <= SumFunction(a)
    <3>1. \A m \in S : IsFiniteSet(X[m]) /\ (PageSize <= a[m] \/ Cardinality(X[m]) <= a[m])
      BY <2>6
    <3>2. \A x : x \in g[left] <=> \E m \in S : x \in X[m]
      BY <2>8
    <3>3. QED
      BY <1>0, <2>7, <2>10, <3>1, <3>2, UnionWithinSum
  <2>12. f[left] \in Nat /\ (f[left] = PageSize \/ f[left] = SumFunction(a))
    BY <2>9, <2>11, MinOfPage
  <2>13. Cardinality(g[left]) \in Nat
    BY <2>11, FS_CardinalityType
  <2>14. Fine(left)
    BY <1>0, <2>11, <2>12, <2>13
  <2>15. QED
    BY <2>2, <2>14
<1>3. Fine(len)
  <2>1. len \in 0 .. len
    BY <1>0
  <2>2. QED
    BY <1>2, <2>1
<1>4. Cardinality(g[len]) \in Nat
  BY <1>3, FS_CardinalityType
<1>5. f[len] >= PageSize
  BY <1>0, <1>1, <1>3, <1>4
<1>6. QED
  BY <1>1, <1>5

-----------------------------------------------------------------------------
(* Keys that are spelled out. *)

\* Syllables are not empty.
LEMMA SyllableFacts ==
    \A s \in Syllables : s \in Texts /\ Len(s) \in Nat \ {0}
<1> SUFFICES ASSUME NEW s \in Syllables PROVE s \in Texts /\ Len(s) \in Nat \ {0}
  OBVIOUS
<1>1. PICK e \in Entries : s \in Range(e.syllables)
  BY DEF Syllables
<1>2. PICK i \in DOMAIN e.syllables : s = e.syllables[i]
  BY <1>1 DEF Range
<1>3. e.syllables \in Nodes
  BY EntryFacts
<1>4. i \in 1 .. Len(e.syllables)
  BY <1>3 DEF Nodes
<1>5. QED
  BY <1>2, <1>4, EntryFacts

\* A bounded set of integers has a largest one.
LEMMA MaxBounded ==
    ASSUME NEW T, T # {}, NEW b \in Nat, \A x \in T : x \in Int /\ -1 <= x /\ x <= b
    PROVE  Max(T) \in T /\ \A x \in T : x <= Max(T)
<1> DEFINE U == {n \in Nat : n - 1 \in T}
<1>1. U \in SUBSET Nat /\ U # {}
  <2>1. PICK x \in T : x \in Int /\ -1 <= x
    OBVIOUS
  <2>2. x + 1 \in Nat /\ (x + 1) - 1 = x
    BY <2>1
  <2>3. QED
    BY <2>1, <2>2
<1>2. \A n \in U : n <= b + 1
  <2> SUFFICES ASSUME NEW n \in U PROVE n <= b + 1
    OBVIOUS
  <2>1. n \in Nat /\ n - 1 <= b
    OBVIOUS
  <2>2. QED
    BY <2>1
<1>3. PICK m \in U : \A n \in U : n <= m
  <2> HIDE DEF U
  <2>1. b + 1 \in Nat
    OBVIOUS
  <2>2. QED
    BY <1>1, <1>2, <2>1, GreatestNatural
<1>4. m - 1 \in T /\ m \in Nat
  OBVIOUS
<1>5. ASSUME NEW x \in T PROVE m - 1 >= x
  <2>1. x \in Int /\ -1 <= x
    OBVIOUS
  <2>2. x + 1 \in Nat /\ (x + 1) - 1 = x
    BY <2>1
  <2>3. x + 1 \in U
    BY <2>2
  <2>4. x + 1 <= m
    BY <1>3, <2>3
  <2>5. QED
    BY <1>4, <2>1, <2>4
<1>6. \E y \in T : \A x \in T : y >= x
  BY <1>4, <1>5
<1>7. Max(T) \in T /\ \A x \in T : Max(T) >= x
  BY <1>6 DEF Max
<1>8. QED
  BY <1>7

\* Whether a position is reached, from the positions before it.
Reach(f, raw, pos) ==
    pos = 0 \/ \E s \in Syllables :
                   Len(s) <= pos /\ f[pos - Len(s)] /\ StartsWith(raw, s, pos - Len(s))

\* The positions reached, up to n.
LEMMA ReachExists ==
    ASSUME NEW raw
    PROVE  \A n \in Nat : \E f : f = [pos \in 0 .. n |-> Reach(f, raw, pos)]
<1> DEFINE Bad == {n \in Nat : ~\E f : f = [pos \in 0 .. n |-> Reach(f, raw, pos)]}
<1> SUFFICES ASSUME Bad # {} PROVE FALSE
  OBVIOUS
<1>1. PICK n \in Bad : \A k \in Bad : n <= k
  BY LeastNatural
<1>2. n \in Nat /\ ~\E f : f = [pos \in 0 .. n |-> Reach(f, raw, pos)]
  BY <1>1
<1>3. n # 0
  <2> SUFFICES ASSUME n = 0 PROVE FALSE
    OBVIOUS
  <2>1. PICK f : f = [pos \in 0 .. 0 |-> TRUE]
    OBVIOUS
  <2>2. \A pos \in 0 .. 0 : Reach(f, raw, pos) = TRUE
    BY DEF Reach
  <2>3. f = [pos \in 0 .. 0 |-> Reach(f, raw, pos)]
    BY <2>1, <2>2
  <2>4. QED
    BY <1>2, <2>3
<1>4. n - 1 \in Nat /\ n - 1 \notin Bad
  <2> HIDE DEF Bad
  <2>1. QED
    BY <1>1, <1>2, <1>3
<1>5. PICK f : f = [pos \in 0 .. n - 1 |-> Reach(f, raw, pos)]
  BY <1>4
<1>6. PICK g : g = [pos \in 0 .. n |-> Reach(f, raw, pos)]
  OBVIOUS
<1>7. \A pos \in 0 .. n - 1 : g[pos] = f[pos]
  BY <1>2, <1>5, <1>6
<1>8. \A pos \in 0 .. n : Reach(f, raw, pos) = Reach(g, raw, pos)
  <2> SUFFICES ASSUME NEW pos \in 0 .. n
               PROVE  Reach(f, raw, pos) = Reach(g, raw, pos)
    OBVIOUS
  <2>1. \A s \in Syllables : Len(s) <= pos => pos - Len(s) \in 0 .. n - 1
    BY <1>2, SyllableFacts
  <2>2. \A s \in Syllables : Len(s) <= pos => f[pos - Len(s)] = g[pos - Len(s)]
    BY <1>7, <2>1
  <2>3. QED
    BY <2>2 DEF Reach
<1>9. g = [pos \in 0 .. n |-> Reach(g, raw, pos)]
  BY <1>6, <1>8
<1>10. QED
  BY <1>2, <1>9

\* is_complete_syllable_sequence, position by position.
LEMMA ReachUnfolds ==
    ASSUME NEW S, NEW raw \in Seq(S)
    PROVE  \E f : /\ f = [pos \in 0 .. Len(raw) |-> Reach(f, raw, pos)]
                  /\ raw # <<>> /\ f[Len(raw)] => IsCompleteSyllableSequence(raw)
<1> DEFINE f == CHOOSE h : h = [pos \in 0 .. Len(raw) |->
                    pos = 0 \/ \E s \in Syllables :
                        Len(s) <= pos /\ h[pos - Len(s)] /\ StartsWith(raw, s, pos - Len(s))]
<1>0. Len(raw) \in Nat
  OBVIOUS
<1>1. PICK g : g = [pos \in 0 .. Len(raw) |-> Reach(g, raw, pos)]
  BY <1>0, ReachExists
<1>2. g = [pos \in 0 .. Len(raw) |->
              pos = 0 \/ \E s \in Syllables :
                  Len(s) <= pos /\ g[pos - Len(s)] /\ StartsWith(raw, s, pos - Len(s))]
  BY <1>1, Zenon DEF Reach
<1>3. f = [pos \in 0 .. Len(raw) |->
              pos = 0 \/ \E s \in Syllables :
                  Len(s) <= pos /\ f[pos - Len(s)] /\ StartsWith(raw, s, pos - Len(s))]
  BY <1>2
<1>4. raw # <<>> /\ f[Len(raw)] => IsCompleteSyllableSequence(raw)
  BY DEF IsCompleteSyllableSequence
<1> HIDE DEF f
<1>5. f = [pos \in 0 .. Len(raw) |-> Reach(f, raw, pos)]
  BY <1>3, Zenon DEF Reach
<1>6. QED
  BY <1>4, <1>5

\* The counts of syllables that end at a position, from those before it.
EndCounts(f, value, pos) ==
    {-1} \cup {f[pos - Len(s)] + 1 : s \in {t \in Syllables : /\ Len(t) <= pos
                                                             /\ f[pos - Len(t)] >= 0
                                                             /\ StartsWith(value, t, pos - Len(t))}}
Counted(f, value, pos) == IF pos = 0 THEN 0 ELSE Max(EndCounts(f, value, pos))

\* What EndCounts has in it.
LEMMA EndCountsCases ==
    ASSUME NEW f, NEW value, NEW pos, NEW x
    PROVE  x \in EndCounts(f, value, pos) <=>
              \/ x = -1
              \/ \E s \in Syllables : /\ Len(s) <= pos /\ f[pos - Len(s)] >= 0
                                      /\ StartsWith(value, s, pos - Len(s))
                                      /\ x = f[pos - Len(s)] + 1
BY DEF EndCounts

\* The counts are there, up to n.
LEMMA CountedExists ==
    ASSUME NEW value
    PROVE  \A n \in Nat : \E f : f = [pos \in 0 .. n |-> Counted(f, value, pos)]
<1> DEFINE Bad == {n \in Nat : ~\E f : f = [pos \in 0 .. n |-> Counted(f, value, pos)]}
<1> SUFFICES ASSUME Bad # {} PROVE FALSE
  OBVIOUS
<1>1. PICK n \in Bad : \A k \in Bad : n <= k
  BY LeastNatural
<1>2. n \in Nat /\ ~\E f : f = [pos \in 0 .. n |-> Counted(f, value, pos)]
  BY <1>1
<1>3. n # 0
  <2> SUFFICES ASSUME n = 0 PROVE FALSE
    OBVIOUS
  <2>1. PICK f : f = [pos \in 0 .. 0 |-> 0]
    OBVIOUS
  <2>2. \A pos \in 0 .. 0 : Counted(f, value, pos) = 0
    BY DEF Counted
  <2>3. f = [pos \in 0 .. 0 |-> Counted(f, value, pos)]
    BY <2>1, <2>2
  <2>4. QED
    BY <1>2, <2>3
<1>4. n - 1 \in Nat /\ n - 1 \notin Bad
  <2> HIDE DEF Bad
  <2>1. QED
    BY <1>1, <1>2, <1>3
<1>5. PICK f : f = [pos \in 0 .. n - 1 |-> Counted(f, value, pos)]
  BY <1>4
<1>6. PICK g : g = [pos \in 0 .. n |-> Counted(f, value, pos)]
  OBVIOUS
<1>7. \A pos \in 0 .. n - 1 : g[pos] = f[pos]
  BY <1>2, <1>5, <1>6
<1>8. \A pos \in 0 .. n : Counted(f, value, pos) = Counted(g, value, pos)
  <2> SUFFICES ASSUME NEW pos \in 0 .. n
               PROVE  Counted(f, value, pos) = Counted(g, value, pos)
    OBVIOUS
  <2>1. \A s \in Syllables : Len(s) <= pos => pos - Len(s) \in 0 .. n - 1
    BY <1>2, SyllableFacts
  <2>2. \A s \in Syllables : Len(s) <= pos => f[pos - Len(s)] = g[pos - Len(s)]
    BY <1>7, <2>1
  <2>3. \A x : x \in EndCounts(f, value, pos) <=> x \in EndCounts(g, value, pos)
    BY <2>2, EndCountsCases
  <2>4. EndCounts(f, value, pos) = EndCounts(g, value, pos)
    BY <2>3
  <2>5. QED
    BY <2>4 DEF Counted
<1>9. g = [pos \in 0 .. n |-> Counted(g, value, pos)]
  BY <1>6, <1>8
<1>10. QED
  BY <1>2, <1>9

\* complete_syllable_count, position by position.
LEMMA CountedUnfolds ==
    ASSUME NEW S, NEW value \in Seq(S)
    PROVE  \E f : /\ f = [pos \in 0 .. Len(value) |-> Counted(f, value, pos)]
                  /\ CompleteSyllableCount(value) = f[Len(value)]
<1> DEFINE f == CHOOSE h : h = [pos \in 0 .. Len(value) |->
                    IF pos = 0
                    THEN 0
                    ELSE Max({-1} \cup {h[pos - Len(s)] + 1 :
                             s \in {t \in Syllables : /\ Len(t) <= pos
                                                      /\ h[pos - Len(t)] >= 0
                                                      /\ StartsWith(value, t, pos - Len(t))}})]
<1>0. Len(value) \in Nat
  OBVIOUS
<1>1. PICK g : g = [pos \in 0 .. Len(value) |-> Counted(g, value, pos)]
  BY <1>0, CountedExists
<1>2. g = [pos \in 0 .. Len(value) |->
              IF pos = 0
              THEN 0
              ELSE Max({-1} \cup {g[pos - Len(s)] + 1 :
                       s \in {t \in Syllables : /\ Len(t) <= pos
                                                /\ g[pos - Len(t)] >= 0
                                                /\ StartsWith(value, t, pos - Len(t))}})]
  BY <1>1 DEF Counted, EndCounts
<1>3. f = [pos \in 0 .. Len(value) |->
              IF pos = 0
              THEN 0
              ELSE Max({-1} \cup {f[pos - Len(s)] + 1 :
                       s \in {t \in Syllables : /\ Len(t) <= pos
                                                /\ f[pos - Len(t)] >= 0
                                                /\ StartsWith(value, t, pos - Len(t))}})]
  BY <1>2
<1>4. CompleteSyllableCount(value) = f[Len(value)]
  BY DEF CompleteSyllableCount
<1> HIDE DEF f
<1>5. f = [pos \in 0 .. Len(value) |-> Counted(f, value, pos)]
  BY <1>3 DEF Counted, EndCounts
<1>6. QED
  BY <1>4, <1>5

\* A count is an integer from -1 to the number of letters, and no smaller
\* than any count it is the maximum of.
LEMMA CountedTypes ==
    ASSUME NEW value, NEW n \in Nat, NEW f, f = [pos \in 0 .. n |-> Counted(f, value, pos)]
    PROVE  \A pos \in 0 .. n : /\ f[pos] \in Int /\ -1 <= f[pos] /\ f[pos] <= pos
                               /\ pos # 0 => \A x \in EndCounts(f, value, pos) : x <= f[pos]
<1> DEFINE Fine(pos) == /\ f[pos] \in Int /\ -1 <= f[pos] /\ f[pos] <= pos
                        /\ pos # 0 => \A x \in EndCounts(f, value, pos) : x <= f[pos]
           Bad == {pos \in 0 .. n : ~Fine(pos)}
<1> SUFFICES ASSUME Bad # {} PROVE FALSE
  OBVIOUS
<1>1. PICK pos \in Bad : \A k \in Bad : pos <= k
  <2>1. Bad \in SUBSET Nat
    OBVIOUS
  <2> HIDE DEF Bad
  <2>2. QED
    BY <2>1, LeastNatural
<1>2. pos \in 0 .. n /\ ~Fine(pos) /\ f[pos] = Counted(f, value, pos)
  BY <1>1
<1>3. pos # 0
  <2> SUFFICES ASSUME pos = 0 PROVE FALSE
    OBVIOUS
  <2>1. f[pos] = 0
    BY <1>2 DEF Counted
  <2>2. QED
    BY <1>2, <2>1
<1>4. \A k \in 0 .. pos - 1 : k \in 0 .. n /\ k \notin Bad
  <2> HIDE DEF Bad
  <2>1. QED
    BY <1>1, <1>2
<1>5. \A k \in 0 .. pos - 1 : f[k] \in Int /\ f[k] <= k
  BY <1>4
<1>6. PICK T : T = EndCounts(f, value, pos)
  OBVIOUS
<1>7. ASSUME NEW x \in T PROVE x \in Int /\ -1 <= x /\ x <= pos
  <2>1. CASE x = -1
    BY <1>2, <2>1
  <2>2. CASE \E s \in Syllables : /\ Len(s) <= pos /\ f[pos - Len(s)] >= 0
                                  /\ x = f[pos - Len(s)] + 1
    <3>1. PICK s \in Syllables : /\ Len(s) <= pos /\ f[pos - Len(s)] >= 0
                                 /\ x = f[pos - Len(s)] + 1
      BY <2>2
    <3>2. Len(s) \in Nat \ {0}
      BY SyllableFacts
    <3>3. PICK k \in 0 .. pos - 1 : k = pos - Len(s)
      BY <1>2, <3>1, <3>2
    <3>4. f[k] \in Int /\ f[k] <= k /\ f[k] >= 0 /\ x = f[k] + 1
      BY <1>5, <3>1, <3>3
    <3>5. QED
      BY <1>2, <3>3, <3>4
  <2>3. QED
    BY <1>6, <2>1, <2>2, EndCountsCases
<1>8. -1 \in T
  BY <1>6, EndCountsCases
<1>9. pos \in Nat
  BY <1>2
<1>10. Max(T) \in T /\ \A x \in T : x <= Max(T)
  BY <1>7, <1>8, <1>9, MaxBounded
<1>11. f[pos] = Max(T)
  BY <1>2, <1>3, <1>6 DEF Counted
<1>12. Fine(pos)
  BY <1>6, <1>7, <1>10, <1>11
<1>13. QED
  BY <1>2, <1>12

\* A syllable between two texts starts where the first ends.
LEMMA StartsBetween ==
    ASSUME NEW v \in Texts, NEW x \in Texts, NEW w \in Texts
    PROVE  /\ StartsWith((v \o x) \o w, x, Len(v))
           /\ Len(v \o x) = Len(v) + Len(x) /\ Len(v \o x) <= Len((v \o x) \o w)
<1> DEFINE t == (v \o x) \o w
<1>1. /\ v \in Seq(Letters) /\ x \in Seq(Letters) /\ w \in Seq(Letters) /\ t \in Seq(Letters)
      /\ Len(v) \in Nat /\ Len(x) \in Nat /\ Len(w) \in Nat
      /\ Len(v \o x) = Len(v) + Len(x) /\ Len(t) = Len(v) + Len(x) + Len(w)
  BY DEF Texts
<1>2. \A i \in 1 .. Len(x) : t[Len(v) + i] = x[i]
  <2> SUFFICES ASSUME NEW i \in 1 .. Len(x) PROVE t[Len(v) + i] = x[i]
    OBVIOUS
  <2>1. (v \o x)[Len(v) + i] = x[i]
    BY <1>1
  <2>2. Len(v) + i \in 1 .. Len(v \o x) /\ v \o x \in Seq(Letters)
    BY <1>1
  <2>3. t[Len(v) + i] = (v \o x)[Len(v) + i]
    BY <1>1, <2>2
  <2>4. QED
    BY <2>1, <2>3
<1> HIDE DEF t
<1>3. SubSeq(t, Len(v) + 1, Len(v) + Len(x)) = x
  <2> DEFINE s == SubSeq(t, Len(v) + 1, Len(v) + Len(x))
  <2>1. \A i \in Len(v) + 1 .. Len(v) + Len(x) : t[i] \in Letters
    BY <1>1
  <2>2. /\ s \in Seq(Letters) /\ Len(s) = IF Len(v) + 1 <= Len(v) + Len(x) THEN Len(x) ELSE 0
        /\ \A i \in 1 .. Len(s) : s[i] = t[Len(v) + i]
    <3>1. /\ s = [i \in 1 .. (Len(v) + Len(x)) - (Len(v) + 1) + 1 |-> t[i + (Len(v) + 1) - 1]]
      BY <1>1
    <3>2. /\ (Len(v) + Len(x)) - (Len(v) + 1) + 1 = Len(x)
          /\ \A i \in 1 .. Len(x) : i + (Len(v) + 1) - 1 = Len(v) + i
      BY <1>1
    <3>3. s = [i \in 1 .. Len(x) |-> t[Len(v) + i]]
      BY <3>1, <3>2
    <3>4. QED
      BY <1>1, <1>2, <3>3
  <2>3. Len(s) = Len(x)
    BY <1>1, <2>2
  <2> HIDE DEF s
  <2>4. s = x
    BY <1>1, <1>2, <2>2, <2>3
  <2>5. QED
    BY <2>4 DEF s
<1>4. QED
  BY <1>1, <1>3 DEF StartsWith, t

\* The positions after the syllables of a spelling are reached, and counted
\* with no fewer syllables.
LEMMA SpellingReaches ==
    ASSUME NEW value \in Texts,
           NEW f, f = [pos \in 0 .. Len(value) |-> Reach(f, value, pos)],
           NEW g, g = [pos \in 0 .. Len(value) |-> Counted(g, value, pos)]
    PROVE  \A p \in Seq(Syllables) : \A w \in Texts : value = FlattenSeq(p) \o w =>
              f[Len(FlattenSeq(p))] = TRUE /\ Len(p) <= g[Len(FlattenSeq(p))]
<1> DEFINE Fine(p) == \A w \in Texts : value = FlattenSeq(p) \o w =>
                          f[Len(FlattenSeq(p))] = TRUE /\ Len(p) <= g[Len(FlattenSeq(p))]
           Bad == {n \in Nat : \E p \in Seq(Syllables) : Len(p) = n /\ ~Fine(p)}
<1>0. Len(value) \in Nat /\ Seq(Syllables) \subseteq Nodes
  <2>1. Syllables \subseteq Texts
    BY SyllableFacts
  <2>2. QED
    BY <2>1 DEF Texts, Nodes
<1>1. Bad = {}
  <2> SUFFICES ASSUME Bad # {} PROVE FALSE
    OBVIOUS
  <2>1. PICK n \in Bad : \A k \in Bad : n <= k
    <3>1. Bad \in SUBSET Nat
      OBVIOUS
    <3> HIDE DEF Bad
    <3>2. QED
      BY <3>1, LeastNatural
  <2>2. PICK p \in Seq(Syllables) : Len(p) = n /\ ~Fine(p)
    BY <2>1
  <2>3. n \in Nat /\ p \in Nodes
    BY <1>0, <2>2
  <2>4. PICK w \in Texts : /\ value = FlattenSeq(p) \o w
                           /\ ~(f[Len(FlattenSeq(p))] = TRUE /\ Len(p) <= g[Len(FlattenSeq(p))])
    BY <2>2
  <2>5. n # 0
    <3> SUFFICES ASSUME n = 0 PROVE FALSE
      OBVIOUS
    <3>1. FlattenSeq(p) = <<>> /\ Len(FlattenSeq(p)) = 0
      BY <2>2, <2>3, FlattenUnfolds
    <3>2. 0 \in 0 .. Len(value)
      BY <1>0
    <3>3. f[0] = Reach(f, value, 0) /\ g[0] = Counted(g, value, 0)
      BY <3>2
    <3>4. f[0] = TRUE /\ g[0] = 0
      BY <3>3 DEF Reach, Counted
    <3>5. QED
      BY <2>2, <2>4, <3>1, <3>4
  <2>6. PICK u \in Seq(Syllables), x \in Syllables : p = Append(u, x) /\ Len(u) = n - 1
    <3>1. /\ Len(p) = n /\ n \in 1 .. Len(p) /\ p[n] \in Syllables
          /\ \A i \in 1 .. n - 1 : p[i] \in Syllables
      BY <2>2, <2>3, <2>5
    <3>2. PICK u : u = [i \in 1 .. n - 1 |-> p[i]]
      OBVIOUS
    <3>3. u \in Seq(Syllables) /\ Len(u) = n - 1
      BY <2>3, <2>5, <3>1, <3>2
    <3>4. p = Append(u, p[n])
      BY <2>3, <2>5, <3>1, <3>2, <3>3
    <3>5. QED
      BY <3>1, <3>3, <3>4
  <2>7. PICK v : v = FlattenSeq(u)
    OBVIOUS
  <2>8. x \in Texts /\ Len(x) \in Nat \ {0} /\ u \in Nodes
    BY <1>0, SyllableFacts
  <2>9. v \in Texts /\ FlattenSeq(p) = v \o x
    BY <2>6, <2>7, <2>8, FlattenStep
  <2>10. value = v \o (x \o w) /\ x \o w \in Texts
    <3>1. x \o w \in Texts
      BY <2>8 DEF Texts
    <3>2. (v \o x) \o w = v \o (x \o w)
      BY <2>8, <2>9, TextsJoin, Zenon
    <3>3. QED
      BY <2>4, <2>9, <3>1, <3>2, Zenon
  <2>11. Fine(u)
    <3>1. n - 1 \in Nat /\ n - 1 \notin Bad
      <4> HIDE DEF Bad
      <4>1. QED
        BY <2>1, <2>3, <2>5
    <3> HIDE DEF Fine
    <3>2. QED
      BY <2>6, <3>1
  <2>12. f[Len(v)] = TRUE /\ Len(u) <= g[Len(v)]
    BY <2>7, <2>10, <2>11
  <2>13. PICK pos : pos = Len(v) + Len(x)
    OBVIOUS
  <2>14. /\ StartsWith(value, x, Len(v)) /\ Len(v \o x) = pos /\ pos <= Len(value)
         /\ Len(v) \in Nat /\ pos \in 0 .. Len(value) /\ pos # 0 /\ Len(x) <= pos
         /\ pos - Len(x) = Len(v) /\ Len(v) \in 0 .. Len(value)
    <3>1. /\ StartsWith(value, x, Len(v)) /\ Len(v \o x) = Len(v) + Len(x)
          /\ Len(v \o x) <= Len(value)
      BY <2>4, <2>8, <2>9, StartsBetween
    <3>2. Len(v) \in Nat
      BY <2>9 DEF Texts
    <3>3. QED
      BY <1>0, <2>8, <2>13, <3>1, <3>2
  <2>15. f[pos] = TRUE
    <3>1. f[pos] = Reach(f, value, pos)
      BY <2>14
    <3>2. \E s \in Syllables : Len(s) <= pos /\ f[pos - Len(s)] /\ StartsWith(value, s, pos - Len(s))
      BY <2>12, <2>14
    <3>3. QED
      BY <3>1, <3>2 DEF Reach
  <2>16. n <= g[pos]
    <3>1. /\ g[pos] \in Int /\ g[Len(v)] \in Int
          /\ \A y \in EndCounts(g, value, pos) : y <= g[pos]
      BY <1>0, <2>14, CountedTypes
    <3>2. g[Len(v)] >= 0
      BY <2>3, <2>5, <2>6, <2>12, <3>1
    <3>3. PICK y : y = g[Len(v)] + 1
      OBVIOUS
    <3>4. /\ Len(x) <= pos /\ g[pos - Len(x)] >= 0 /\ StartsWith(value, x, pos - Len(x))
          /\ y = g[pos - Len(x)] + 1
      BY <2>14, <3>2, <3>3
    <3>5. y \in EndCounts(g, value, pos)
      BY <3>4, EndCountsCases
    <3>6. y <= g[pos]
      BY <3>1, <3>5
    <3>7. QED
      BY <2>3, <2>6, <2>12, <3>1, <3>3, <3>6
  <2>17. QED
    BY <2>2, <2>4, <2>9, <2>14, <2>15, <2>16
<1>2. ASSUME NEW p \in Seq(Syllables) PROVE Fine(p)
  <2>1. Len(p) \in Nat
    OBVIOUS
  <2> HIDE DEF Fine
  <2>2. QED
    BY <1>1, <2>1
<1>3. QED
  BY <1>2

\* A spelling has at most as many syllables as letters; is_complete_syllable_sequence
\* accepts what it spells, and complete_syllable_count counts at least its syllables.
LEMMA SpellingAccepted ==
    ASSUME NEW S, NEW value \in Seq(S), NEW p \in Spellings(value)
    PROVE  /\ value # <<>> => IsCompleteSyllableSequence(value)
           /\ CompleteSyllableCount(value) \in Int
           /\ Len(p) \in Nat /\ Len(p) <= Len(value) /\ Len(p) <= CompleteSyllableCount(value)
<1>0. Len(value) \in Nat
  OBVIOUS
<1>1. PICK n \in 0 .. Len(value) : p \in [1 .. n -> Syllables]
  BY DEF Spellings, BoundedSeq, SeqOf
<1>2. p \in Seq(Syllables) /\ Len(p) = n /\ n \in Nat
  BY <1>0, <1>1
<1>3. FlattenSeq(p) = value
  BY DEF Spellings
<1>4. Syllables \subseteq Texts
  BY SyllableFacts
<1>5. p \in Nodes
  BY <1>2, <1>4 DEF Nodes
<1>6. <<>> \in Texts
  BY DEF Texts
<1>7. value \in Texts
  BY <1>3, <1>5, <1>6, FlattenStep
<1>8. value = FlattenSeq(p) \o <<>>
  BY <1>3, <1>7, ConcatEmptySeq DEF Texts
<1>9. PICK f : /\ f = [pos \in 0 .. Len(value) |-> Reach(f, value, pos)]
               /\ value # <<>> /\ f[Len(value)] => IsCompleteSyllableSequence(value)
  BY ReachUnfolds
<1>10. PICK g : /\ g = [pos \in 0 .. Len(value) |-> Counted(g, value, pos)]
                /\ CompleteSyllableCount(value) = g[Len(value)]
  BY CountedUnfolds
<1>11. f[Len(FlattenSeq(p))] = TRUE /\ Len(p) <= g[Len(FlattenSeq(p))]
  BY <1>2, <1>6, <1>7, <1>8, <1>9, <1>10, SpellingReaches
<1>12. g[Len(value)] \in Int
  <2>1. Len(value) \in 0 .. Len(value)
    BY <1>0
  <2>2. QED
    BY <1>0, <1>10, <2>1, CountedTypes
<1>13. QED
  BY <1>0, <1>1, <1>2, <1>3, <1>9, <1>10, <1>11, <1>12

\* Valid keys split into groups, none of them empty.
LEMMA GroupFacts ==
    ASSUME NEW keys \in Keys
    PROVE  /\ Groups(keys) \in Seq(Seq(Letters \cup {Apostrophe}))
           /\ Len(Groups(keys)) \in Nat \ {0}
           /\ \A i \in 1 .. Len(Groups(keys)) : Groups(keys)[i] # <<>>
<1> DEFINE A == Letters \cup {Apostrophe}
           len == Len(keys)
           cuts == {i \in DOMAIN keys : keys[i] = Apostrophe} \cup {0, len + 1}
           card == Cardinality(cuts)
           group(g) == SubSeq(keys, Nth(cuts, g) + 1, Nth(cuts, g + 1) - 1)
<1>1. keys \in Seq(A) /\ len \in Nat /\ len # 0 /\ DOMAIN keys = 1 .. len
  <2>1. PICK n \in 0 .. MaxKeys : keys \in [1 .. n -> A]
    BY DEF Keys, BoundedSeq, SeqOf
  <2>2. n \in Nat
    BY MatchAssumption
  <2>3. keys \in Seq(A)
    BY <2>1, <2>2
  <2>4. keys # <<>>
    BY DEF Keys
  <2> HIDE DEF A
  <2>5. QED
    BY <2>3, <2>4, EmptySeq
<1>2. /\ keys[1] # Apostrophe /\ keys[len] # Apostrophe
      /\ \A i \in 1 .. len - 1 : keys[i] # Apostrophe \/ keys[i + 1] # Apostrophe
  BY DEF Keys, Valid, Last
<1>3. \A c \in cuts : c \in 0 .. len + 1
  BY <1>1
<1>4. cuts \in SUBSET Nat /\ IsFiniteSet(cuts) /\ card \in Nat
  <2>1. cuts \in SUBSET Nat /\ len + 1 \in Nat /\ \A c \in cuts : c <= len + 1
    <3> HIDE DEF cuts
    <3>1. QED
      BY <1>1, <1>3
  <2> HIDE DEF cuts
  <2>2. IsFiniteSet(cuts)
    BY <2>1, FS_BoundedSetOfNaturals
  <2>3. QED
    BY <2>1, <2>2, FS_CardinalityType
<1>5. card - 1 \in Nat \ {0}
  <2>1. PICK P, R : P = {0} /\ R = P \cup {len + 1}
    OBVIOUS
  <2>2. R \subseteq cuts /\ len + 1 \notin P
    BY <1>1, <2>1
  <2>3. IsFiniteSet(P) /\ Cardinality(P) = 1
    BY <2>1, FS_Singleton
  <2>4. Cardinality(R) = Cardinality(P) + 1
    BY <2>1, <2>2, <2>3, FS_AddElement
  <2> HIDE DEF cuts
  <2>5. Cardinality(R) <= card
    BY <1>4, <2>2, FS_Subset
  <2>6. QED
    BY <1>4, <2>3, <2>4, <2>5
<1>6. ASSUME NEW c \in cuts, c + 1 \in cuts PROVE FALSE
  <2>1. c \in 0 .. len + 1 /\ c + 1 \in 0 .. len + 1
    BY <1>3, <1>6
  <2>2. c # len + 1
    BY <1>1, <2>1
  <2>3. CASE c = 0
    BY <1>1, <1>2, <1>6, <2>3
  <2>4. CASE c # 0
    <3>1. c \in 1 .. len /\ keys[c] = Apostrophe
      BY <1>1, <2>1, <2>2, <2>4
    <3>2. CASE c = len
      BY <1>2, <3>1, <3>2
    <3>3. CASE c # len
      <4>1. c \in 1 .. len - 1 /\ c + 1 # len + 1 /\ c + 1 # 0
        BY <1>1, <3>1, <3>3
      <4>2. keys[c + 1] = Apostrophe
        BY <1>6, <4>1
      <4>3. QED
        BY <1>2, <3>1, <4>1, <4>2
    <3>4. QED
      BY <3>2, <3>3
  <2>5. QED
    BY <2>3, <2>4
<1>7. Groups(keys) = [g \in 1 .. card - 1 |-> group(g)]
  BY DEF Groups
<1> HIDE DEF cuts
<1>8. ASSUME NEW g \in 1 .. card - 1
      PROVE  group(g) \in Seq(A) /\ group(g) # <<>>
  <2>1. PICK a, b : a = Nth(cuts, g) /\ b = Nth(cuts, g + 1)
    OBVIOUS
  <2>2. g \in 1 .. card /\ g + 1 \in 1 .. card /\ g \in Nat
    BY <1>4, <1>5
  <2>3. /\ a \in cuts /\ Cardinality({j \in cuts : j <= a}) = g
        /\ b \in cuts /\ Cardinality({j \in cuts : j <= b}) = g + 1
    BY <1>4, <2>1, <2>2, NthRanks
  <2>4. a \in 0 .. len + 1 /\ b \in 0 .. len + 1
    BY <1>3, <2>3
  <2>5. a < b
    <3> SUFFICES ASSUME b <= a PROVE FALSE
      BY <1>1, <2>4
    <3>1. {j \in cuts : j <= b} \subseteq {j \in cuts : j <= a}
      <4> SUFFICES ASSUME NEW j \in cuts, j <= b PROVE j <= a
        OBVIOUS
      <4>1. j \in Nat
        BY <1>4
      <4>2. QED
        BY <2>4, <4>1
    <3>2. IsFiniteSet({j \in cuts : j <= a})
      BY <1>4, FS_Subset
    <3>3. Cardinality({j \in cuts : j <= b}) <= Cardinality({j \in cuts : j <= a})
      BY <3>1, <3>2, FS_Subset
    <3>4. g + 1 <= g
      BY <2>3, <3>3
    <3>5. QED
      BY <2>2, <3>4
  <2>6. b # a + 1
    BY <1>6, <2>3
  <2>7. 1 <= a + 1 /\ a + 1 <= b - 1 /\ b - 1 <= len /\ a + 1 \in Nat /\ b - 1 \in Nat
    BY <1>1, <2>4, <2>5, <2>6
  <2>8. \A i \in a + 1 .. b - 1 : keys[i] \in A
    <3>1. \A i \in 1 .. len : keys[i] \in A
      BY <1>1
    <3> HIDE DEF A
    <3>2. QED
      BY <1>1, <2>7, <3>1
  <2>9. PICK s : s = SubSeq(keys, a + 1, b - 1)
    OBVIOUS
  <2> HIDE DEF A
  <2>10. s \in Seq(A) /\ Len(s) = (b - 1) - (a + 1) + 1
    BY <1>1, <2>7, <2>8, <2>9, SubSeqProperties
  <2>11. s # <<>>
    <3>1. Len(s) # 0
      BY <2>7, <2>10
    <3>2. QED
      BY <2>10, <3>1, EmptySeq
  <2>12. QED
    BY <2>1, <2>9, <2>10, <2>11
<1> HIDE DEF group, card, A
<1>9. Groups(keys) \in Seq(Seq(A)) /\ Len(Groups(keys)) = card - 1
  BY <1>5, <1>7, <1>8
<1>10. \A i \in 1 .. card - 1 : Groups(keys)[i] # <<>>
  BY <1>7, <1>8
<1>11. QED
  BY <1>5, <1>9, <1>10 DEF A

\* The most syllables of a spelling.
Most(value) == Max({Len(p) : p \in Spellings(value)})

\* complete_syllable_count gives no fewer.
LEMMA MostCounted ==
    ASSUME NEW S, NEW value \in Seq(S), Spellings(value) # {}
    PROVE  Most(value) \in Nat /\ CompleteSyllableCount(value) \in Nat /\ Most(value) <= CompleteSyllableCount(value)
<1> DEFINE T == {Len(p) : p \in Spellings(value)}
           count == CompleteSyllableCount(value)
<1>0. Len(value) \in Nat
  OBVIOUS
<1>1. \A p \in Spellings(value) : Len(p) \in Nat /\ Len(p) <= Len(value) /\ Len(p) <= count /\ count \in Int
  BY SpellingAccepted
<1> HIDE DEF count
<1>2. T # {} /\ \A x \in T : x \in Int /\ -1 <= x /\ x <= Len(value)
  <2>1. T # {}
    OBVIOUS
  <2>2. ASSUME NEW x \in T PROVE x \in Int /\ -1 <= x /\ x <= Len(value)
    <3>1. PICK p \in Spellings(value) : x = Len(p)
      OBVIOUS
    <3>2. x \in Nat /\ x <= Len(value)
      BY <1>1, <3>1
    <3>3. QED
      BY <3>2
  <2>3. QED
    BY <2>1, <2>2
<1>3. \A x \in T : x \in Nat /\ x <= count /\ count \in Int
  BY <1>1
<1> HIDE DEF T
<1>4. Max(T) \in T
  BY <1>0, <1>2, MaxBounded
<1>5. Max(T) \in Nat /\ count \in Int /\ Max(T) <= count
  BY <1>3, <1>4
<1>6. count \in Nat
  BY <1>5
<1>7. QED
  BY <1>5, <1>6 DEF Most, T, count

\* Keys that are spelled out are eligible.
LEMMA SpelledOutEligible ==
    ASSUME NEW keys \in Keys, SpelledOut(keys)
    PROVE  LexicalCompletionEligible(keys)
<1>1. PICK gs : gs = Groups(keys)
  OBVIOUS
<1> DEFINE A == Letters \cup {Apostrophe}
           len == Len(gs)
           prior == 1 .. (len - 1)
<1>2. PICK final : final = gs[len]
  OBVIOUS
<1>3. /\ gs \in Seq(Seq(A)) /\ len \in Nat \ {0}
      /\ \A i \in 1 .. len : gs[i] \in Seq(A) /\ gs[i] # <<>>
  <2>1. gs \in Seq(Seq(A)) /\ len \in Nat \ {0} /\ \A i \in 1 .. len : gs[i] # <<>>
    BY <1>1, GroupFacts
  <2> HIDE DEF A
  <2>2. QED
    BY <2>1
<1> HIDE DEF A
<1>4. final \in Seq(A) /\ final # <<>> /\ \A i \in prior : gs[i] \in Seq(A) /\ gs[i] # <<>>
  BY <1>2, <1>3
<1> DEFINE Head_(split) == SubSeq(final, 1, split)
           Tail_(split) == SubSeq(final, split + 1, Len(final))
           a == [i \in prior |-> Most(gs[i])]
           b == [i \in prior |-> CompleteSyllableCount(gs[i])]
<1>5. /\ \A i \in prior : Spellings(gs[i]) # {}
      /\ \/ Spellings(final) # {}
         \/ \E split \in 0 .. (Len(final) - 1) :
               /\ Spellings(Head_(split)) # {}
               /\ SumFunction(a) + Most(Head_(split)) >= 2
               /\ \E s \in Syllables : IsStrictPrefix(Tail_(split), s)
  BY <1>1, <1>2 DEF SpelledOut, Most, Last
<1>6. \A i \in prior : IsCompleteSyllableSequence(gs[i])
  <2> SUFFICES ASSUME NEW i \in prior PROVE IsCompleteSyllableSequence(gs[i])
    OBVIOUS
  <2>1. PICK p : p \in Spellings(gs[i])
    BY <1>5
  <2>2. QED
    BY <1>4, <2>1, SpellingAccepted
<1>7. SUFFICES \/ IsCompleteSyllableSequence(final)
               \/ \E split \in 0 .. (Len(final) - 1) :
                     /\ SumFunction(b) + CompleteSyllableCount(Head_(split)) >= 2
                     /\ \E s \in Syllables : IsStrictPrefix(Tail_(split), s)
  BY <1>1, <1>2, <1>6 DEF LexicalCompletionEligible, Last
<1>8. CASE Spellings(final) # {}
  <2>1. PICK p : p \in Spellings(final)
    BY <1>8
  <2>2. QED
    BY <1>4, <2>1, SpellingAccepted
<1>9. CASE \E split \in 0 .. (Len(final) - 1) :
               /\ Spellings(Head_(split)) # {}
               /\ SumFunction(a) + Most(Head_(split)) >= 2
               /\ \E s \in Syllables : IsStrictPrefix(Tail_(split), s)
  <2>1. PICK split \in 0 .. (Len(final) - 1) :
               /\ Spellings(Head_(split)) # {}
               /\ SumFunction(a) + Most(Head_(split)) >= 2
               /\ \E s \in Syllables : IsStrictPrefix(Tail_(split), s)
    BY <1>9
  <2>2. Head_(split) \in Seq(A)
    <3>1. Len(final) \in Nat /\ \A i \in 1 .. Len(final) : final[i] \in A
      BY <1>4
    <3>2. 1 \in Nat /\ split \in Nat /\ \A i \in 1 .. split : final[i] \in A
      BY <3>1
    <3>3. QED
      BY <1>4, <3>2, SubSeqProperties
  <2>3. PICK h : h = Head_(split)
    OBVIOUS
  <2>4. Most(h) \in Nat /\ CompleteSyllableCount(h) \in Nat /\ Most(h) <= CompleteSyllableCount(h)
    BY <2>1, <2>2, <2>3, MostCounted
  <2>5. \A i \in prior : a[i] \in Nat /\ b[i] \in Nat /\ a[i] <= b[i]
    <3> SUFFICES ASSUME NEW i \in prior PROVE a[i] \in Nat /\ b[i] \in Nat /\ a[i] <= b[i]
      OBVIOUS
    <3>1. gs[i] \in Seq(A) /\ Spellings(gs[i]) # {}
      BY <1>4, <1>5
    <3>2. /\ Most(gs[i]) \in Nat /\ CompleteSyllableCount(gs[i]) \in Nat
          /\ Most(gs[i]) <= CompleteSyllableCount(gs[i])
      BY <3>1, MostCounted
    <3>3. a[i] = Most(gs[i]) /\ b[i] = CompleteSyllableCount(gs[i])
      OBVIOUS
    <3> HIDE DEF a, b
    <3>4. QED
      BY <3>2, <3>3
  <2>6. DOMAIN a = prior /\ DOMAIN b = prior /\ a = [i \in prior |-> a[i]] /\ b = [i \in prior |-> b[i]]
    OBVIOUS
  <2>7. IsFiniteSet(prior)
    BY <1>3, FS_Interval
  <2> HIDE DEF a, b, prior
  <2>8. a \in [prior -> Nat] /\ b \in [prior -> Nat]
    BY <2>5, <2>6
  <2>9. Total(a, prior) \in Nat /\ Total(b, prior) \in Nat /\ Total(a, prior) <= Total(b, prior)
    BY <2>5, <2>7, <2>8, SumsGrow
  <2>10. SumFunction(a) = Total(a, prior) /\ SumFunction(b) = Total(b, prior)
    BY <2>6, SumIsTotal
  <2>11. SumFunction(b) + CompleteSyllableCount(h) >= 2
    BY <2>1, <2>3, <2>4, <2>9, <2>10
  <2>12. QED
    BY <2>1, <2>3, <2>11
<1>10. QED
  BY <1>5, <1>8, <1>9

\* Before the walk of a trie, the questions the page manager asks are
\* answered as they should.
LEMMA OffersTail == WalkInv /\ TailInv => LexicalTailOffered
<1> SUFFICES ASSUME WalkInv, TailInv PROVE LexicalTailOffered
  OBVIOUS
<1>1. IsQuery(query)
  BY DEF IsQuery, WalkInv, WalkTypes, TailInv, TailTypes
<1>2. query.keys \in Keys
  BY <1>1 DEF IsQuery
<1>3. SpelledOut(query.keys) => LexicalCompletionEligible(query.keys)
  BY <1>2, SpelledOutEligible
<1>4. Cardinality(Paths(query)) >= PageSize => LexicalTailMayFillPage(query)
  BY <1>1, PageNotRuledOut
<1>5. QED
  BY <1>3, <1>4 DEF LexicalTailOffered

\* For every index and all keys, _lexical_completion_eligible accepts keys
\* that are spelled out, whole or up to an unfinished last syllable after two
\* complete ones, and _lexical_tail_may_fill_page gives the lexical tail up
\* only when fewer than a page of paths cover the keys: neither the counts of
\* syllables per group nor the counts of paths, which stop at a page and add
\* up overlapping matches, ever fall short.
THEOREM TailIsOffered == WalkSpec => []LexicalTailOffered
<1>1. WalkInit => WalkInv /\ TailInv
  BY TailInvInit
<1>2. WalkInv /\ TailInv /\ [WalkNext]_allVars => WalkInv' /\ TailInv'
  BY TailInvStep
<1>3. WalkInv /\ TailInv => LexicalTailOffered
  BY OffersTail
<1>4. QED
  BY <1>1, <1>2, <1>3, PTL DEF WalkSpec
==============================================================================
