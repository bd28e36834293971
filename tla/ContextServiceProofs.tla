------------------------ MODULE ContextServiceProofs ------------------------
(***************************************************************************)
(* The query side of the model service for any number of sources, query    *)
(* threads, bindings and epochs.                                           *)
(*                                                                         *)
(* The argument for queries: an epoch is bound once, when it is the newest *)
(* one, so a binding that a secure focus has cleared never comes back, and *)
(* a query that finds its binding on the second look has not lost it in    *)
(* between.  The argument for revisions: _latest_source_revisions lists    *)
(* the sources by recency, so an entry is pushed out only behind           *)
(* MAX_CONTEXT_BINDINGS others that were all taken after it.               *)
(***************************************************************************)
EXTENDS ContextService, FiniteSetTheorems, NaturalLemmas, TLAPS

PagePc == {"capture", "page", "recheck"}

\* The lock's section is about the newest request.
Forwarding ==
    forward.op = "bind" => Len(texts) > 0 /\ texts[Len(texts)] = forward.id

\* A binding names the identity its epoch was requested with; the epoch a
\* section is about to bind is above all of them.
BindingsNameTheirText ==
    \A i \in DOMAIN bindings :
        /\ bindings[i].epoch <= Len(texts)
        /\ forward.op = "bind" => bindings[i].epoch < Len(texts)
        /\ texts[bindings[i].epoch] = bindings[i].id

\* A page request carries an epoch of its identity, older than one being bound.
NamesItsEpoch(x) ==
    x.pc \in PagePc =>
        IF x.epoch = 0 THEN x.id = NoBinding
        ELSE /\ x.epoch <= Len(texts)
             /\ forward.op = "bind" => x.epoch < Len(texts)
             /\ texts[x.epoch] = x.id
             /\ x.id # NoBinding

\* After a secure focus the binding of a running page request is gone for good.
CrossedIsUnbound(x) ==
    x.pc \in PagePc /\ x.epoch > 0 /\ x.crossed
        => \A i \in DOMAIN bindings : bindings[i].epoch # x.epoch

\* A page is scored with its own identity's text or the baseline.
Scored(x) == x.text \in {Hidden, x.id} \ {NoBinding}

\* A query with an identity carries an epoch of that identity.
QueryNamesItsEpoch(x) ==
    x.pc = "query" /\ x.id # NoBinding =>
        x.epoch > 0 /\ x.epoch <= Len(texts) /\ texts[x.epoch] = x.id

GoodQuery(x) ==
    /\ NamesItsEpoch(x)
    /\ CrossedIsUnbound(x)
    /\ x.pc \in {"page", "recheck", "replied"} => Scored(x)
    /\ QueryNamesItsEpoch(x)
    /\ x.pc = "replied" /\ x.epoch > 0 => ~x.crossed
    /\ x.pc = "answered" /\ x.id # NoBinding => x.text \in {Hidden, x.id}

\* The inductive invariant behind the two properties of pages.
PageInv ==
    /\ TypeOK
    /\ Forwarding
    /\ BindingsNameTheirText
    /\ \A s \in sets : Scored(s)
    /\ \A q \in Queries : GoodQuery(query[q])

\* The sources taken since request i, i's own left out.
Since(i) == {texts[k].source : k \in i .. Len(texts)} \cap (Sources \ {texts[i].source})

\* _latest_source_revisions has one entry per source.
OneEntryPerSource ==
    \A i, j \in DOMAIN revisions : revisions[i].source = revisions[j].source => i = j

\* Entry k of _latest_source_revisions accounts for request i: it is at least as
\* new a revision of the same source, and what stands behind it came later.
AccountsFor(k, i) ==
    /\ revisions[k].source = texts[i].source
    /\ revisions[k].revision >= texts[i].revision
    /\ \A m \in DOMAIN revisions : m > k => revisions[m].source \in Since(i)

\* A source taken once is still listed, or enough others have followed it.
RecencyListed ==
    \A i \in DOMAIN texts : texts[i].source \in Sources =>
        \/ Cardinality(Since(i)) >= MaxBindings
        \/ \E k \in DOMAIN revisions : AccountsFor(k, i)

\* The inductive invariant behind RevisionsGrow.
RevisionInv ==
    /\ TypeOK
    /\ OneEntryPerSource
    /\ RecencyListed
    /\ RevisionsGrow

-----------------------------------------------------------------------------
(* The operators *)

\* The entries of s outside I, in order, are t; p is where each one stood in s.
KeepsOrder(p, s, I, t) ==
    /\ p \in [1 .. Len(t) -> (DOMAIN s) \ I]
    /\ \A k \in 1 .. Len(t) : t[k] = s[p[k]]
    /\ \A k, m \in 1 .. Len(t) : k < m => p[k] < p[m]
    /\ \A i \in (DOMAIN s) \ I : \E k \in 1 .. Len(t) : p[k] = i

\* Forgetting the entry at one position keeps the others in order.
LEMMA WithoutKeepsOrder ==
    ASSUME NEW S, NEW s \in Seq(S), NEW I \in SUBSET DOMAIN s,
           \A i, j \in I : i = j
    PROVE  /\ Without(s, I) \in Seq(S)
           /\ Len(Without(s, I)) = Len(s) - (IF I = {} THEN 0 ELSE 1)
           /\ \E p : KeepsOrder(p, s, I, Without(s, I))
<1>1. CASE I = {}
  <2>1. Without(s, I) = s
    BY <1>1 DEF Without
  <2> DEFINE p == [k \in 1 .. Len(s) |-> k]
  <2>2. KeepsOrder(p, s, I, s)
    BY <1>1 DEF KeepsOrder
  <2>3. QED
    BY <1>1, <2>1, <2>2
<1>2. CASE I # {}
  <2> DEFINE i0 == CHOOSE i \in I : TRUE
             n == Len(s) - 1
             p == [k \in 1 .. n |-> IF k < i0 THEN k ELSE k + 1]
  <2>1. i0 \in I /\ i0 \in 1 .. Len(s) /\ I = {i0}
    BY <1>2
  <2>2. Without(s, I) = [k \in 1 .. n |-> s[IF k < i0 THEN k ELSE k + 1]]
    BY <1>2 DEF Without, RemoveAt
  <2> HIDE DEF i0
  <2>3. n \in Nat /\ n <= Len(s) /\ Len(s) \in Nat
    BY <2>1
  <2>4. \A k \in 1 .. n : p[k] \in 1 .. Len(s) /\ p[k] # i0 /\ s[p[k]] \in S
    BY <2>1, <2>3
  <2>5. Without(s, I) \in [1 .. n -> S] /\ \A k \in 1 .. n : Without(s, I)[k] = s[p[k]]
    BY <2>2, <2>4
  <2>6. Without(s, I) \in Seq(S) /\ Len(Without(s, I)) = n
    BY <2>3, <2>5
  <2>7. \A k, m \in 1 .. n : k < m => p[k] < p[m]
    BY <2>1, <2>3
  <2>8. \A i \in 1 .. Len(s) : i # i0 => \E k \in 1 .. n : p[k] = i
    <3> TAKE i \in 1 .. Len(s)
    <3>1. CASE i < i0
      <4>1. i \in 1 .. n /\ p[i] = i
        BY <3>1, <2>1, <2>3
      <4>2. QED
        BY <4>1
    <3>2. CASE i > i0
      <4>1. i - 1 \in 1 .. n /\ p[i - 1] = i
        BY <3>2, <2>1, <2>3
      <4>2. QED
        BY <4>1
    <3>3. QED
      BY <3>1, <3>2, <2>1
  <2>9. p \in [1 .. n -> (DOMAIN s) \ I]
    BY <2>1, <2>4
  <2> HIDE DEF p
  <2>10. KeepsOrder(p, s, I, Without(s, I))
    <3> DEFINE t == Without(s, I)
    <3>1. Len(t) = n /\ DOMAIN s = 1 .. Len(s)
      BY <2>6
    <3>2. \A i \in (DOMAIN s) \ I : \E k \in 1 .. n : p[k] = i
      BY <2>1, <2>8, <3>1
    <3>3. QED
      BY <2>5, <2>7, <2>9, <3>1, <3>2 DEF KeepsOrder
  <2>11. QED
    BY <1>2, <2>6, <2>10
<1>3. QED
  BY <1>1, <1>2

\* t ends in a new entry; before it stand the entries of s outside I, in order,
\* except that the first ones are gone when t is full.
Recalls(p, s, I, t) ==
    /\ p \in [1 .. Len(t) - 1 -> (DOMAIN s) \ I]
    /\ \A k \in 1 .. Len(t) - 1 : t[k] = s[p[k]]
    /\ \A k, m \in 1 .. Len(t) - 1 : k < m => p[k] < p[m]
    /\ \A i \in (DOMAIN s) \ I :
          \/ \E k \in 1 .. Len(t) - 1 : p[k] = i
          \/ Len(t) = MaxBindings /\ \A k \in 1 .. Len(t) - 1 : i < p[k]

\* An OrderedDict of at most MaxBindings entries remembers an entry: what it held
\* stays in order before it, or went first because the dict is full.
LEMMA RememberKeepsOrder ==
    ASSUME NEW S, NEW s \in Seq(S), Len(s) <= MaxBindings, NEW x \in S,
           NEW I \in SUBSET DOMAIN s, \A i, j \in I : i = j
    PROVE  /\ Remember(s, I, x) \in Seq(S)
           /\ Len(Remember(s, I, x)) > 0
           /\ Len(Remember(s, I, x)) <= MaxBindings
           /\ Remember(s, I, x)[Len(Remember(s, I, x))] = x
           /\ \E p : Recalls(p, s, I, Remember(s, I, x))
<1> DEFINE w == Without(s, I)
           a == Append(w, x)
           t == Remember(s, I, x)
<1>1. PICK p : KeepsOrder(p, s, I, w)
  BY WithoutKeepsOrder
<1>2. w \in Seq(S) /\ Len(w) \in Nat /\ Len(w) <= Len(s) /\ Len(s) \in Nat
  BY WithoutKeepsOrder
<1>3. t = IF Len(a) > MaxBindings THEN Tail(a) ELSE a
  BY DEF Remember, Bounded
<1> HIDE DEF w, t
<1>4. /\ a \in Seq(S) /\ Len(a) = Len(w) + 1 /\ a[Len(w) + 1] = x
      /\ \A k \in 1 .. Len(w) : a[k] = w[k]
  BY <1>2
<1> HIDE DEF a
<1>5. MaxBindings \in Nat /\ MaxBindings > 0
  BY ServiceAssumption
<1>6. CASE Len(a) <= MaxBindings
  <2>1. t = a
    BY <1>2, <1>3, <1>4, <1>5, <1>6
  <2>2. Len(t) - 1 = Len(w)
    BY <1>2, <1>4, <2>1
  <2>3. /\ p \in [1 .. Len(t) - 1 -> (DOMAIN s) \ I]
        /\ \A k \in 1 .. Len(t) - 1 : t[k] = s[p[k]]
        /\ \A k, m \in 1 .. Len(t) - 1 : k < m => p[k] < p[m]
        /\ \A i \in (DOMAIN s) \ I : \E k \in 1 .. Len(t) - 1 : p[k] = i
    BY <1>1, <1>2, <1>4, <2>1, <2>2 DEF KeepsOrder
  <2>4. t \in Seq(S) /\ Len(t) > 0 /\ Len(t) <= MaxBindings /\ t[Len(t)] = x
    BY <1>2, <1>4, <1>6, <2>1
  <2>5. Recalls(p, s, I, t)
    BY <2>3 DEF Recalls
  <2>6. QED
    BY <2>4, <2>5 DEF t
<1>7. CASE Len(a) > MaxBindings
  <2>1. t = Tail(a) /\ Len(w) = MaxBindings /\ Len(a) > 0
    BY <1>2, <1>3, <1>4, <1>5, <1>7
  <2>2. /\ t \in Seq(S) /\ Len(t) = Len(w)
        /\ \A k \in 1 .. Len(t) : t[k] = a[k + 1]
    BY <1>2, <1>4, <2>1
  <2> DEFINE r == [k \in 1 .. Len(t) - 1 |-> p[k + 1]]
  <2>3. \A k \in 1 .. Len(t) - 1 : k + 1 \in 1 .. Len(w) /\ r[k] = p[k + 1]
    BY <1>2, <2>2
  <2>4. /\ r \in [1 .. Len(t) - 1 -> (DOMAIN s) \ I]
        /\ \A k \in 1 .. Len(t) - 1 : t[k] = s[r[k]]
    <3>1. \A k \in 1 .. Len(t) - 1 : /\ r[k] \in (DOMAIN s) \ I
                                    /\ w[k + 1] = s[r[k]]
      BY <1>1, <2>3 DEF KeepsOrder
    <3>2. \A k \in 1 .. Len(t) - 1 : k \in 1 .. Len(t) /\ t[k] = w[k + 1]
      BY <1>2, <1>4, <2>2, <2>3
    <3>3. QED
      BY <3>1, <3>2
  <2>5. \A k, m \in 1 .. Len(t) - 1 : k < m => r[k] < r[m]
    BY <1>1, <1>2, <2>2, <2>3 DEF KeepsOrder
  <2>6. ASSUME NEW i \in (DOMAIN s) \ I
        PROVE  \/ \E k \in 1 .. Len(t) - 1 : r[k] = i
               \/ \A k \in 1 .. Len(t) - 1 : i < r[k]
    <3>1. PICK k \in 1 .. Len(w) : p[k] = i
      BY <1>1 DEF KeepsOrder
    <3>2. CASE k = 1
      BY <1>1, <1>2, <2>3, <2>2, <3>1, <3>2 DEF KeepsOrder
    <3>3. CASE k > 1
      <4>1. k - 1 \in 1 .. Len(t) - 1 /\ r[k - 1] = i
        BY <1>2, <2>2, <3>1, <3>3
      <4>2. QED
        BY <4>1
    <3>4. QED
      BY <3>1, <3>2, <3>3, <1>2
  <2> HIDE DEF r
  <2>7. Len(t) > 0 /\ Len(t) = MaxBindings /\ t[Len(t)] = x
    BY <1>2, <1>4, <1>5, <2>1, <2>2
  <2>8. Recalls(r, s, I, t)
    BY <2>4, <2>5, <2>6, <2>7 DEF Recalls
  <2>9. t \in Seq(S) /\ Len(t) <= MaxBindings
    BY <1>5, <2>2, <2>7
  <2>10. QED
    BY <2>7, <2>8, <2>9 DEF t
<1>8. QED
  BY <1>2, <1>4, <1>5, <1>6, <1>7

\* The newest of a non-empty set of retained epochs is one of them.
LEMMA ContextEpochType ==
    ASSUME TypeOK
    PROVE  ContextEpoch \in Nat /\ (ContextEpoch = 0 \/ ContextEpoch \in states)
<1>1. CASE states = {}
  BY <1>1 DEF ContextEpoch
<1>2. CASE states # {}
  <2>1. states \in SUBSET Nat /\ Len(texts) \in Nat /\ \A n \in states : n <= Len(texts)
    BY DEF TypeOK
  <2>2. \E m \in states : \A n \in states : n <= m
    BY <1>2, <2>1, GreatestNatural
  <2>3. Newest(states) \in states
    BY <2>2 DEF Newest
  <2>4. QED
    BY <1>2, <2>1, <2>3 DEF ContextEpoch
<1>3. QED
  BY <1>1, <1>2

-----------------------------------------------------------------------------
(* Types *)

LEMMA InitType == Init => TypeOK
<1> SUFFICES ASSUME Init PROVE TypeOK
  OBVIOUS
<1>1. forward \in Section
  BY DEF Init, Section, Idle
<1>2. query \in [Queries -> Query]
  BY DEF Init, Query, NoQuery, Text
<1>3. bindings \in Seq(Binding) /\ revisions \in Seq(Identity) /\ texts \in Seq(Text)
  BY DEF Init
<1>4. Len(bindings) = 0 /\ Len(revisions) = 0 /\ MaxBindings \in Nat
  BY ServiceAssumption DEF Init
<1>5. leaving \in BOOLEAN
  BY DEF Init
<1>6. QED
  BY <1>1, <1>2, <1>3, <1>4, <1>5 DEF Init, TypeOK

USE DEF serviceVars, engineVars, pageVars

LEMMA PublishType ==
    ASSUME TypeOK, Publish
    PROVE  TypeOK'
<1>1. Len(texts) \in Nat /\ Len(texts) > 0 /\ states' \subseteq states \cup {Len(texts)}
  BY DEF TypeOK, Publish, Retain
<1>2. states' \subseteq 1 .. Len(texts)
  BY <1>1 DEF TypeOK
<1>3. QED
  BY <1>2 DEF TypeOK, Publish

LEMMA UpdateType ==
    ASSUME TypeOK, NEW id \in Identity \cup {NoBinding}, NEW epoch \in Nat,
           UpdateContext(id, epoch), OneEntryPerSource
    PROVE  TypeOK'
<1>1. forward' \in Section
  BY DEF UpdateContext, Section, Idle
<1>2. texts' \in Seq(Text) /\ Len(texts') = Len(texts) + 1 /\ Len(texts) \in Nat
  <2>1. id \in Text
    BY DEF Text
  <2>2. QED
    BY <2>1 DEF TypeOK, UpdateContext
<1>3. states' \subseteq 1 .. Len(texts')
  BY <1>2 DEF TypeOK, UpdateContext
<1>4. clientEpoch' \in Nat
  BY DEF TypeOK, UpdateContext
<1>5. revisions' \in Seq(Identity) /\ Len(revisions') <= MaxBindings
  <2>1. CASE id = NoBinding
    BY <2>1 DEF TypeOK, UpdateContext
  <2>2. CASE id # NoBinding
    <3>1. id \in Identity /\ revisions' = Remember(revisions, OfSource(id.source), id)
      BY <2>2 DEF UpdateContext
    <3>2. /\ OfSource(id.source) \in SUBSET DOMAIN revisions
          /\ \A i, j \in OfSource(id.source) : i = j
      BY DEF OfSource, OneEntryPerSource
    <3>3. QED
      BY <3>1, <3>2, RememberKeepsOrder DEF TypeOK
  <2>3. QED
    BY <2>1, <2>2
<1>6. QED
  BY <1>1, <1>2, <1>3, <1>4, <1>5 DEF TypeOK, UpdateContext

LEMMA BindType ==
    ASSUME TypeOK, BindEpoch, OfEpoch(Len(texts)) = {}, Len(texts) > 0
    PROVE  TypeOK'
<1>1. forward' \in Section
  BY DEF BindEpoch, Section, Idle
<1>2. requested' \in Nat
  BY DEF TypeOK, BindEpoch
<1>3. bindings' \in Seq(Binding) /\ Len(bindings') <= MaxBindings
  <2>1. CASE forward.id = NoBinding
    BY <2>1 DEF TypeOK, BindEpoch
  <2>2. CASE forward.id # NoBinding
    <3> DEFINE x == [epoch |-> Len(texts), id |-> forward.id]
    <3>1. bindings' = Remember(bindings, OfEpoch(Len(texts)), x)
      BY <2>2 DEF BindEpoch
    <3>2. x \in Binding
      BY <2>2 DEF TypeOK, Binding, Section
    <3> HIDE DEF x
    <3>3. QED
      BY <3>1, <3>2, RememberKeepsOrder DEF TypeOK
  <2>3. QED
    BY <2>1, <2>2
<1>4. QED
  BY <1>1, <1>2, <1>3 DEF TypeOK, BindEpoch

LEMMA SecureType ==
    ASSUME TypeOK,
           \/ SecureClears \/ SecureClearsSessions \/ SecureClearsHistory
           \/ \E failed \in BOOLEAN : SecureHidesStates(failed)
    PROVE  TypeOK'
<1>1. CASE SecureClears
  <2>1. forward' \in Section
    BY <1>1 DEF SecureClears, Section, Idle
  <2>2. bindings' \in Seq(Binding) /\ Len(bindings') = 0
    BY <1>1 DEF SecureClears
  <2>3. query' \in [Queries -> Query]
    <3>1. \A q \in Queries : [query[q] EXCEPT !.crossed = TRUE] \in Query /\ query[q] \in Query
      BY DEF TypeOK, Query
    <3>2. QED
      BY <1>1, <3>1 DEF SecureClears
  <2>4. QED
    BY <1>1, <2>1, <2>2, <2>3, ServiceAssumption DEF TypeOK, SecureClears
<1>2. CASE SecureClearsSessions
  <2>1. forward' \in Section
    BY <1>2 DEF SecureClearsSessions, TypeOK, Section
  <2>2. QED
    BY <1>2, <2>1 DEF TypeOK, SecureClearsSessions
<1>3. CASE SecureClearsHistory
  <2>1. forward' \in Section
    BY <1>3 DEF SecureClearsHistory, Section, Idle
  <2>2. leaving' \in BOOLEAN
    BY <1>3 DEF SecureClearsHistory
  <2>3. QED
    BY <1>3, <2>1, <2>2 DEF TypeOK, SecureClearsHistory
<1>4. ASSUME NEW failed \in BOOLEAN, SecureHidesStates(failed) PROVE TypeOK'
  <2>1. forward' \in Section
    BY <1>4 DEF SecureHidesStates, TypeOK, Section
  <2>2. texts' \in Seq(Text)
    <3>1. Hidden \in Text
      BY DEF Text
    <3>2. texts' = Append(texts, Hidden)
      BY <1>4 DEF SecureHidesStates
    <3>3. QED
      BY <3>1, <3>2 DEF TypeOK
  <2>3. QED
    BY <1>4, <2>1, <2>2 DEF TypeOK, SecureHidesStates
<1>5. QED
  BY <1>1, <1>2, <1>3, <1>4

LEMMA SessionsType ==
    ASSUME TypeOK, InvalidateSessions \/ FocusOrCommit \/ Reset
    PROVE  TypeOK'
<1>1. CASE InvalidateSessions
  <2>1. leaving' \in BOOLEAN
    BY <1>1 DEF InvalidateSessions
  <2>2. QED
    BY <1>1, <2>1 DEF TypeOK, InvalidateSessions
<1>2. CASE FocusOrCommit
  BY <1>2 DEF TypeOK, FocusOrCommit
<1>3. CASE Reset
  BY <1>3, ContextEpochType DEF TypeOK, Reset
<1>4. QED
  BY <1>1, <1>2, <1>3

\* A step of one query thread.
LEMMA MoveType ==
    ASSUME TypeOK, NEW q \in Queries, NEW x \in Query, Move(q, x),
           UNCHANGED <<serviceVars, engineVars>>,
           sets' \subseteq CandidateSet, setCount' \in Nat
    PROVE  TypeOK'
<1>1. query' \in [Queries -> Query]
  BY DEF TypeOK, Move
<1>2. QED
  BY <1>1 DEF TypeOK

-----------------------------------------------------------------------------
(* Pages and queries *)

\* What the service and the engine do keeps a query good: texts only grow, and
\* only the epoch that is being bound is bound.
LEMMA GoodPersists ==
    ASSUME NEW x \in Query, GoodQuery(x), TypeOK,
           Len(texts') \in Nat, Len(texts) <= Len(texts'),
           \A e \in 1 .. Len(texts) : texts'[e] = texts[e],
           forward'.op = "bind" => Len(texts) < Len(texts') \/ forward.op = "bind",
           \A i \in DOMAIN bindings' :
              \/ \E j \in DOMAIN bindings : bindings'[i] = bindings[j]
              \/ forward.op = "bind" /\ bindings'[i].epoch = Len(texts)
    PROVE  GoodQuery(x)'
<1>1. x.epoch \in Nat /\ Len(texts) \in Nat
  BY DEF TypeOK, Query
<1>2. NamesItsEpoch(x)'
  BY <1>1 DEF GoodQuery, NamesItsEpoch
<1>3. CrossedIsUnbound(x)'
  <2> SUFFICES ASSUME x.pc \in PagePc, x.epoch > 0, x.crossed,
                      NEW i \in DOMAIN bindings', bindings'[i].epoch = x.epoch
               PROVE  FALSE
    BY DEF CrossedIsUnbound
  <2>1. \A j \in DOMAIN bindings : bindings[j].epoch # x.epoch
    BY DEF GoodQuery, CrossedIsUnbound
  <2>2. forward.op = "bind" => x.epoch < Len(texts)
    BY <1>1 DEF GoodQuery, NamesItsEpoch
  <2>3. QED
    BY <1>1, <2>1, <2>2
<1>4. QueryNamesItsEpoch(x)'
  BY <1>1 DEF GoodQuery, QueryNamesItsEpoch
<1>5. QED
  BY <1>2, <1>3, <1>4 DEF GoodQuery, Scored

\* The same for all queries when none of them moves.
LEMMA QueriesStay ==
    ASSUME PageInv, UNCHANGED query,
           Len(texts') \in Nat, Len(texts) <= Len(texts'),
           \A e \in 1 .. Len(texts) : texts'[e] = texts[e],
           forward'.op = "bind" => Len(texts) < Len(texts') \/ forward.op = "bind",
           \A i \in DOMAIN bindings' :
              \/ \E j \in DOMAIN bindings : bindings'[i] = bindings[j]
              \/ forward.op = "bind" /\ bindings'[i].epoch = Len(texts)
    PROVE  \A q \in Queries : GoodQuery(query[q])'
<1> SUFFICES ASSUME NEW q \in Queries PROVE GoodQuery(query[q])'
  OBVIOUS
<1>1. query[q] \in Query /\ GoodQuery(query[q]) /\ query'[q] = query[q] /\ TypeOK
  BY DEF PageInv, TypeOK
<1>2. PICK x \in Query : x = query[q]
  BY <1>1
<1>3. GoodQuery(x)'
  BY <1>1, <1>2, GoodPersists
<1>4. x = query'[q]
  BY <1>1, <1>2
<1>5. QED
  BY <1>3, <1>4 DEF GoodQuery, NamesItsEpoch, CrossedIsUnbound, QueryNamesItsEpoch, Scored

\* A query thread moves to a good record; the service and the engine stand still.
LEMMA QueryMoves ==
    ASSUME PageInv, NEW q \in Queries, NEW x \in Query, GoodQuery(x), Move(q, x),
           UNCHANGED <<serviceVars, engineVars>>,
           sets' \subseteq CandidateSet, setCount' \in Nat,
           \A s \in sets' : Scored(s)
    PROVE  PageInv'
<1>1. TypeOK'
  BY MoveType DEF PageInv
<1>2. ASSUME NEW r \in Queries PROVE GoodQuery(query[r])'
  <2>1. query'[r] = IF r = q THEN x ELSE query[r]
    BY DEF Move, PageInv, TypeOK
  <2>2. GoodQuery(query'[r])
    BY <2>1 DEF PageInv
  <2>3. QED
    BY <2>2 DEF GoodQuery, NamesItsEpoch, CrossedIsUnbound, QueryNamesItsEpoch, Scored
<1>3. Forwarding' /\ BindingsNameTheirText'
  BY DEF PageInv, Forwarding, BindingsNameTheirText
<1>4. (\A s \in sets : Scored(s))'
  BY DEF Scored
<1>5. QED
  BY <1>1, <1>2, <1>3, <1>4 DEF PageInv

\* An answered, refused or timed-out query may be anything that claims nothing.
LEMMA NoQueryGood == NoQuery \in Query /\ GoodQuery(NoQuery)
<1>1. NoQuery \in Query
  BY DEF NoQuery, Query, Text
<1>2. GoodQuery(NoQuery)
  BY DEF NoQuery, GoodQuery, NamesItsEpoch, CrossedIsUnbound, QueryNamesItsEpoch, PagePc
<1>3. QED
  BY <1>1, <1>2

\* The identity of a binding is an editor's, its epoch the one it names.
LEMMA BindingFacts ==
    ASSUME PageInv, NEW i \in DOMAIN bindings
    PROVE  /\ bindings[i] \in Binding
           /\ bindings[i].epoch \in Nat /\ bindings[i].epoch > 0
           /\ bindings[i].epoch <= Len(texts)
           /\ forward.op = "bind" => bindings[i].epoch < Len(texts)
           /\ bindings[i].id \in Identity
           /\ bindings[i].id # NoBinding /\ bindings[i].id # Hidden
           /\ texts[bindings[i].epoch] = bindings[i].id
<1>1. bindings[i] \in Binding
  BY DEF PageInv, TypeOK
<1>2. bindings[i].epoch \in Nat \ {0} /\ bindings[i].id \in Identity
  BY <1>1 DEF Binding
<1>3. NoBinding \notin Identity /\ Hidden \notin Identity
  BY ServiceAssumption DEF NoBinding, Hidden, Identity
<1>4. QED
  BY <1>1, <1>2, <1>3 DEF PageInv, BindingsNameTheirText

\* A page request begins with a binding, or without an editor context.
LEMMA BeginPageSafe ==
    ASSUME PageInv, NEW q \in Queries, NEW page \in Nat, NEW set \in Nat,
           NEW epoch, NEW id, BeginPage(q, epoch, id, page, set),
           \/ epoch = 0 /\ id = NoBinding
           \/ \E i \in DOMAIN bindings : epoch = bindings[i].epoch /\ id = bindings[i].id
    PROVE  PageInv'
<1> DEFINE x == [NoQuery EXCEPT !.pc = "capture", !.epoch = epoch, !.id = id,
                                !.page = page, !.set = set]
<1>1. x.pc = "capture" /\ x.epoch = epoch /\ x.id = id /\ x.crossed = FALSE
  BY DEF NoQuery
<1>2. Move(q, x) /\ UNCHANGED <<serviceVars, engineVars, pageVars>>
  BY DEF BeginPage
<1>3. \/ epoch = 0 /\ id = NoBinding
      \/ /\ epoch \in Nat /\ epoch > 0 /\ epoch <= Len(texts)
         /\ forward.op = "bind" => epoch < Len(texts)
         /\ id \in Identity /\ id # NoBinding /\ texts[epoch] = id
  BY BindingFacts
<1>4. x \in Query
  <2>1. epoch \in Nat /\ id \in Identity \cup {NoBinding}
    BY <1>3
  <2>2. QED
    BY <2>1, NoQueryGood DEF Query
<1> HIDE DEF x
<1>5. GoodQuery(x)
  <2>1. NamesItsEpoch(x)
    BY <1>1, <1>3 DEF NamesItsEpoch
  <2>2. CrossedIsUnbound(x)
    BY <1>1 DEF CrossedIsUnbound
  <2>3. QED
    BY <1>1, <2>1, <2>2 DEF GoodQuery, QueryNamesItsEpoch
<1>6. sets' \subseteq CandidateSet /\ setCount' \in Nat /\ \A s \in sets' : Scored(s)
  BY <1>2 DEF PageInv, TypeOK
<1>7. QED
  BY <1>2, <1>4, <1>5, <1>6, QueryMoves

\* The snapshot of an epoch is of the text the epoch was requested with.
LEMMA CaptureSafe ==
    ASSUME PageInv, NEW q \in Queries, CaptureState(q)
    PROVE  PageInv'
<1> DEFINE e == query[q].epoch
           text == IF e \in states THEN texts[e] ELSE Hidden
           x == [query[q] EXCEPT !.pc = "page", !.text = text]
<1>1. query[q] \in Query /\ GoodQuery(query[q]) /\ query[q].pc = "capture"
  BY DEF PageInv, TypeOK, CaptureState
<1>2. Move(q, x) /\ UNCHANGED <<serviceVars, engineVars, pageVars>>
  BY DEF CaptureState
<1>3. e \in Nat /\ (e \in states => e > 0 /\ e <= Len(texts) /\ texts[e] \in Text)
  BY <1>1 DEF PageInv, TypeOK, Query
<1>4. text \in Text /\ text \in {Hidden, query[q].id} \ {NoBinding}
  <2>1. e \in states => texts[e] = query[q].id /\ query[q].id # NoBinding
    BY <1>1, <1>3 DEF GoodQuery, NamesItsEpoch, PagePc
  <2>2. Hidden # NoBinding /\ Hidden \in Text
    BY ServiceAssumption DEF Hidden, NoBinding, Text
  <2>3. QED
    BY <1>3, <2>1, <2>2
<1> HIDE DEF text
<1>5. /\ x \in Query /\ x.pc = "page" /\ x.text = text
      /\ x.epoch = query[q].epoch /\ x.id = query[q].id /\ x.crossed = query[q].crossed
  BY <1>1, <1>4 DEF Query
<1> HIDE DEF x
<1>6. GoodQuery(x)
  <2>1. NamesItsEpoch(x) /\ CrossedIsUnbound(x)
    BY <1>1, <1>5 DEF GoodQuery, NamesItsEpoch, CrossedIsUnbound, PagePc
  <2>2. QED
    BY <1>4, <1>5, <2>1 DEF GoodQuery, Scored, QueryNamesItsEpoch
<1>7. sets' \subseteq CandidateSet /\ setCount' \in Nat /\ \A s \in sets' : Scored(s)
  BY <1>2 DEF PageInv, TypeOK
<1>8. QED
  BY <1>2, <1>5, <1>6, <1>7, QueryMoves

\* A page request fails.
LEMMA FailSafe ==
    ASSUME PageInv, NEW q \in Queries, Fail(q),
           UNCHANGED <<serviceVars, engineVars, pageVars>>
    PROVE  PageInv'
<1>1. sets' \subseteq CandidateSet /\ setCount' \in Nat /\ \A s \in sets' : Scored(s)
  BY DEF PageInv, TypeOK
<1>2. QED
  BY <1>1, NoQueryGood, QueryMoves DEF Fail

\* A candidate set that a request may use is one of its identity.
LEMMA QueryPageSafe ==
    ASSUME PageInv, NEW q \in Queries, QueryPage(q)
    PROVE  PageInv'
<1>1. /\ query[q] \in Query /\ GoodQuery(query[q]) /\ query[q].pc = "page"
      /\ UNCHANGED <<serviceVars, engineVars>>
      /\ sets \subseteq CandidateSet /\ setCount \in Nat /\ \A s \in sets : Scored(s)
  BY DEF PageInv, TypeOK, QueryPage
<1>2. ASSUME NEW text \in Text, NEW x, x = [query[q] EXCEPT !.pc = "recheck", !.text = text],
             text \in {Hidden, query[q].id} \ {NoBinding}
      PROVE  x \in Query /\ GoodQuery(x)
  <2>1. /\ x \in Query /\ x.pc = "recheck" /\ x.text = text
        /\ x.epoch = query[q].epoch /\ x.id = query[q].id /\ x.crossed = query[q].crossed
    BY <1>1, <1>2 DEF Query
  <2>2. NamesItsEpoch(x) /\ CrossedIsUnbound(x)
    BY <1>1, <2>1 DEF GoodQuery, NamesItsEpoch, CrossedIsUnbound, PagePc
  <2>3. QED
    BY <1>2, <2>1, <2>2 DEF GoodQuery, Scored, QueryNamesItsEpoch
<1>3. ASSUME NEW s \in SessionFor(q),
             Move(q, [query[q] EXCEPT !.pc = "recheck", !.text = s.text]),
             UNCHANGED pageVars
      PROVE  PageInv'
  <2>1. s \in sets /\ s.id = query[q].id
    BY DEF SessionFor, SetOf
  <2>2. s.text \in Text /\ s.text \in {Hidden, query[q].id} \ {NoBinding}
    BY <1>1, <2>1 DEF CandidateSet, Scored
  <2>3. QED
    BY <1>1, <1>2, <1>3, <2>2, QueryMoves
<1>4. CASE /\ setCount' = setCount + 1
           /\ sets' = sets \cup {[sid |-> setCount + 1, epoch |-> query[q].epoch,
                                  id |-> query[q].id, text |-> query[q].text]}
           /\ Move(q, [query[q] EXCEPT !.pc = "recheck"])
  <2> DEFINE n == [sid |-> setCount + 1, epoch |-> query[q].epoch,
                   id |-> query[q].id, text |-> query[q].text]
  <2>1. query[q].text \in Text /\ query[q].text \in {Hidden, query[q].id} \ {NoBinding}
    BY <1>1 DEF GoodQuery, Scored, Query
  <2>2. n \in CandidateSet /\ Scored(n)
    BY <1>1, <2>1 DEF CandidateSet, Query, Scored
  <2>3. [query[q] EXCEPT !.pc = "recheck"]
          = [query[q] EXCEPT !.pc = "recheck", !.text = query[q].text]
    BY <1>1 DEF Query
  <2>4. /\ [query[q] EXCEPT !.pc = "recheck"] \in Query
        /\ GoodQuery([query[q] EXCEPT !.pc = "recheck"])
    BY <1>2, <2>1, <2>3
  <2>5. sets' \subseteq CandidateSet /\ setCount' \in Nat /\ \A s \in sets' : Scored(s)
    BY <1>1, <1>4, <2>2
  <2>6. QED
    BY <1>1, <1>4, <2>4, <2>5, QueryMoves
<1>5. CASE Fail(q) /\ UNCHANGED pageVars
  BY <1>1, <1>5, FailSafe
<1>6. QED
  BY <1>3, <1>4, <1>5 DEF QueryPage

\* The second look at the bindings.
LEMMA RecheckSafe ==
    ASSUME PageInv, NEW q \in Queries, Recheck(q)
    PROVE  PageInv'
<1>1. /\ query[q] \in Query /\ GoodQuery(query[q]) /\ query[q].pc = "recheck"
      /\ UNCHANGED <<serviceVars, engineVars, pageVars>>
  BY DEF PageInv, TypeOK, Recheck
<1>2. CASE Fail(q)
  BY <1>1, <1>2, FailSafe
<1>3. CASE /\ ~(query[q].epoch > 0 /\ ~Bound(query[q].epoch, query[q].id))
           /\ Move(q, [query[q] EXCEPT !.pc = "replied"])
  <2> DEFINE x == [query[q] EXCEPT !.pc = "replied"]
  <2>1. /\ x \in Query /\ x.pc = "replied" /\ x.text = query[q].text
        /\ x.epoch = query[q].epoch /\ x.id = query[q].id /\ x.crossed = query[q].crossed
    BY <1>1 DEF Query
  <2>2. query[q].epoch > 0 => ~query[q].crossed
    BY <1>1, <1>3 DEF GoodQuery, CrossedIsUnbound, Bound, PagePc
  <2> HIDE DEF x
  <2>3. GoodQuery(x)
    <3>1. NamesItsEpoch(x) /\ CrossedIsUnbound(x) /\ QueryNamesItsEpoch(x)
      BY <2>1 DEF NamesItsEpoch, CrossedIsUnbound, QueryNamesItsEpoch, PagePc
    <3>2. QED
      BY <1>1, <2>1, <2>2, <3>1 DEF GoodQuery, Scored
  <2>4. Move(q, x)
    BY <1>3 DEF x
  <2>5. sets' \subseteq CandidateSet /\ setCount' \in Nat /\ \A s \in sets' : Scored(s)
    BY <1>1 DEF PageInv, TypeOK
  <2>6. QED
    BY <1>1, <2>1, <2>3, <2>4, <2>5, QueryMoves
<1>4. QED
  BY <1>2, <1>3 DEF Recheck

\* A query begins with the epoch of its identity, or without an identity.
LEMMA BeginQuerySafe ==
    ASSUME PageInv, NEW q \in Queries, NEW epoch \in Nat, NEW id, BeginQuery(q, epoch, id),
           \/ id = NoBinding
           \/ \E i \in DOMAIN bindings : epoch = bindings[i].epoch /\ id = bindings[i].id
    PROVE  PageInv'
<1> DEFINE e == IF epoch = 0 THEN ContextEpoch ELSE epoch
           x == [NoQuery EXCEPT !.pc = "query", !.id = id, !.epoch = e]
<1>1. Move(q, x) /\ UNCHANGED <<serviceVars, engineVars, pageVars>>
  BY DEF BeginQuery
<1>2. e \in Nat
  BY ContextEpochType DEF PageInv
<1>3. \/ id = NoBinding
      \/ /\ id \in Identity /\ id # NoBinding
         /\ e > 0 /\ e <= Len(texts) /\ texts[e] = id
  BY BindingFacts
<1> HIDE DEF e
<1>4. x \in Query /\ x.pc = "query" /\ x.id = id /\ x.epoch = e
  BY <1>2, <1>3 DEF NoQuery, Query, Text
<1> HIDE DEF x
<1>5. GoodQuery(x)
  BY <1>3, <1>4 DEF GoodQuery, NamesItsEpoch, CrossedIsUnbound, QueryNamesItsEpoch, PagePc
<1>6. sets' \subseteq CandidateSet /\ setCount' \in Nat /\ \A s \in sets' : Scored(s)
  BY <1>1 DEF PageInv, TypeOK
<1>7. QED
  BY <1>1, <1>4, <1>5, <1>6, QueryMoves

\* A query with an identity is answered with that identity's text or the baseline.
LEMMA AnswerSafe ==
    ASSUME PageInv, NEW q \in Queries, AnswerQuery(q)
    PROVE  PageInv'
<1> DEFINE e == IF query[q].epoch = 0 THEN ContextEpoch ELSE query[q].epoch
           text == IF e \in states THEN texts[e] ELSE Hidden
           x == [query[q] EXCEPT !.pc = "answered", !.text = text]
<1>1. query[q] \in Query /\ GoodQuery(query[q]) /\ query[q].pc = "query"
  BY DEF PageInv, TypeOK, AnswerQuery
<1>2. Move(q, x) /\ UNCHANGED <<serviceVars, engineVars, pageVars>>
  BY DEF AnswerQuery
<1>3. text \in Text
  <2>1. \A k \in states : texts[k] \in Text
    BY DEF PageInv, TypeOK
  <2>2. Hidden \in Text
    BY DEF Text
  <2>3. QED
    BY <2>1, <2>2
<1>4. query[q].id # NoBinding => text \in {Hidden, query[q].id}
  BY <1>1 DEF GoodQuery, QueryNamesItsEpoch
<1> HIDE DEF text
<1>5. x \in Query /\ x.pc = "answered" /\ x.id = query[q].id /\ x.text = text
  BY <1>1, <1>3 DEF Query
<1> HIDE DEF x
<1>6. GoodQuery(x)
  BY <1>4, <1>5 DEF GoodQuery, NamesItsEpoch, CrossedIsUnbound, QueryNamesItsEpoch, PagePc
<1>7. sets' \subseteq CandidateSet /\ setCount' \in Nat /\ \A s \in sets' : Scored(s)
  BY <1>2 DEF PageInv, TypeOK
<1>8. QED
  BY <1>2, <1>5, <1>6, <1>7, QueryMoves

\* A request draws a new epoch; the service is about to bind it.
LEMMA UpdateSafe ==
    ASSUME PageInv, TypeOK', NEW id, NEW epoch, UpdateContext(id, epoch)
    PROVE  PageInv'
<1>1. /\ texts' = Append(texts, id) /\ forward = Idle
      /\ forward' = [Idle EXCEPT !.op = "bind", !.id = id]
      /\ UNCHANGED <<bindings, sets, query>>
  BY DEF UpdateContext
<1>2. /\ Len(texts) \in Nat /\ Len(texts') = Len(texts) + 1 /\ texts'[Len(texts')] = id
      /\ \A e \in 1 .. Len(texts) : texts'[e] = texts[e]
  BY <1>1 DEF PageInv, TypeOK
<1>3. forward'.op = "bind" /\ forward'.id = id
  BY <1>1 DEF Idle
<1>4. Forwarding'
  BY <1>2, <1>3 DEF Forwarding
<1>5. BindingsNameTheirText'
  <2> SUFFICES ASSUME NEW i \in DOMAIN bindings
               PROVE  /\ bindings[i].epoch <= Len(texts')
                      /\ bindings[i].epoch < Len(texts')
                      /\ texts'[bindings[i].epoch] = bindings[i].id
    BY <1>1, <1>2 DEF BindingsNameTheirText
  <2>1. QED
    BY <1>2, BindingFacts
<1>6. \A q \in Queries : GoodQuery(query[q])'
  BY <1>1, <1>2, QueriesStay
<1>7. QED
  BY <1>1, <1>4, <1>5, <1>6 DEF PageInv, Scored

\* The new epoch is bound: it is newer than every epoch a query carries.
LEMMA BindSafe ==
    ASSUME PageInv, TypeOK', BindEpoch
    PROVE  PageInv'
<1>1. /\ forward.op = "bind" /\ forward' = Idle
      /\ UNCHANGED <<texts, sets, query>>
      /\ Len(texts) \in Nat /\ Len(texts) > 0 /\ texts[Len(texts)] = forward.id
      /\ bindings \in Seq(Binding) /\ Len(bindings) <= MaxBindings
      /\ forward.id \in Identity \cup {NoBinding}
  BY DEF PageInv, TypeOK, BindEpoch, Forwarding, Section
<1>2. forward'.op # "bind"
  BY <1>1 DEF Idle
<1>3. ASSUME NEW i \in DOMAIN bindings'
      PROVE  \/ \E j \in DOMAIN bindings : bindings'[i] = bindings[j]
             \/ bindings'[i] = [epoch |-> Len(texts), id |-> forward.id]
  <2>1. CASE forward.id = NoBinding
    BY <1>3, <2>1 DEF BindEpoch
  <2>2. CASE forward.id # NoBinding
    <3> DEFINE x == [epoch |-> Len(texts), id |-> forward.id]
    <3>1. bindings' = Remember(bindings, OfEpoch(Len(texts)), x)
      BY <2>2 DEF BindEpoch
    <3>2. x \in Binding
      BY <1>1, <2>2 DEF Binding
    <3>3. OfEpoch(Len(texts)) = {}
      BY <1>1, BindingFacts DEF OfEpoch
    <3> HIDE DEF x
    <3>4. /\ bindings' \in Seq(Binding) /\ bindings'[Len(bindings')] = x
          /\ \E p : Recalls(p, bindings, {}, bindings')
      BY <1>1, <3>1, <3>2, <3>3, RememberKeepsOrder
    <3>5. PICK p : Recalls(p, bindings, {}, bindings')
      BY <3>4
    <3>6. i \in 1 .. Len(bindings') /\ Len(bindings') \in Nat
      BY <1>3, <3>4
    <3>7. i # Len(bindings') => p[i] \in DOMAIN bindings /\ bindings'[i] = bindings[p[i]]
      BY <3>5, <3>6 DEF Recalls
    <3>8. QED
      BY <3>4, <3>7 DEF x
  <2>3. QED
    BY <2>1, <2>2
<1>4. BindingsNameTheirText'
  <2> SUFFICES ASSUME NEW i \in DOMAIN bindings'
               PROVE  /\ bindings'[i].epoch <= Len(texts)
                      /\ texts[bindings'[i].epoch] = bindings'[i].id
    BY <1>1, <1>2 DEF BindingsNameTheirText
  <2>1. CASE \E j \in DOMAIN bindings : bindings'[i] = bindings[j]
    BY <2>1, BindingFacts
  <2>2. CASE bindings'[i] = [epoch |-> Len(texts), id |-> forward.id]
    BY <1>1, <2>2
  <2>3. QED
    BY <1>3, <2>1, <2>2
<1>5. \A q \in Queries : GoodQuery(query[q])'
  BY <1>1, <1>2, <1>3, QueriesStay
<1>6. Forwarding'
  BY <1>2 DEF Forwarding
<1>7. QED
  BY <1>1, <1>4, <1>5, <1>6 DEF PageInv, Scored

\* A secure focus clears every binding, so no running query has one.
LEMMA SecureClearsSafe ==
    ASSUME PageInv, TypeOK', SecureClears
    PROVE  PageInv'
<1>1. /\ forward' = [Idle EXCEPT !.op = "sessions"]
      /\ bindings' = <<>> /\ forward = Idle
      /\ UNCHANGED <<texts, sets>>
  BY DEF SecureClears
<1>2. forward'.op # "bind" /\ DOMAIN bindings' = {}
  BY <1>1 DEF Idle
<1>3. Forwarding' /\ BindingsNameTheirText' /\ (\A s \in sets : Scored(s))'
  BY <1>1, <1>2 DEF PageInv, Forwarding, BindingsNameTheirText, Scored
<1>4. ASSUME NEW q \in Queries PROVE GoodQuery(query[q])'
  <2>1. query[q] \in Query /\ GoodQuery(query[q])
    BY DEF PageInv, TypeOK
  <2>2. /\ query'[q].pc = query[q].pc /\ query'[q].epoch = query[q].epoch
        /\ query'[q].id = query[q].id /\ query'[q].text = query[q].text
        /\ query[q].pc = "replied" => query'[q].crossed = query[q].crossed
    BY <2>1 DEF SecureClears, Query
  <2>3. NamesItsEpoch(query[q])' /\ QueryNamesItsEpoch(query[q])'
    BY <1>1, <1>2, <2>1, <2>2 DEF GoodQuery, NamesItsEpoch, QueryNamesItsEpoch
  <2>4. CrossedIsUnbound(query[q])'
    BY <1>2 DEF CrossedIsUnbound
  <2>5. QED
    BY <2>1, <2>2, <2>3, <2>4 DEF GoodQuery, Scored
<1>5. QED
  BY <1>3, <1>4 DEF PageInv

\* The rest of a secure focus.
LEMMA SecureRestSafe ==
    ASSUME PageInv, TypeOK',
           \/ SecureClearsSessions \/ SecureClearsHistory
           \/ \E failed \in BOOLEAN : SecureHidesStates(failed)
    PROVE  PageInv'
<1>1. /\ forward.op # "bind" /\ UNCHANGED <<bindings, query>>
      /\ sets' \subseteq sets
      /\ texts' = texts \/ texts' = Append(texts, Hidden)
  BY DEF SecureClearsSessions, SecureClearsHistory, SecureHidesStates
<1>2. forward'.op # "bind"
  <2>1. CASE SecureClearsSessions
    BY <2>1 DEF SecureClearsSessions, PageInv, TypeOK, Section
  <2>2. CASE SecureClearsHistory
    BY <2>2 DEF SecureClearsHistory, Idle
  <2>3. ASSUME NEW failed \in BOOLEAN, SecureHidesStates(failed) PROVE forward'.op # "bind"
    BY <2>3 DEF SecureHidesStates, PageInv, TypeOK, Section
  <2>4. QED
    BY <2>1, <2>2, <2>3
<1>3. /\ Len(texts) \in Nat /\ Len(texts') \in Nat /\ Len(texts) <= Len(texts')
      /\ \A e \in 1 .. Len(texts) : texts'[e] = texts[e]
  BY <1>1 DEF PageInv, TypeOK
<1>4. Forwarding'
  BY <1>2 DEF Forwarding
<1>5. BindingsNameTheirText'
  <2> SUFFICES ASSUME NEW i \in DOMAIN bindings
               PROVE  /\ bindings[i].epoch <= Len(texts')
                      /\ texts'[bindings[i].epoch] = bindings[i].id
    BY <1>1, <1>2 DEF BindingsNameTheirText
  <2>1. QED
    BY <1>3, BindingFacts
<1>6. \A q \in Queries : GoodQuery(query[q])'
  BY <1>1, <1>2, <1>3, QueriesStay
<1>7. (\A s \in sets : Scored(s))'
  BY <1>1 DEF PageInv, Scored
<1>8. QED
  BY <1>4, <1>5, <1>6, <1>7 DEF PageInv

\* Steps that touch no text, binding or query.
LEMMA OtherSafe ==
    ASSUME PageInv, TypeOK', UNCHANGED <<forward, bindings, texts, query>>, sets' \subseteq sets
    PROVE  PageInv'
<1>1. Forwarding' /\ BindingsNameTheirText' /\ (\A s \in sets : Scored(s))'
  BY DEF PageInv, Forwarding, BindingsNameTheirText, Scored
<1>2. \A q \in Queries : GoodQuery(query[q])'
  BY DEF PageInv, GoodQuery, NamesItsEpoch, CrossedIsUnbound, QueryNamesItsEpoch, Scored
<1>3. QED
  BY <1>1, <1>2 DEF PageInv

-----------------------------------------------------------------------------
(* Revisions *)

\* The sources taken since a request are finitely many and only become more.
LEMMA SinceGrows ==
    ASSUME TypeOK, NEW i \in 1 .. Len(texts), Len(texts') \in Nat, Len(texts) <= Len(texts'),
           \A e \in 1 .. Len(texts) : texts'[e] = texts[e]
    PROVE  /\ Since(i) \subseteq Since(i)'
           /\ IsFiniteSet(Since(i)) /\ IsFiniteSet(Since(i)')
           /\ Cardinality(Since(i)) \in Nat
           /\ Cardinality(Since(i)) <= Cardinality(Since(i)')
<1>1. Len(texts) \in Nat
  BY DEF TypeOK
<1>2. Since(i) \subseteq Since(i)'
  <2> SUFFICES ASSUME NEW k \in i .. Len(texts), texts[k].source \in Sources \ {texts[i].source}
               PROVE  texts[k].source \in Since(i)'
    BY DEF Since
  <2>1. k \in i .. Len(texts') /\ texts'[k] = texts[k] /\ texts'[i] = texts[i]
    BY <1>1
  <2>2. QED
    BY <2>1 DEF Since
<1>3. ASSUME NEW n \in Nat, NEW t PROVE IsFiniteSet({t[k].source : k \in i .. n})
  <2>1. IsFiniteSet(i .. n)
    BY <1>1, FS_Interval
  <2> DEFINE f == [k \in i .. n |-> t[k].source]
  <2>2. {t[k].source : k \in i .. n} = {f[k] : k \in i .. n}
    OBVIOUS
  <2>3. f \in [i .. n -> {t[k].source : k \in i .. n}]
        /\ \A y \in {t[k].source : k \in i .. n} : \E k \in i .. n : f[k] = y
    OBVIOUS
  <2> HIDE DEF f
  <2>4. f \in Surjection(i .. n, {t[k].source : k \in i .. n})
    BY <2>3 DEF Surjection
  <2>5. QED
    BY <2>1, <2>4, FS_Surjection
<1>4. IsFiniteSet(Since(i)) /\ IsFiniteSet(Since(i)')
  <2>1. IsFiniteSet({texts[k].source : k \in i .. Len(texts)})
    BY <1>1, <1>3
  <2>2. IsFiniteSet({texts'[k].source : k \in i .. Len(texts')})
    BY <1>3
  <2>3. /\ Since(i) \subseteq {texts[k].source : k \in i .. Len(texts)}
        /\ Since(i)' \subseteq {texts'[k].source : k \in i .. Len(texts')}
    BY DEF Since
  <2>4. QED
    BY <2>1, <2>2, <2>3, FS_Subset
<1>5. QED
  BY <1>2, <1>4, FS_Subset, FS_CardinalityType

\* What is appended to the texts without an editor's identity is no source.
LEMMA OtherTextKeepsRevisions ==
    ASSUME RevisionInv, TypeOK', UNCHANGED revisions,
           texts' = texts \/ \E x \in Text : texts' = Append(texts, x) /\ x.source \notin Sources
    PROVE  RevisionInv'
<1>1. /\ Len(texts) \in Nat /\ Len(texts') \in Nat
      /\ Len(texts) <= Len(texts') /\ Len(texts') <= Len(texts) + 1
      /\ \A e \in 1 .. Len(texts) : texts'[e] = texts[e]
      /\ Len(texts') > Len(texts) => texts'[Len(texts')].source \notin Sources
  <2>1. texts \in Seq(Text)
    BY DEF RevisionInv, TypeOK
  <2>2. CASE texts' = texts
    BY <2>1, <2>2
  <2>3. ASSUME NEW x \in Text, texts' = Append(texts, x), x.source \notin Sources
        PROVE  <1>1!:
    BY <2>1, <2>3
  <2>4. QED
    BY <2>2, <2>3
<1>2. \A e \in 1 .. Len(texts') : texts'[e].source \in Sources => e \in 1 .. Len(texts)
  BY <1>1
<1>3. OneEntryPerSource'
  BY DEF RevisionInv, OneEntryPerSource
<1>4. RecencyListed'
  <2> SUFFICES ASSUME NEW i \in 1 .. Len(texts), texts[i].source \in Sources
               PROVE  \/ Cardinality(Since(i)') >= MaxBindings
                      \/ \E k \in DOMAIN revisions : AccountsFor(k, i)'
    BY <1>1, <1>2 DEF RecencyListed, TypeOK
  <2>1. /\ Since(i) \subseteq Since(i)' /\ Cardinality(Since(i)) \in Nat
        /\ Cardinality(Since(i)) <= Cardinality(Since(i)') /\ Cardinality(Since(i)') \in Nat
    BY <1>1, SinceGrows, FS_CardinalityType DEF RevisionInv
  <2>2. CASE Cardinality(Since(i)) >= MaxBindings
    BY <2>1, <2>2, ServiceAssumption
  <2>3. ASSUME NEW k \in DOMAIN revisions, AccountsFor(k, i)
        PROVE  AccountsFor(k, i)'
    BY <1>1, <2>1, <2>3 DEF AccountsFor
  <2>4. QED
    BY <2>2, <2>3 DEF RevisionInv, RecencyListed, TypeOK
<1>5. RevisionsGrow'
  <2> SUFFICES ASSUME NEW i \in 1 .. Len(texts'), NEW j \in 1 .. Len(texts'),
                      i < j, texts'[i].source \in Sources, texts'[i].source = texts'[j].source,
                      texts'[j].revision <= texts'[i].revision
               PROVE  Cardinality({texts'[k].source : k \in i .. j}
                                    \cap (Sources \ {texts'[i].source})) >= MaxBindings
    <3>1. DOMAIN texts' = 1 .. Len(texts')
      BY DEF TypeOK
    <3>2. QED
      BY <3>1 DEF RevisionsGrow
  <2>1. i \in DOMAIN texts /\ j \in DOMAIN texts /\ texts'[i] = texts[i] /\ texts'[j] = texts[j]
    BY <1>1, <1>2 DEF RevisionInv, TypeOK
  <2>2. {texts'[k].source : k \in i .. j} = {texts[k].source : k \in i .. j}
    <3>1. \A k \in i .. j : texts'[k] = texts[k]
      BY <1>1, <1>2
    <3>2. QED
      BY <3>1
  <2>3. QED
    BY <2>1, <2>2 DEF RevisionInv, RevisionsGrow
<1>6. QED
  BY <1>3, <1>4, <1>5 DEF RevisionInv

\* An update of a source that is listed has a newer revision than its entry.
LEMMA TakenIsNewer ==
    ASSUME RevisionInv, NEW id \in Identity, NEW epoch, ~IsStale(id, epoch),
           NEW k \in DOMAIN revisions, revisions[k].source = id.source
    PROVE  id.revision > revisions[k].revision
<1>1. id # NoBinding
  BY ServiceAssumption DEF Identity, NoBinding
<1>2. OfSource(id.source) = {k}
  BY DEF OfSource, RevisionInv, OneEntryPerSource
<1>3. RevisionOf(id.source) = revisions[k].revision
  <2>1. (CHOOSE i \in OfSource(id.source) : TRUE) = k
    BY <1>2
  <2>2. QED
    BY <1>2, <2>1 DEF RevisionOf
<1>4. revisions[k] \in Identity
  BY DEF RevisionInv, TypeOK
<1>5. revisions[k].revision \in Nat /\ id.revision \in Nat
  BY <1>4, ServiceAssumption DEF Identity
<1>6. QED
  BY <1>1, <1>3, <1>5 DEF IsStale

\* The entries of a full table stand for as many sources as it has room for.
LEMMA EntriesCounted ==
    ASSUME NEW S, IsFiniteSet(S), NEW t \in Seq(Identity),
           Len(t) = MaxBindings,
           \A i, j \in DOMAIN t : t[i].source = t[j].source => i = j,
           \A i \in DOMAIN t : t[i].source \in S
    PROVE  Cardinality(S) >= MaxBindings
<1> DEFINE f == [i \in 1 .. MaxBindings |-> t[i].source]
<1>1. MaxBindings \in Nat /\ DOMAIN t = 1 .. MaxBindings
  BY ServiceAssumption
<1>2. f \in [1 .. MaxBindings -> S] /\ \A i, j \in 1 .. MaxBindings : f[i] = f[j] => i = j
  BY <1>1
<1> HIDE DEF f
<1>3. f \in Injection(1 .. MaxBindings, S)
  BY <1>2 DEF Injection, IsInjective
<1>4. Cardinality(1 .. MaxBindings) = MaxBindings
  BY <1>1, FS_Interval
<1>5. Cardinality(1 .. MaxBindings) <= Cardinality(S)
  BY <1>3, FS_Injection
<1>6. QED
  BY <1>1, <1>4, <1>5, FS_CardinalityType

\* An update takes its place at the end of the table.
LEMMA TakenUpdateKeepsRevisions ==
    ASSUME RevisionInv, TypeOK', NEW id \in Identity, NEW epoch, ~IsStale(id, epoch),
           texts' = Append(texts, id),
           revisions' = Remember(revisions, OfSource(id.source), id)
    PROVE  RevisionInv'
<1> DEFINE old == OfSource(id.source)
<1>0. PICK n \in Nat : n = Len(revisions')
  BY DEF TypeOK
<1>1. /\ texts \in Seq(Text) /\ id \in Text /\ Len(texts) \in Nat
      /\ Len(texts') = Len(texts) + 1 /\ texts'[Len(texts')] = id
      /\ \A e \in 1 .. Len(texts) : texts'[e] = texts[e]
      /\ DOMAIN texts = 1 .. Len(texts) /\ DOMAIN texts' = 1 .. Len(texts')
  <2>1. texts \in Seq(Text) /\ id \in Text
    BY DEF RevisionInv, TypeOK, Text
  <2>2. QED
    BY <2>1
<1>2. revisions \in Seq(Identity) /\ Len(revisions) <= MaxBindings
  BY DEF RevisionInv, TypeOK
<1>3. old \in SUBSET DOMAIN revisions /\ \A i, j \in old : i = j
  BY DEF OfSource, RevisionInv, OneEntryPerSource
<1>4. /\ revisions' \in Seq(Identity)
      /\ n \in Nat /\ n > 0 /\ n <= MaxBindings /\ revisions'[n] = id
      /\ \E p : Recalls(p, revisions, old, revisions')
      /\ DOMAIN revisions' = 1 .. n
  <2>1. /\ revisions' \in Seq(Identity)
        /\ n > 0 /\ n <= MaxBindings /\ revisions'[n] = id
        /\ \E p : Recalls(p, revisions, old, revisions')
    BY <1>0, <1>2, <1>3, RememberKeepsOrder
  <2>2. QED
    BY <1>0, <2>1
<1>5. PICK p : Recalls(p, revisions, old, revisions')
  BY <1>4
<1>6. \A k \in 1 .. n - 1 : /\ p[k] \in DOMAIN revisions /\ p[k] \notin old
                            /\ revisions'[k] = revisions[p[k]]
                            /\ revisions'[k].source # id.source
  <2>1. \A k \in 1 .. n - 1 : /\ p[k] \in DOMAIN revisions /\ p[k] \notin old
                              /\ revisions'[k] = revisions[p[k]]
    BY <1>0, <1>5 DEF Recalls
  <2>2. QED
    BY <2>1 DEF OfSource
<1> HIDE DEF old
<1>7. OneEntryPerSource'
  <2> SUFFICES ASSUME NEW i \in 1 .. n, NEW j \in 1 .. n, i < j,
                      revisions'[i].source = revisions'[j].source
               PROVE  FALSE
    BY <1>4 DEF OneEntryPerSource
  <2>1. CASE j = n
    BY <1>4, <1>6, <2>1
  <2>2. CASE j # n
    <3>1. i \in 1 .. n - 1 /\ j \in 1 .. n - 1
      BY <1>4, <2>2
    <3>2. p[i] < p[j]
      BY <1>0, <1>5, <3>1 DEF Recalls
    <3>3. p[i] = p[j]
      BY <1>6, <3>1 DEF RevisionInv, OneEntryPerSource
    <3>4. p[i] \in Nat
      BY <1>2, <1>6, <3>1
    <3>5. QED
      BY <3>2, <3>3, <3>4
  <2>3. QED
    BY <2>1, <2>2
<1>8. ASSUME NEW i \in 1 .. Len(texts), texts[i].source \in Sources
      PROVE  \/ Cardinality(Since(i)') >= MaxBindings
             \/ \E k \in 1 .. n : AccountsFor(k, i)'
  <2>1. /\ Since(i) \subseteq Since(i)' /\ Cardinality(Since(i)) \in Nat
        /\ Cardinality(Since(i)) <= Cardinality(Since(i)') /\ Cardinality(Since(i)') \in Nat
        /\ IsFiniteSet(Since(i)')
    BY <1>1, SinceGrows, FS_CardinalityType DEF RevisionInv
  <2>2. CASE Cardinality(Since(i)) >= MaxBindings
    BY <2>1, <2>2, ServiceAssumption
  <2>3. CASE texts[i].source = id.source /\ \E k \in DOMAIN revisions : AccountsFor(k, i)
    <3>1. PICK k \in DOMAIN revisions : AccountsFor(k, i)
      BY <2>3
    <3>2. id.revision > revisions[k].revision /\ revisions[k].revision >= texts[i].revision
      BY <2>3, <3>1, TakenIsNewer DEF AccountsFor
    <3>3. id.revision >= texts[i].revision
      <4>1. revisions[k] \in Identity /\ texts[i] \in Text
        BY <1>1, <1>2
      <4>2. /\ revisions[k].revision \in Nat /\ id.revision \in Nat
            /\ texts[i].revision \in Nat
        BY <4>1, ServiceAssumption DEF Identity, Text, Hidden, NoBinding
      <4>3. QED
        BY <3>2, <4>2
    <3>4. AccountsFor(n, i)'
      BY <1>1, <1>4, <2>3, <3>3 DEF AccountsFor
    <3>5. QED
      BY <1>4, <3>4
  <2>4. CASE texts[i].source # id.source /\ \E k \in DOMAIN revisions : AccountsFor(k, i)
    <3>1. PICK k0 \in DOMAIN revisions : AccountsFor(k0, i)
      BY <2>4
    <3>2. k0 \notin old /\ k0 \in Nat
      BY <1>2, <2>4, <3>1 DEF old, OfSource, AccountsFor
    <3>3. id.source \in Since(i)'
      <4>1. id.source \in Sources /\ Len(texts') \in i .. Len(texts') /\ texts'[i] = texts[i]
        BY <1>1 DEF Identity
      <4>2. QED
        BY <1>1, <2>4, <4>1 DEF Since
    <3>4. CASE \E k \in 1 .. n - 1 : p[k] = k0
      <4>1. PICK k \in 1 .. n - 1 : p[k] = k0
        BY <3>4
      <4>2. ASSUME NEW m \in 1 .. n, m > k PROVE revisions'[m].source \in Since(i)'
        <5>1. CASE m = n
          BY <1>4, <3>3, <5>1
        <5>2. CASE m # n
          <6>1. m \in 1 .. n - 1
            BY <1>4, <5>2
          <6>2. p[k] < p[m]
            BY <1>0, <1>5, <4>2, <6>1 DEF Recalls
          <6>3. revisions[p[m]].source \in Since(i)
            BY <1>2, <1>6, <3>1, <3>2, <4>1, <6>1, <6>2 DEF AccountsFor
          <6>4. QED
            BY <1>6, <2>1, <6>1, <6>3
        <5>3. QED
          BY <5>1, <5>2
      <4>3. revisions'[k] = revisions[k0] /\ texts'[i] = texts[i] /\ k \in 1 .. n
        BY <1>1, <1>4, <1>6, <4>1
      <4>4. AccountsFor(k, i)'
        BY <1>4, <3>1, <4>2, <4>3 DEF AccountsFor
      <4>5. QED
        BY <4>3, <4>4
    <3>5. CASE n = MaxBindings /\ \A k \in 1 .. n - 1 : k0 < p[k]
      <4>1. ASSUME NEW m \in 1 .. n PROVE revisions'[m].source \in Since(i)'
        <5>1. CASE m = n
          BY <1>4, <3>3, <5>1
        <5>2. CASE m # n
          <6>1. m \in 1 .. n - 1
            BY <1>4, <5>2
          <6>2. revisions[p[m]].source \in Since(i)
            BY <1>2, <1>6, <3>1, <3>2, <3>5, <6>1 DEF AccountsFor
          <6>3. QED
            BY <1>6, <2>1, <6>1, <6>2
        <5>3. QED
          BY <5>1, <5>2
      <4>2. QED
        BY <1>0, <1>4, <1>7, <2>1, <3>5, <4>1, EntriesCounted DEF OneEntryPerSource
    <3>6. QED
      BY <1>0, <1>5, <3>2, <3>4, <3>5 DEF Recalls
  <2>5. QED
    BY <1>1, <1>8, <2>2, <2>3, <2>4 DEF RevisionInv, RecencyListed
<1>9. RecencyListed'
  <2> SUFFICES ASSUME NEW i \in 1 .. Len(texts'), texts'[i].source \in Sources
               PROVE  \/ Cardinality(Since(i)') >= MaxBindings
                      \/ \E k \in 1 .. n : AccountsFor(k, i)'
    BY <1>1, <1>4 DEF RecencyListed
  <2>1. CASE i \in 1 .. Len(texts)
    BY <1>1, <1>8, <2>1
  <2>2. CASE i = Len(texts')
    <3>1. id.revision \in Nat
      BY ServiceAssumption DEF Identity
    <3>2. AccountsFor(n, i)'
      BY <1>1, <1>4, <2>2, <3>1 DEF AccountsFor
    <3>3. QED
      BY <1>4, <3>2
  <2>3. QED
    BY <1>1, <2>1, <2>2
<1>10. RevisionsGrow'
  <2> SUFFICES ASSUME NEW i \in 1 .. Len(texts'), NEW j \in 1 .. Len(texts'),
                      i < j, texts'[i].source \in Sources, texts'[i].source = texts'[j].source,
                      texts'[j].revision <= texts'[i].revision
               PROVE  Cardinality({texts'[k].source : k \in i .. j}
                                    \cap (Sources \ {texts'[i].source})) >= MaxBindings
    BY <1>1 DEF RevisionsGrow
  <2>1. i \in 1 .. Len(texts) /\ texts'[i] = texts[i]
    BY <1>1
  <2>2. CASE j \in 1 .. Len(texts)
    <3>1. {texts'[k].source : k \in i .. j} = {texts[k].source : k \in i .. j}
      <4>1. \A k \in i .. j : texts'[k] = texts[k]
        BY <1>1, <2>2
      <4>2. QED
        BY <4>1
    <3>2. QED
      BY <1>1, <2>1, <2>2, <3>1 DEF RevisionInv, RevisionsGrow
  <2>3. CASE j = Len(texts')
    <3>1. Cardinality(Since(i)) >= MaxBindings
      <4>1. ASSUME NEW k \in DOMAIN revisions, AccountsFor(k, i) PROVE FALSE
        <5>1. id.revision > revisions[k].revision /\ revisions[k].revision >= texts[i].revision
          BY <1>1, <2>1, <2>3, <4>1, TakenIsNewer DEF AccountsFor
        <5>2. id.revision <= texts[i].revision
          BY <1>1, <2>1, <2>3
        <5>3. revisions[k] \in Identity /\ texts[i] \in Text
          BY <1>1, <1>2, <2>1
        <5>4. /\ revisions[k].revision \in Nat /\ id.revision \in Nat
              /\ texts[i].revision \in Nat
          BY <5>3, ServiceAssumption DEF Identity, Text, Hidden, NoBinding
        <5>5. QED
          BY <5>1, <5>2, <5>4
      <4>2. QED
        BY <1>1, <2>1, <4>1 DEF RevisionInv, RecencyListed
    <3>2. Since(i)' = {texts'[k].source : k \in i .. j} \cap (Sources \ {texts'[i].source})
      BY <2>3 DEF Since
    <3>3. /\ Cardinality(Since(i)) <= Cardinality(Since(i)')
          /\ Cardinality(Since(i)) \in Nat /\ Cardinality(Since(i)') \in Nat
      BY <1>1, <2>1, SinceGrows, FS_CardinalityType DEF RevisionInv
    <3>4. Cardinality(Since(i)') >= MaxBindings
      BY <3>1, <3>3, ServiceAssumption
    <3>5. QED
      BY <3>2, <3>4
  <2>4. j \in 1 .. Len(texts) \/ j = Len(texts')
    BY <1>1
  <2>5. QED
    BY <2>2, <2>3, <2>4
<1>11. QED
  BY <1>7, <1>9, <1>10 DEF RevisionInv

-----------------------------------------------------------------------------
(* The theorems *)

\* The inductive invariant.
ServiceInv == PageInv /\ RevisionInv

LEMMA InitService == Init => ServiceInv
<1> SUFFICES ASSUME Init PROVE ServiceInv
  OBVIOUS
<1>1. TypeOK
  BY InitType
<1>2. forward.op # "bind" /\ DOMAIN bindings = {} /\ DOMAIN revisions = {} /\ DOMAIN texts = {}
  BY DEF Init, Idle
<1>3. \A q \in Queries : GoodQuery(query[q])
  BY NoQueryGood DEF Init
<1>4. PageInv
  BY <1>1, <1>2, <1>3 DEF Init, PageInv, Forwarding, BindingsNameTheirText
<1>5. RevisionInv
  BY <1>1, <1>2 DEF RevisionInv, OneEntryPerSource, RecencyListed, RevisionsGrow
<1>6. QED
  BY <1>4, <1>5 DEF ServiceInv

LEMMA UpdateServes ==
    ASSUME ServiceInv, NEW id \in Identity \cup {NoBinding}, NEW epoch \in Nat,
           UpdateContext(id, epoch)
    PROVE  ServiceInv'
<1>1. TypeOK'
  BY UpdateType DEF ServiceInv, PageInv, RevisionInv
<1>2. PageInv'
  BY <1>1, UpdateSafe DEF ServiceInv
<1>3. CASE id = NoBinding
  <2>1. revisions' = revisions /\ texts' = Append(texts, NoBinding)
    BY <1>3 DEF UpdateContext
  <2>2. NoBinding \in Text /\ NoBinding.source \notin Sources
    BY ServiceAssumption DEF NoBinding, Text
  <2>3. RevisionInv'
    BY <1>1, <2>1, <2>2, OtherTextKeepsRevisions DEF ServiceInv
  <2>4. QED
    BY <1>2, <2>3 DEF ServiceInv
<1>4. CASE id # NoBinding
  <2>1. /\ id \in Identity /\ ~IsStale(id, epoch) /\ texts' = Append(texts, id)
        /\ revisions' = Remember(revisions, OfSource(id.source), id)
    BY <1>4 DEF UpdateContext
  <2>2. RevisionInv'
    BY <1>1, <2>1, TakenUpdateKeepsRevisions DEF ServiceInv
  <2>3. QED
    BY <1>2, <2>2 DEF ServiceInv
<1>5. QED
  BY <1>3, <1>4

\* Every step preserves the invariant.
LEMMA NextService == ServiceInv /\ [Next]_vars => ServiceInv'
<1> SUFFICES ASSUME ServiceInv, [Next]_vars PROVE ServiceInv'
  OBVIOUS
<1>1. PageInv /\ RevisionInv /\ TypeOK
  BY DEF ServiceInv, PageInv
<1>2. ASSUME PageInv', UNCHANGED <<revisions, texts>> PROVE ServiceInv'
  <2>1. RevisionInv'
    BY <1>1, <1>2, OtherTextKeepsRevisions DEF PageInv
  <2>2. QED
    BY <1>2, <2>1 DEF ServiceInv
<1>3. CASE UNCHANGED vars
  <2>1. TypeOK'
    BY <1>1, <1>3 DEF TypeOK, vars
  <2>2. PageInv'
    BY <1>1, <1>3, <2>1, OtherSafe DEF vars
  <2>3. QED
    BY <1>2, <1>3, <2>2 DEF vars
<1>4. CASE Publish
  <2>1. PageInv'
    BY <1>1, <1>4, PublishType, OtherSafe DEF Publish
  <2>2. QED
    BY <1>2, <1>4, <2>1 DEF Publish
<1>5. ASSUME NEW id \in Identity, UpdateContext(id, 1) PROVE ServiceInv'
  BY <1>5, UpdateServes
<1>6. ASSUME NEW epoch \in 1 .. MaxClientEpoch, UpdateContext(NoBinding, epoch)
      PROVE  ServiceInv'
  BY <1>6, UpdateServes
<1>7. CASE BindEpoch
  <2>1. Len(texts) > 0 /\ OfEpoch(Len(texts)) = {}
    <3>1. Len(texts) > 0 /\ forward.op = "bind" /\ Len(texts) \in Nat
      BY <1>1, <1>7 DEF BindEpoch, PageInv, Forwarding, TypeOK
    <3>2. QED
      BY <1>1, <3>1, BindingFacts DEF OfEpoch
  <2>2. PageInv'
    BY <1>1, <1>7, <2>1, BindType, BindSafe
  <2>3. QED
    BY <1>2, <1>7, <2>2 DEF BindEpoch
<1>8. CASE SecureClears
  <2>1. PageInv'
    BY <1>1, <1>8, SecureType, SecureClearsSafe
  <2>2. QED
    BY <1>2, <1>8, <2>1 DEF SecureClears
<1>9. CASE SecureClearsSessions
  <2>1. PageInv'
    BY <1>1, <1>9, SecureType, SecureRestSafe
  <2>2. QED
    BY <1>2, <1>9, <2>1 DEF SecureClearsSessions
<1>10. ASSUME NEW failed \in BOOLEAN, SecureHidesStates(failed) PROVE ServiceInv'
  <2>1. TypeOK'
    BY <1>1, <1>10, SecureType
  <2>2. PageInv'
    BY <1>1, <1>10, <2>1, SecureRestSafe
  <2>3. texts' = Append(texts, Hidden) /\ revisions' = revisions
    BY <1>10 DEF SecureHidesStates
  <2>4. Hidden \in Text /\ Hidden.source \notin Sources
    BY ServiceAssumption DEF Hidden, Text
  <2>5. RevisionInv'
    BY <1>1, <2>1, <2>3, <2>4, OtherTextKeepsRevisions
  <2>6. QED
    BY <2>2, <2>5 DEF ServiceInv
<1>11. CASE SecureClearsHistory
  <2>1. PageInv'
    BY <1>1, <1>11, SecureType, SecureRestSafe
  <2>2. QED
    BY <1>2, <1>11, <2>1 DEF SecureClearsHistory
<1>12. CASE InvalidateSessions \/ FocusOrCommit \/ Reset
  <2>1. UNCHANGED <<forward, bindings, texts, query, revisions>> /\ sets' \subseteq sets
    BY <1>12 DEF InvalidateSessions, FocusOrCommit, Reset
  <2>2. PageInv'
    BY <1>1, <1>12, <2>1, SessionsType, OtherSafe
  <2>3. QED
    BY <1>2, <2>1, <2>2
<1>13. ASSUME NEW q \in Queries, BeginPage(q, 0, NoBinding, 0, 0) PROVE ServiceInv'
  <2>1. PageInv'
    BY <1>1, <1>13, BeginPageSafe
  <2>2. QED
    BY <1>2, <1>13, <2>1 DEF BeginPage
<1>14. ASSUME NEW q \in Queries, NEW i \in DOMAIN bindings, NEW set \in 0 .. setCount,
              BeginPage(q, bindings[i].epoch, bindings[i].id, IF set = 0 THEN 0 ELSE 1, set)
       PROVE  ServiceInv'
  <2>1. PICK page \in Nat : page = IF set = 0 THEN 0 ELSE 1
    OBVIOUS
  <2>2. set \in Nat
    BY <1>1 DEF TypeOK
  <2>3. PICK epoch, id : epoch = bindings[i].epoch /\ id = bindings[i].id
    OBVIOUS
  <2>4. BeginPage(q, epoch, id, page, set)
    BY <1>14, <2>1, <2>3
  <2>5. PageInv'
    BY <1>1, <2>2, <2>3, <2>4, BeginPageSafe
  <2>6. QED
    BY <1>2, <2>4, <2>5 DEF BeginPage
<1>15. ASSUME NEW q \in Queries,
              CaptureState(q) \/ QueryPage(q) \/ PageTimesOut(q) \/ Recheck(q) \/ AnswerQuery(q)
       PROVE  ServiceInv'
  <2>1. UNCHANGED <<serviceVars, engineVars>>
    BY <1>15 DEF CaptureState, QueryPage, PageTimesOut, Recheck, AnswerQuery
  <2>2. PageTimesOut(q) => Fail(q) /\ UNCHANGED <<serviceVars, engineVars, pageVars>>
    BY DEF PageTimesOut
  <2>3. PageInv'
    BY <1>1, <1>15, <2>2, CaptureSafe, QueryPageSafe, FailSafe, RecheckSafe, AnswerSafe
  <2>4. QED
    BY <1>2, <2>1, <2>3
<1>16. ASSUME NEW q \in Queries, NEW epoch \in 0 .. Len(texts), BeginQuery(q, epoch, NoBinding)
       PROVE  ServiceInv'
  <2>1. epoch \in Nat
    BY <1>1 DEF TypeOK
  <2>2. PageInv'
    BY <1>1, <1>16, <2>1, BeginQuerySafe
  <2>3. QED
    BY <1>2, <1>16, <2>2 DEF BeginQuery
<1>17. ASSUME NEW q \in Queries, NEW i \in DOMAIN bindings,
              BeginQuery(q, bindings[i].epoch, bindings[i].id)
       PROVE  ServiceInv'
  <2>1. bindings[i].epoch \in Nat
    BY <1>1, BindingFacts
  <2>2. PageInv'
    BY <1>1, <1>17, <2>1, BeginQuerySafe
  <2>3. QED
    BY <1>2, <1>17, <2>2 DEF BeginQuery
<1>18. QED
  BY <1>3, <1>4, <1>5, <1>6, <1>7, <1>8, <1>9, <1>10, <1>11, <1>12, <1>13, <1>14, <1>15,
     <1>16, <1>17 DEF Next

\* The invariant holds in every reachable state.
THEOREM Invariance == Spec => []ServiceInv
BY InitService, NextService, PTL DEF Spec

\* The tables, the texts and the queries of the service have their types, and
\* neither OrderedDict outgrows MAX_CONTEXT_BINDINGS.
THEOREM TypeCorrect == Spec => []TypeOK
<1>1. ServiceInv => TypeOK
  BY DEF ServiceInv, PageInv
<1>2. QED
  BY <1>1, Invariance, PTL

\* A page whose answer is built has seen no secure focus between its two looks at
\* the binding, however many query threads, sources and bindings there are.
THEOREM NoBoundaryCrossed == Spec => []PageCrossesNoBoundary
<1>1. ServiceInv => PageCrossesNoBoundary
  BY DEF ServiceInv, PageInv, GoodQuery, PageCrossesNoBoundary
<1>2. QED
  BY <1>1, Invariance, PTL

\* An answer for an identity is scored with the text of that identity or with the
\* baseline.
THEOREM AnswersOfTheirIdentity == Spec => []PageOfItsIdentity
<1>1. ServiceInv => PageOfItsIdentity
  BY DEF ServiceInv, PageInv, GoodQuery, Scored, PageOfItsIdentity
<1>2. QED
  BY <1>1, Invariance, PTL

\* A revision is repeated or undercut only after MAX_CONTEXT_BINDINGS other sources
\* pushed its source out of _latest_source_revisions.
THEOREM RevisionsOnlyGrow == Spec => []RevisionsGrow
<1>1. ServiceInv => RevisionsGrow
  BY DEF ServiceInv, RevisionInv
<1>2. QED
  BY <1>1, Invariance, PTL
=============================================================================
