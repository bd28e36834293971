---------------------------- MODULE ContextService ----------------------------
(***************************************************************************)
(* The query side of the model service (pipe_server.py, production_pipe.py *)
(* and BilingualImeEngine.query_candidate_page): pipe threads that handle  *)
(* context updates and focus changes under _context_forward_lock, and pipe *)
(* threads that answer queries without it, in between.                     *)
(*                                                                         *)
(* An editor text is represented by the source identity that submitted it, *)
(* so candidates are described by the identity whose text they were scored *)
(* with, or Baseline.  The engine is SnapshotCoordinator seen from here:   *)
(* an epoch per request, publication later, a bounded number of retained   *)
(* states.  Receipts and readiness belong to ContextUpdateBridge.          *)
(***************************************************************************)
EXTENDS Naturals, Sequences, FiniteSets

CONSTANTS
    Sources,            \* context_session capabilities
    Queries,            \* pipe threads that serve queries
    MaxRevision,        \* bound on source_revision
    MaxClientEpoch,     \* bound on context_epoch of updates without an identity
    MaxBindings,        \* MAX_CONTEXT_BINDINGS
    RetainedStates,     \* retained_states of the coordinator
    MaxEpoch,           \* bound on engine epochs
    MaxSets,            \* bound on candidate sets
    Baseline, None

ASSUME ServiceAssumption ==
    /\ MaxBindings \in Nat \ {0} /\ RetainedStates \in Nat \ {0}
    /\ MaxEpoch \in Nat /\ MaxRevision \in Nat /\ MaxClientEpoch \in Nat /\ MaxSets \in Nat
    /\ None \notin Sources /\ Baseline \notin Sources /\ Baseline # None

VARIABLES
    forward,            \* the section that holds _context_forward_lock
    leaving,            \* a focus handler has released the lock and not yet invalidated
    bindings,           \* _context_bindings, oldest first
    revisions,          \* _latest_source_revisions, oldest first
    clientEpoch,        \* _latest_client_context_epoch
    requested,          \* _requested_context_epoch
    texts,              \* what each engine epoch was requested with
    states,             \* epochs whose snapshot is retained
    sets,               \* live candidate sets
    setCount,           \* candidate_set_ids given out so far
    query               \* what each query thread has done so far

serviceVars == <<forward, leaving, bindings, revisions, clientEpoch, requested>>
engineVars  == <<texts, states>>
pageVars    == <<sets, setCount>>
vars == <<serviceVars, engineVars, pageVars, query>>

\* ContextBinding.  NoBinding is an update without an identity.
Identity  == [source : Sources, revision : 1 .. MaxRevision]
NoBinding == [source |-> None, revision |-> 0]
Hidden    == [source |-> Baseline, revision |-> 0]    \* the epoch an invalidation takes

Idle == [op |-> "unlocked", id |-> NoBinding, failed |-> FALSE]
NoQuery == [pc |-> "idle", epoch |-> 0, id |-> NoBinding, page |-> 0, set |-> 0,
            text |-> Hidden, crossed |-> FALSE]   \* crossed: history, see SecureClears

Init ==
    /\ forward = Idle /\ leaving = FALSE
    /\ bindings = <<>> /\ revisions = <<>> /\ clientEpoch = 0 /\ requested = 0
    /\ texts = <<>> /\ states = {}
    /\ sets = {} /\ setCount = 0
    /\ query = [q \in Queries |-> NoQuery]

-----------------------------------------------------------------------------
(* The engine: coordinator epochs and states *)

Newest(S) == CHOOSE x \in S : \A y \in S : y <= x
ContextEpoch == IF states = {} THEN 0 ELSE Newest(states)
Retain(S) == {x \in S : Cardinality({y \in S : y > x}) < RetainedStates}

\* The newest requested epoch is forwarded and published; older ones never.
Publish ==
    LET e == Len(texts)
    IN  /\ e > 0 /\ texts[e] # Hidden /\ e \notin states
        /\ states' = Retain(states \cup {e})
        /\ UNCHANGED <<serviceVars, texts, pageVars, query>>

-----------------------------------------------------------------------------
(* Context updates *)

\* OrderedDict assignment, move_to_end and popitem(last=False).  I holds the
\* position of the entry with the same key, if there is one.
RemoveAt(s, i) == [k \in 1 .. Len(s) - 1 |-> s[IF k < i THEN k ELSE k + 1]]
Without(s, I) == IF I = {} THEN s ELSE RemoveAt(s, CHOOSE i \in I : TRUE)
Bounded(s) == IF Len(s) > MaxBindings THEN Tail(s) ELSE s
Remember(s, I, entry) == Bounded(Append(Without(s, I), entry))

\* The keys are sources in _latest_source_revisions, epochs in _context_bindings.
OfSource(source) == {i \in DOMAIN revisions : revisions[i].source = source}
OfEpoch(epoch) == {i \in DOMAIN bindings : bindings[i].epoch = epoch}

RevisionOf(source) ==
    IF OfSource(source) = {} THEN 0
    ELSE revisions[CHOOSE i \in OfSource(source) : TRUE].revision

\* Mutant: an update with the revision already known is taken again.
MutantStaleStrict(id, epoch) ==
    IF id = NoBinding THEN epoch <= clientEpoch ELSE id.revision < RevisionOf(id.source)

\* _is_stale_context_update.
IsStale(id, epoch) ==
    IF id = NoBinding THEN epoch <= clientEpoch ELSE id.revision <= RevisionOf(id.source)

\* _handle_context_update up to the engine's answer: the request has its epoch
\* and may be published before the binding is remembered.  A stale update is
\* answered without a state change.
UpdateContext(id, epoch) ==
    /\ forward = Idle /\ Len(texts) < MaxEpoch
    /\ ~IsStale(id, epoch)
    /\ texts' = Append(texts, id)
    /\ forward' = [Idle EXCEPT !.op = "bind", !.id = id]
    /\ clientEpoch' = IF id = NoBinding THEN epoch ELSE clientEpoch
    /\ revisions' = IF id = NoBinding THEN revisions
                    ELSE Remember(revisions, OfSource(id.source), id)
    /\ UNCHANGED <<leaving, bindings, requested, states, pageVars, query>>

\* Mutant: the binding is put on the epoch that is ready, not the assigned one.
MutantBindReadyEpoch ==
    /\ forward.op = "bind"
    /\ requested' = Len(texts)
    /\ bindings' = IF forward.id = NoBinding \/ ContextEpoch = 0 THEN bindings
                   ELSE Remember(bindings, OfEpoch(ContextEpoch),
                                 [epoch |-> ContextEpoch, id |-> forward.id])
    /\ forward' = Idle
    /\ UNCHANGED <<leaving, revisions, clientEpoch, engineVars, pageVars, query>>

\* ... and its rest: _requested_context_epoch and _remember_binding.
BindEpoch ==
    LET e == Len(texts)
    IN  /\ forward.op = "bind"
        /\ requested' = e
        /\ bindings' = IF forward.id = NoBinding THEN bindings
                       ELSE Remember(bindings, OfEpoch(e), [epoch |-> e, id |-> forward.id])
        /\ forward' = Idle
        /\ UNCHANGED <<leaving, revisions, clientEpoch, engineVars, pageVars, query>>

-----------------------------------------------------------------------------
(* Focus, commit and reset *)

\* _handle_focus(secure), first step: the bindings go, under the lock.  Every
\* query that is still being answered has crossed the boundary.
SecureClears ==
    /\ forward = Idle /\ ~leaving /\ Len(texts) < MaxEpoch
    /\ forward' = [Idle EXCEPT !.op = "sessions"]
    /\ bindings' = <<>>
    /\ query' = [q \in Queries |->
                    IF query[q].pc \in {"idle", "replied", "answered"} THEN query[q]
                    ELSE [query[q] EXCEPT !.crossed = TRUE]]
    /\ UNCHANGED <<leaving, revisions, clientEpoch, requested, engineVars, pageVars>>

\* reset_private_context: the candidate sessions first, ...
SecureClearsSessions ==
    /\ forward.op = "sessions"
    /\ forward' = [forward EXCEPT !.op = "states"]
    /\ sets' = {}
    /\ UNCHANGED <<leaving, bindings, revisions, clientEpoch, requested, engineVars,
                   setCount, query>>

\* ... then the coordinator's states.  A physical wipe that fails leaves them
\* hidden all the same.
SecureHidesStates(failed) ==
    /\ forward.op = "states"
    /\ forward' = [forward EXCEPT !.op = "history", !.failed = failed]
    /\ texts' = Append(texts, Hidden)
    /\ states' = {}
    /\ UNCHANGED <<leaving, bindings, revisions, clientEpoch, requested, pageVars, query>>

\* clear_history, and the end of the section: the production server goes on
\* only after a cleanup that did not fail.
SecureClearsHistory ==
    /\ forward.op = "history"
    /\ forward' = Idle
    /\ leaving' = ~forward.failed
    /\ sets' = {}
    /\ UNCHANGED <<bindings, revisions, clientEpoch, requested, engineVars, setCount, query>>

\* ProductionNamedPipeServer._handle_focus after the lock is released.
InvalidateSessions ==
    /\ leaving
    /\ leaving' = FALSE
    /\ sets' = {}
    /\ UNCHANGED <<forward, bindings, revisions, clientEpoch, requested, engineVars,
                   setCount, query>>

\* A focus change that is not secure, and a commit, clear the sessions only.
FocusOrCommit ==
    /\ sets # {} /\ sets' = {}
    /\ UNCHANGED <<serviceVars, engineVars, setCount, query>>

\* _handle_reset; BilingualImeEngine has no reset method.
Reset ==
    /\ forward = Idle
    /\ requested' = ContextEpoch
    /\ UNCHANGED <<forward, leaving, bindings, revisions, clientEpoch, engineVars,
                   pageVars, query>>

-----------------------------------------------------------------------------
(* Queries *)

\* _binding_error finds the binding of the requested epoch.
Bound(epoch, id) == \E i \in DOMAIN bindings : bindings[i] = [epoch |-> epoch, id |-> id]

Move(q, entry) == query' = [query EXCEPT ![q] = entry]
Fail(q) == Move(q, NoQuery)

\* _handle_candidate_page_request up to the call of the engine.  Epoch 0 names
\* the baseline and no identity; a later page names its set.  What
\* _binding_error refuses is answered without a state change.
BeginPage(q, epoch, id, page, set) ==
    /\ query[q].pc \in {"idle", "replied", "answered"}
    /\ epoch = 0 <=> id = NoBinding
    /\ page = 0 <=> set = 0
    /\ epoch > 0 => Bound(epoch, id)
    /\ Move(q, [NoQuery EXCEPT !.pc = "capture", !.epoch = epoch, !.id = id,
                               !.page = page, !.set = set])
    /\ UNCHANGED <<serviceVars, engineVars, pageVars>>

\* query_candidate_page: state_for_epoch, before the page manager is entered.
CaptureState(q) ==
    LET e == query[q].epoch
    IN  /\ query[q].pc = "capture"
        /\ Move(q, [query[q] EXCEPT !.pc = "page",
                       !.text = IF e \in states THEN texts[e] ELSE Hidden])
        /\ UNCHANGED <<serviceVars, engineVars, pageVars>>

SetOf(q) == {s \in sets : s.epoch = query[q].epoch /\ s.id = query[q].id}

\* The live session a request may use: of its own identity, and for a later
\* page the one it names.
SessionFor(q) ==
    IF query[q].page = 0 THEN SetOf(q) ELSE {s \in SetOf(q) : s.sid = query[q].set}

\* query_page: page 0 takes the live set of its identity or makes one with the
\* captured state; a later page needs its set (CandidatePageError otherwise).
QueryPage(q) ==
    /\ query[q].pc = "page"
    /\ \/ \E s \in SessionFor(q) :
            /\ Move(q, [query[q] EXCEPT !.pc = "recheck", !.text = s.text])
            /\ UNCHANGED pageVars
       \/ /\ SessionFor(q) = {} /\ query[q].page = 0 /\ setCount < MaxSets
          /\ setCount' = setCount + 1
          /\ sets' = sets \cup {[sid |-> setCount + 1, epoch |-> query[q].epoch,
                                 id |-> query[q].id, text |-> query[q].text]}
          /\ Move(q, [query[q] EXCEPT !.pc = "recheck"])
       \/ /\ SessionFor(q) = {} /\ query[q].page > 0
          /\ Fail(q) /\ UNCHANGED pageVars
    /\ UNCHANGED <<serviceVars, engineVars>>

\* CandidatePageTimeout.
PageTimesOut(q) ==
    /\ query[q].pc = "page"
    /\ Fail(q)
    /\ UNCHANGED <<serviceVars, engineVars, pageVars>>

\* Mutant: the page is serialised without asking for the binding again.
MutantReplyUnchecked(q) ==
    /\ query[q].pc = "recheck"
    /\ Move(q, [query[q] EXCEPT !.pc = "replied"])
    /\ UNCHANGED <<serviceVars, engineVars, pageVars>>

\* The binding is asked for again before anything is serialised.
Recheck(q) ==
    /\ query[q].pc = "recheck"
    /\ IF query[q].epoch > 0 /\ ~Bound(query[q].epoch, query[q].id)
       THEN Fail(q)
       ELSE Move(q, [query[q] EXCEPT !.pc = "replied"])
    /\ UNCHANGED <<serviceVars, engineVars, pageVars>>

\* query_pinyin and query_candidates: the identity is optional, epoch 0 means
\* the newest snapshot, and _resolve_requested_epoch turns away an epoch that is
\* not ready or has expired.
BeginQuery(q, epoch, id) ==
    /\ query[q].pc \in {"idle", "replied", "answered"}
    /\ id # NoBinding => Bound(epoch, id)
    /\ epoch <= ContextEpoch
    /\ epoch \in {0, ContextEpoch} \cup states
    /\ Move(q, [NoQuery EXCEPT !.pc = "query", !.id = id,
                               !.epoch = IF epoch = 0 THEN ContextEpoch ELSE epoch])
    /\ UNCHANGED <<serviceVars, engineVars, pageVars>>

\* BilingualImeEngine.query: the state is looked up now, and nothing is asked
\* again before the answer is serialised.
AnswerQuery(q) ==
    LET e == IF query[q].epoch = 0 THEN ContextEpoch ELSE query[q].epoch
    IN  /\ query[q].pc = "query"
        /\ Move(q, [query[q] EXCEPT !.pc = "answered",
                       !.text = IF e \in states THEN texts[e] ELSE Hidden])
        /\ UNCHANGED <<serviceVars, engineVars, pageVars>>

-----------------------------------------------------------------------------
Next ==
    \/ Publish
    \/ \E id \in Identity : UpdateContext(id, 1)
    \/ \E epoch \in 1 .. MaxClientEpoch : UpdateContext(NoBinding, epoch)
    \/ BindEpoch
    \/ SecureClears
    \/ SecureClearsSessions
    \/ \E failed \in BOOLEAN : SecureHidesStates(failed)
    \/ SecureClearsHistory
    \/ InvalidateSessions
    \/ FocusOrCommit
    \/ Reset
    \/ \E q \in Queries :
          \/ BeginPage(q, 0, NoBinding, 0, 0)
          \/ \E i \in DOMAIN bindings, set \in 0 .. setCount :
                BeginPage(q, bindings[i].epoch, bindings[i].id, IF set = 0 THEN 0 ELSE 1, set)
          \/ CaptureState(q)
          \/ QueryPage(q)
          \/ PageTimesOut(q)
          \/ Recheck(q)
          \/ \E epoch \in 0 .. Len(texts) : BeginQuery(q, epoch, NoBinding)
          \/ \E i \in DOMAIN bindings : BeginQuery(q, bindings[i].epoch, bindings[i].id)
          \/ AnswerQuery(q)

Spec == Init /\ [][Next]_vars

-----------------------------------------------------------------------------
(* Correctness *)

Text == Identity \cup {NoBinding, Hidden}
Section == [op : {"unlocked", "bind", "sessions", "states", "history"},
            id : Identity \cup {NoBinding}, failed : BOOLEAN]
Binding == [epoch : Nat \ {0}, id : Identity]
CandidateSet == [sid : Nat, epoch : Nat, id : Identity \cup {NoBinding}, text : Text]
Query == [pc : {"idle", "capture", "page", "recheck", "replied", "query", "answered"},
          epoch : Nat, id : Identity \cup {NoBinding}, page : Nat, set : Nat,
          text : Text, crossed : BOOLEAN]

\* The model states are of their types, and the bounded tables within bounds.
TypeOK ==
    /\ forward \in Section
    /\ leaving \in BOOLEAN
    /\ bindings \in Seq(Binding) /\ Len(bindings) <= MaxBindings
    /\ revisions \in Seq(Identity) /\ Len(revisions) <= MaxBindings
    /\ clientEpoch \in Nat /\ requested \in Nat
    /\ texts \in Seq(Text)
    /\ states \subseteq 1 .. Len(texts)
    /\ sets \subseteq CandidateSet /\ setCount \in Nat
    /\ query \in [Queries -> Query]

\* "Revalidate immediately before serializing any candidate derived from a
\* nonzero editor-context epoch so a stale query can never race a password/PIN
\* boundary" (production_pipe.py): a page whose answer is built has seen no
\* secure focus between its first check of the binding and its last.
PageCrossesNoBoundary ==
    \A q \in Queries : query[q].pc = "replied" /\ query[q].epoch > 0 => ~query[q].crossed

\* A page answered for an editor identity was scored with the text that very
\* identity submitted, or with the baseline: never with another source's text,
\* an older revision's, or whatever happened to be newest; and a page of epoch
\* 0 was scored with no editor text at all.
PageOfItsIdentity ==
    \A q \in Queries :
        /\ query[q].pc = "replied" => query[q].text \in {Hidden, query[q].id} \ {NoBinding}
        /\ query[q].pc = "answered" /\ query[q].id # NoBinding
             => query[q].text \in {Hidden, query[q].id}

\* A revision of a source that was taken once is taken again, or taken after a
\* newer one, only when MAX_CONTEXT_BINDINGS other sources have been taken in
\* between and pushed it out of _latest_source_revisions.
RevisionsGrow ==
    \A i, j \in DOMAIN texts :
        /\ i < j /\ texts[i].source \in Sources /\ texts[i].source = texts[j].source
        /\ texts[j].revision <= texts[i].revision
        => Cardinality({texts[k].source : k \in i .. j} \cap (Sources \ {texts[i].source}))
             >= MaxBindings
=============================================================================
