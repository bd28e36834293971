-------------------------- MODULE LlamaRuntimeProofs --------------------------
(***************************************************************************)
(* The safety of LlamaRuntime for any vocabulary, texts, batches, n_ctx    *)
(* and number of searches.                                                 *)
(*                                                                         *)
(* The argument: the slot has at most one worker, and only that worker     *)
(* holds _lock between two steps; while it does, the captured state is the *)
(* state of its own root, and its matches flag still says what the editor  *)
(* cache was when it locked, because nobody else touches the cache.        *)
(***************************************************************************)
EXTENDS LlamaRuntime, SequenceTheorems, TLAPS

\* Sequence 0 after exactly these tokens.
At(tokens) == [kv |-> tokens, n |-> Len(tokens)]

Busy(s) == worker[s].pc \notin {"none", "done"}
Locked(s) == worker[s].pc \in {"root", "branch", "between", "finally"}

\* The slot has at most one worker, which is the one to hold _lock; nothing
\* runs before the runtime serves.
Slot ==
    /\ \A s, t \in Scorers : Busy(s) /\ Busy(t) => s = t
    /\ active <=> \E s \in Scorers : Busy(s)
    /\ \A s \in Scorers : lock = s <=> Locked(s)
    /\ phase # "serving" =>
            \A s \in Scorers : attempt[s].pc = "idle" /\ worker[s].pc = "none"

\* What a search has chosen.
Asked ==
    \A s \in Scorers : attempt[s].pc = "chosen" =>
        attempt[s].root \in TokenSeq /\ attempt[s].batch \in Batches

\* Start-up.
Starting ==
    /\ phase = "baseline" => cached = NoCache
    /\ phase = "warm" => cached = [tokens |-> Baseline, logits |-> Baseline]
    /\ phase # "serving" => refresh = None /\ resetting = FALSE

\* A captured state is the state of its tokens.
BufferOfRoot == buffer.tokens # None => buffer.state = buffer.tokens

\* A worker outside its lock section has produced nothing.
Quiet(w) ==
    /\ w.outputs = <<>>
    /\ w.late = 0
    /\ w.pc = "start" => w.root \in TokenSeq /\ w.batch \in Batches

\* A worker inside it.
Holding(w) ==
    /\ w.root \in TokenSeq /\ w.batch \in Batches
    /\ w.matches => cached = [tokens |-> w.root, logits |-> w.root] /\ w.saved = w.root
    /\ w.matches /\ (w.pc = "root" \/ ~w.mutated) => seq = At(w.root)
    /\ w.pc = "branch" => seq = At(w.root)
    /\ w.pc \in {"branch", "between"} => buffer.tokens = w.root
    /\ w.pc # "finally" =>
            /\ w.mutated
            /\ \A i \in DOMAIN w.batch : Len(w.root) + Len(w.batch[i]) <= NCtx
            /\ Len(w.outputs) < Len(w.batch)
    /\ w.pc \in {"root", "branch"} => w.late = 0
    /\ w.pc = "between" /\ w.late > 0 => refresh # None
    /\ w.late <= 1
    /\ \A i \in DOMAIN w.outputs : w.outputs[i] = w.root \o w.batch[i]

Workers ==
    \A s \in Scorers : IF Locked(s) THEN Holding(worker[s]) ELSE Quiet(worker[s])

\* The inductive invariant.
RuntimeInv ==
    /\ TypeOK
    /\ Slot
    /\ Asked
    /\ Starting
    /\ BufferOfRoot
    /\ Workers
    /\ CacheDescribesSequence
    /\ NoLostWakeup

-----------------------------------------------------------------------------
(* The sequence *)

\* A replay from nothing leaves the sequence at its tokens.
LEMMA EvalReplay ==
    ASSUME NEW t \in Seq(Tokens)
    PROVE  Eval(Cleared, t) = At(t)
<1>1. SubSeq(<<>>, 1, 0) \o t = t
  OBVIOUS
<1>2. QED
  BY <1>1 DEF Eval, Cleared, At

\* A branch follows the root it is evaluated from.
LEMMA EvalBranchOf ==
    ASSUME NEW r \in Seq(Tokens), NEW p \in Seq(Tokens)
    PROVE  Eval(At(r), p) = [kv |-> r \o p, n |-> Len(r) + Len(p)]
<1>1. SubSeq(r, 1, Len(r)) = r
  OBVIOUS
<1>2. QED
  BY <1>1 DEF Eval, At

\* Appending the missing suffix is as good as a replay.
LEMMA EvalSuffix ==
    ASSUME NEW p \in Seq(Tokens), NEW t \in Seq(Tokens), StrictPrefix(p, t)
    PROVE  Eval(At(p), SubSeq(t, Len(p) + 1, Len(t))) = At(t)
<1> DEFINE u == SubSeq(t, Len(p) + 1, Len(t))
<1>1. u \in Seq(Tokens) /\ Len(u) = Len(t) - Len(p)
      /\ \A i \in 1 .. Len(u) : u[i] = t[Len(p) + i]
  BY DEF StrictPrefix
<1>2. \A i \in 1 .. Len(p) : p[i] = t[i]
  BY DEF StrictPrefix
<1> HIDE DEF u
<1>3. p \o u \in Seq(Tokens) /\ Len(p \o u) = Len(t)
      /\ \A i \in 1 .. Len(t) : (p \o u)[i] = t[i]
  BY <1>1, <1>2
<1>4. p \o u = t
  BY <1>3, SeqEqual
<1>5. Eval(At(p), u) = [kv |-> p \o u, n |-> Len(p) + Len(u)]
  BY <1>1, EvalBranchOf
<1>6. Len(p) + Len(u) = Len(t)
  BY <1>1
<1>7. Eval(At(p), u) = At(t)
  BY <1>4, <1>5, <1>6 DEF At
<1>8. QED
  BY <1>7 DEF u

\* _tokenize_context returns tokens, never none, never more than fit in n_ctx.
LEMMA TokenizeBounds ==
    ASSUME NEW r \in TokenSeq
    PROVE  r \in Seq(Tokens) /\ Len(r) \in 1 .. NCtx
<1>1. PICK t \in Texts \cup {<<>>} : r = Tokenize(t)
  BY DEF TokenSeq
<1>2. CASE t = <<>>
  <2>1. r = <<Fallback>>
    BY <1>1, <1>2 DEF Tokenize
  <2>2. QED
    BY <2>1, RuntimeAssumption
<1>3. CASE t # <<>>
  <2> DEFINE first == IF Len(t) > MaxBeforeTokens THEN Len(t) - MaxBeforeTokens + 1 ELSE 1
  <2>1. t \in Seq(Tokens) /\ Len(t) > 0
    BY <1>3, RuntimeAssumption
  <2>2. first \in 1 .. Len(t) /\ Len(t) - first + 1 \in 1 .. MaxBeforeTokens
    BY <2>1, RuntimeAssumption
  <2>3. r = SubSeq(t, first, Len(t))
    BY <1>1, <1>3 DEF Tokenize
  <2> HIDE DEF first
  <2>4. r \in Seq(Tokens) /\ Len(r) = Len(t) - first + 1
    BY <2>1, <2>2, <2>3
  <2>5. QED
    BY <2>2, <2>4, RuntimeAssumption
<1>4. QED
  BY <1>2, <1>3

\* None is not a token sequence.
LEMMA RootsAreNotNone ==
    ASSUME NEW r \in TokenSeq
    PROVE  r # None
BY TokenizeBounds, RuntimeAssumption

\* The sequence at a root is well typed, and so is the rest of the runtime.
LEMMA AtTyped ==
    ASSUME NEW r \in TokenSeq
    PROVE  /\ At(r) \in [kv : Seq(Tokens \cup {None}), n : 0 .. NCtx]
           /\ Len(At(r).kv) <= NCtx
           /\ [tokens |-> r, logits |-> r] \in CacheType
           /\ [tokens |-> r, state |-> r] \in BufferType
<1>1. r \in Seq(Tokens \cup {None}) /\ Len(r) \in 1 .. NCtx
  <2>1. r \in Seq(Tokens) /\ Len(r) \in 1 .. NCtx
    BY TokenizeBounds
  <2>2. QED
    BY <2>1
<1>2. QED
  BY <1>1, RuntimeAssumption DEF At, CacheType, BufferType

\* So are the values that stand for nothing.
LEMMA EmptyTyped ==
    /\ Cleared \in [kv : Seq(Tokens \cup {None}), n : 0 .. NCtx] /\ Len(Cleared.kv) <= NCtx
    /\ Garbled \in [kv : Seq(Tokens \cup {None}), n : 0 .. NCtx] /\ Len(Garbled.kv) <= NCtx
    /\ NoCache \in CacheType /\ NoBuffer \in BufferType
    /\ NoAttempt \in AttemptType /\ NoWorker \in WorkerType
    /\ Baseline \in TokenSeq
<1>1. <<>> \in Seq(Tokens \cup {None}) /\ <<None>> \in Seq(Tokens \cup {None})
      /\ Len(<<>>) = 0 /\ Len(<<None>>) = 1 /\ <<>> \in Seq(Seq(Tokens))
  OBVIOUS
<1>2. 0 \in 0 .. NCtx /\ 1 <= NCtx /\ 0 <= NCtx
  BY RuntimeAssumption
<1>3. /\ Cleared \in [kv : Seq(Tokens \cup {None}), n : 0 .. NCtx] /\ Len(Cleared.kv) <= NCtx
      /\ Garbled \in [kv : Seq(Tokens \cup {None}), n : 0 .. NCtx] /\ Len(Garbled.kv) <= NCtx
  BY <1>1, <1>2 DEF Cleared, Garbled
<1>4. NoCache \in CacheType /\ NoBuffer \in BufferType
  BY DEF NoCache, NoBuffer, CacheType, BufferType
<1>5. NoAttempt \in AttemptType
  BY DEF NoAttempt, AttemptType
<1>6. NoWorker \in WorkerType
  BY <1>1 DEF NoWorker, WorkerType
<1>7. Baseline \in TokenSeq
  BY DEF Baseline, TokenSeq
<1>8. QED
  BY <1>3, <1>4, <1>5, <1>6, <1>7

USE DEF runtimeVars, contextVars, slotVars, scorerVars, Busy, Locked

-----------------------------------------------------------------------------
(* Context refreshes, resets and start-up *)

\* A forward that succeeds leaves the sequence at its tokens, and says so.
LEMMA ForwardReaches ==
    ASSUME RuntimeInv, lock = None, NEW tokens \in TokenSeq, ForwardSucceeds(tokens)
    PROVE  /\ seq' = At(tokens)
           /\ cached' = [tokens |-> tokens, logits |-> tokens]
           /\ buffer' \in {buffer, NoBuffer}
<1>1. tokens # None /\ tokens \in Seq(Tokens)
  BY TokenizeBounds, RootsAreNotNone
<1>2. buffer' \in {buffer, NoBuffer}
  BY DEF ForwardSucceeds, KeepBuffer
<1>3. cached.tokens # None => /\ cached.tokens \in TokenSeq
                              /\ seq = At(cached.tokens)
                              /\ cached.logits = cached.tokens
  BY DEF RuntimeInv, TypeOK, CacheType, CacheDescribesSequence, At
<1>4. CASE tokens = cached.tokens /\ cached.logits # None
  <2>1. cached = [tokens |-> cached.tokens, logits |-> cached.logits]
    BY DEF RuntimeInv, TypeOK, CacheType
  <2>2. UNCHANGED <<seq, cached>>
    BY <1>4 DEF ForwardSucceeds
  <2>3. QED
    BY <1>1, <1>2, <1>3, <1>4, <2>1, <2>2
<1>5. CASE ~(tokens = cached.tokens /\ cached.logits # None)
  <2>1. /\ seq' = Eval(Start(tokens), Suffix(tokens))
        /\ cached' = [tokens |-> tokens, logits |-> seq'.kv]
    BY <1>5 DEF ForwardSucceeds
  <2>2. seq' = At(tokens)
    <3>1. CASE CanAppend(tokens)
      <4>1. cached.tokens \in Seq(Tokens)
        BY <1>3, <3>1, TokenizeBounds DEF CanAppend
      <4>2. QED
        BY <1>1, <1>3, <2>1, <3>1, <4>1, EvalSuffix DEF CanAppend, Start, Suffix
    <3>2. CASE ~CanAppend(tokens)
      BY <1>1, <2>1, <3>2, EvalReplay DEF Start, Suffix
    <3>3. QED
      BY <3>1, <3>2
  <2>3. QED
    BY <1>2, <2>1, <2>2 DEF At
<1>6. QED
  BY <1>4, <1>5

\* While nobody holds _lock, the runtime may be put into any state in which a
\* remembered cache describes the sequence.
LEMMA RuntimeStep ==
    ASSUME RuntimeInv, TypeOK', lock = None, CacheDescribesSequence', BufferOfRoot', Starting',
           phase = "serving" => phase' = "serving",
           UNCHANGED <<lock, slotVars, scorerVars, worker>>
    PROVE  RuntimeInv'
<1>1. \A s \in Scorers : ~Locked(s)
  BY RuntimeAssumption DEF RuntimeInv, Slot
<1>2. Slot'
  BY DEF RuntimeInv, Slot
<1>3. Workers'
  BY <1>1 DEF RuntimeInv, Workers, Quiet
<1>4. Asked' /\ NoLostWakeup'
  BY DEF RuntimeInv, Asked, NoLostWakeup
<1>5. QED
  BY <1>2, <1>3, <1>4 DEF RuntimeInv


\* The smoke forward leaves nothing cached.
LEMMA SmokePreserves ==
    ASSUME RuntimeInv, SmokeForward
    PROVE  RuntimeInv'
<1>1. lock = None /\ phase = "smoke"
      /\ seq' = Cleared /\ cached' = NoCache /\ phase' = "baseline"
      /\ UNCHANGED <<lock, buffer, contextVars, slotVars, scorerVars, worker>>
  BY DEF SmokeForward, RuntimeInv, TypeOK, Slot
<1>2. TypeOK'
  BY <1>1, EmptyTyped DEF RuntimeInv, TypeOK
<1>3. CacheDescribesSequence' /\ BufferOfRoot' /\ Starting'
  BY <1>1 DEF RuntimeInv, CacheDescribesSequence, BufferOfRoot, Starting, NoCache
<1>4. QED
  BY <1>1, <1>2, <1>3, RuntimeStep DEF SmokeForward

\* The empty baseline is what is cached when the warm-up starts.
LEMMA BaselinePreserves ==
    ASSUME RuntimeInv, InstallBaseline
    PROVE  RuntimeInv'
<1>1. lock = None
  BY DEF InstallBaseline, RuntimeInv, TypeOK, Slot
<1>2. Baseline \in TokenSeq
  BY EmptyTyped
<1>3. /\ seq' = At(Baseline)
      /\ cached' = [tokens |-> Baseline, logits |-> Baseline]
      /\ buffer' \in {buffer, NoBuffer}
  BY <1>1, <1>2, ForwardReaches DEF InstallBaseline
<1>4. TypeOK'
  BY <1>2, <1>3, AtTyped, EmptyTyped DEF InstallBaseline, RuntimeInv, TypeOK
<1>5. CacheDescribesSequence' /\ BufferOfRoot' /\ Starting'
  BY <1>3 DEF InstallBaseline, RuntimeInv, CacheDescribesSequence, BufferOfRoot, Starting,
     NoBuffer, At
<1>6. QED
  BY <1>1, <1>4, <1>5, RuntimeStep DEF InstallBaseline

\* The captured state of a root is its tokens.
LEMMA CapturedIsRoot ==
    ASSUME RuntimeInv, NEW root \in TokenSeq
    PROVE  Captured(root) = [tokens |-> root, state |-> root]
<1>1. root \in Seq(Tokens) /\ root # None
  BY TokenizeBounds, RootsAreNotNone
<1>2. CASE buffer.tokens = root
  <2>1. buffer = [tokens |-> buffer.tokens, state |-> buffer.state]
    BY DEF RuntimeInv, TypeOK, BufferType
  <2>2. QED
    BY <1>1, <1>2, <2>1 DEF Captured, RuntimeInv, BufferOfRoot
<1>3. CASE buffer.tokens # root
  BY <1>1, <1>3, EvalReplay DEF Captured, AtRoot, At
<1>4. QED
  BY <1>2, <1>3

\* The warm-up ends with the sequence back at the baseline.
LEMMA WarmPreserves ==
    ASSUME RuntimeInv, WarmContinuation
    PROVE  RuntimeInv'
<1>1. lock = None /\ cached = [tokens |-> Baseline, logits |-> Baseline]
  BY DEF WarmContinuation, RuntimeInv, TypeOK, Slot, Starting
<1>2. Baseline \in TokenSeq
  BY EmptyTyped
<1>3. buffer' = [tokens |-> Baseline, state |-> Baseline] /\ seq' = At(Baseline)
  <2>1. buffer' = [tokens |-> Baseline, state |-> Baseline]
    BY <1>2, CapturedIsRoot DEF WarmContinuation
  <2>2. seq' = [[kv |-> <<>>, n |-> 0] EXCEPT !.kv = Baseline, !.n = Len(Baseline)]
    BY <2>1 DEF WarmContinuation, SeqSetData, Cleared
  <2>3. QED
    BY <2>1, <2>2 DEF At
<1>4. TypeOK'
  BY <1>2, <1>3, AtTyped DEF WarmContinuation, RuntimeInv, TypeOK
<1>5. CacheDescribesSequence' /\ BufferOfRoot' /\ Starting'
  <2>1. cached' = cached /\ phase' = "serving"
    BY DEF WarmContinuation
  <2>2. QED
    BY <1>1, <1>3, <2>1 DEF CacheDescribesSequence, BufferOfRoot, Starting, At
<1>6. QED
  BY <1>1, <1>4, <1>5, RuntimeStep DEF WarmContinuation

\* A refresh, successful or not, leaves a cache that describes the sequence.
LEMMA RefreshPreserves ==
    ASSUME RuntimeInv, Refresh
    PROVE  RuntimeInv'
<1> DEFINE tokens == Tokenize(refresh)
<1>1. tokens \in TokenSeq /\ lock = None
  BY DEF Refresh, RuntimeInv, TypeOK, TokenSeq
<1>2. phase = "serving" /\ Starting'
  BY DEF Refresh, RuntimeInv, Starting
<1>3. CASE ForwardSucceeds(tokens) /\ sessions' \subseteq sessions \cup {tokens}
  <2>1. /\ seq' = At(tokens)
        /\ cached' = [tokens |-> tokens, logits |-> tokens]
        /\ buffer' \in {buffer, NoBuffer}
    BY <1>1, <1>3, ForwardReaches
  <2> HIDE DEF tokens
  <2>2. sessions' \subseteq TokenSeq
    BY <1>1, <1>3 DEF RuntimeInv, TypeOK
  <2>3. TypeOK'
    BY <1>1, <2>1, <2>2, AtTyped, EmptyTyped DEF Refresh, RuntimeInv, TypeOK
  <2>4. CacheDescribesSequence' /\ BufferOfRoot'
    BY <2>1 DEF RuntimeInv, CacheDescribesSequence, BufferOfRoot, NoBuffer, At
  <2>5. QED
    BY <1>1, <1>2, <2>3, <2>4, RuntimeStep DEF Refresh
<1>4. CASE ForwardFails(tokens) /\ UNCHANGED sessions
  <2>1. seq' = Cleared /\ cached' = NoCache /\ buffer' \in {buffer, NoBuffer}
    BY <1>4 DEF ForwardFails, KeepBuffer
  <2>2. TypeOK'
    BY <1>4, <2>1, EmptyTyped DEF Refresh, RuntimeInv, TypeOK
  <2>3. CacheDescribesSequence' /\ BufferOfRoot'
    BY <2>1 DEF RuntimeInv, CacheDescribesSequence, BufferOfRoot, NoBuffer, NoCache
  <2>4. QED
    BY <1>1, <1>2, <2>2, <2>3, RuntimeStep DEF Refresh
<1>5. QED
  BY <1>3, <1>4 DEF Refresh

\* Registering a refresh leaves the runtime alone.
LEMMA RequestPreserves ==
    ASSUME RuntimeInv, NEW text \in Texts, RequestRefresh(text)
    PROVE  RuntimeInv'
<1>1. text # None
  BY RuntimeAssumption
<1>2. TypeOK'
  BY DEF RequestRefresh, RuntimeInv, TypeOK
<1>3. Workers'
  BY <1>1 DEF RequestRefresh, RuntimeInv, Workers, Holding, Quiet
<1>4. Slot' /\ Asked' /\ Starting' /\ BufferOfRoot' /\ CacheDescribesSequence' /\ NoLostWakeup'
  BY DEF RequestRefresh, RuntimeInv, Slot, Asked, Starting, BufferOfRoot,
     CacheDescribesSequence, NoLostWakeup
<1>5. QED
  BY <1>2, <1>3, <1>4 DEF RuntimeInv

\* Clearing the sessions leaves the baseline as the only root.
LEMMA ClearPreserves ==
    ASSUME RuntimeInv, ClearSessions
    PROVE  RuntimeInv'
<1>1. TypeOK'
  <2>1. sessions' \subseteq TokenSeq /\ resetting' \in BOOLEAN
    BY EmptyTyped DEF ClearSessions
  <2>2. UNCHANGED <<phase, lock, runtimeVars, refresh, slotVars, scorerVars, worker>>
    BY DEF ClearSessions
  <2>3. QED
    BY <2>1, <2>2 DEF RuntimeInv, TypeOK
<1>2. Workers'
  BY DEF ClearSessions, RuntimeInv, Workers, Holding, Quiet
<1>3. Slot' /\ Asked' /\ Starting' /\ BufferOfRoot' /\ CacheDescribesSequence' /\ NoLostWakeup'
  BY DEF ClearSessions, RuntimeInv, Slot, Asked, Starting, BufferOfRoot,
     CacheDescribesSequence, NoLostWakeup
<1>4. QED
  BY <1>1, <1>2, <1>3 DEF RuntimeInv

\* The wipe leaves nothing cached.
LEMMA WipePreserves ==
    ASSUME RuntimeInv, Wipe
    PROVE  RuntimeInv'
<1>1. /\ lock = None /\ cached' = NoCache /\ buffer' = NoBuffer /\ seq' = Cleared
      /\ resetting' = FALSE
      /\ UNCHANGED <<phase, lock, refresh, sessions, slotVars, scorerVars, worker>>
  BY DEF Wipe
<1>2. TypeOK'
  BY <1>1, EmptyTyped DEF RuntimeInv, TypeOK
<1>3. CacheDescribesSequence' /\ BufferOfRoot' /\ Starting'
  <2>1. phase = "serving"
    BY DEF Wipe, RuntimeInv, Starting
  <2>2. QED
    BY <1>1, <2>1 DEF CacheDescribesSequence, BufferOfRoot, Starting, NoCache, NoBuffer
<1>4. QED
  BY <1>1, <1>2, <1>3, RuntimeStep

\* Neither does a continuation from BOS.
LEMMA EmptyPreserves ==
    ASSUME RuntimeInv, ContinueFromEmpty
    PROVE  RuntimeInv'
<1>1. /\ lock = None /\ cached' = NoCache /\ seq' = Cleared /\ phase = "serving"
      /\ UNCHANGED <<phase, lock, buffer, contextVars, slotVars, scorerVars, worker>>
  BY DEF ContinueFromEmpty
<1>2. TypeOK'
  BY <1>1, EmptyTyped DEF RuntimeInv, TypeOK
<1>3. CacheDescribesSequence' /\ BufferOfRoot' /\ Starting'
  BY <1>1 DEF RuntimeInv, CacheDescribesSequence, BufferOfRoot, Starting, NoCache
<1>4. QED
  BY <1>1, <1>2, <1>3, RuntimeStep

-----------------------------------------------------------------------------
(* The worker *)

\* A step of the slot's one worker: the others are outside their sections, and
\* it keeps the slot.
LEMMA SectionStep ==
    ASSUME RuntimeInv, TypeOK', BufferOfRoot', CacheDescribesSequence', NEW s \in Scorers,
           Busy(s), Busy(s)',
           \A t \in Scorers \ {s} : worker'[t] = worker[t],
           lock \in {None, s},
           IF Locked(s)' THEN lock' = s /\ Holding(worker[s])'
                         ELSE lock' = None /\ Quiet(worker[s])',
           UNCHANGED <<phase, contextVars, slotVars, scorerVars>>
    PROVE  RuntimeInv'
<1>1. \A t \in Scorers \ {s} : ~Busy(t) /\ ~Busy(t)' /\ ~Locked(t)'
  BY DEF RuntimeInv, Slot
<1>2. phase = "serving"
  BY DEF RuntimeInv, Slot
<1>3. \A t \in Scorers : t # None
  BY RuntimeAssumption
<1>4. Slot'
  <2>1. \A t, u \in Scorers : Busy(t)' /\ Busy(u)' => t = u
    BY <1>1
  <2>2. active' <=> \E t \in Scorers : Busy(t)'
    BY DEF RuntimeInv, Slot
  <2>3. \A t \in Scorers : lock' = t <=> Locked(t)'
    BY <1>1, <1>3
  <2>4. QED
    BY <1>2, <2>1, <2>2, <2>3 DEF Slot
<1>5. Workers'
  <2>1. \A t \in Scorers \ {s} : Quiet(worker[t])
    BY <1>1 DEF RuntimeInv, Workers
  <2>2. \A t \in Scorers \ {s} : Quiet(worker[t])'
    BY <2>1 DEF Quiet
  <2>3. QED
    BY <1>1, <2>2 DEF Workers
<1>6. NoLostWakeup'
  <2>1. Busy(s)'
    OBVIOUS
  <2>2. QED
    BY <2>1 DEF RuntimeInv, NoLostWakeup
<1>7. Asked' /\ Starting'
  BY <1>2 DEF RuntimeInv, Asked, Starting
<1>8. QED
  BY <1>4, <1>5, <1>6, <1>7 DEF RuntimeInv

\* A worker out of time ends without having touched the runtime.
LEMMA GivesUpPreserves ==
    ASSUME RuntimeInv, NEW s \in Scorers, WorkerGivesUp(s)
    PROVE  RuntimeInv'
<1> DEFINE w == [NoWorker EXCEPT !.pc = "finish"]
<1>1. w \in WorkerType /\ w.pc = "finish" /\ Quiet(w)
  BY EmptyTyped DEF WorkerType, NoWorker, Quiet
<1>2. /\ worker' = [worker EXCEPT ![s] = w] /\ worker[s].pc = "start"
      /\ UNCHANGED <<phase, lock, runtimeVars, contextVars, slotVars, scorerVars>>
  BY DEF WorkerGivesUp
<1> HIDE DEF w
<1>3. worker'[s] = w /\ \A t \in Scorers \ {s} : worker'[t] = worker[t]
  BY <1>2 DEF RuntimeInv, TypeOK
<1>4. TypeOK'
  BY <1>1, <1>2 DEF RuntimeInv, TypeOK
<1>5. BufferOfRoot' /\ CacheDescribesSequence'
  BY <1>2 DEF RuntimeInv, BufferOfRoot, CacheDescribesSequence
<1>6. lock = None
  BY <1>2, RuntimeAssumption DEF RuntimeInv, TypeOK, Slot
<1>7. Quiet(worker[s])'
  BY <1>1, <1>3 DEF Quiet
<1>8. QED
  BY <1>1, <1>2, <1>3, <1>4, <1>5, <1>6, <1>7, SectionStep

\* The worker notes whether the editor cache is at its root.
LEMMA LocksPreserves ==
    ASSUME RuntimeInv, NEW s \in Scorers, WorkerLocks(s)
    PROVE  RuntimeInv'
<1> DEFINE w == worker[s]
           fits == \A i \in DOMAIN w.batch : Len(w.root) + Len(w.batch[i]) <= NCtx
           matches == cached.tokens = w.root /\ cached.logits # None
           next == [w EXCEPT !.pc = IF fits THEN "root" ELSE "finally",
                             !.matches = matches, !.mutated = fits,
                             !.saved = IF matches THEN cached.logits ELSE None]
<1>1. /\ worker' = [worker EXCEPT ![s] = next] /\ w.pc = "start"
      /\ lock = None /\ lock' = s
      /\ UNCHANGED <<phase, runtimeVars, contextVars, slotVars, scorerVars>>
  BY DEF WorkerLocks
<1>2. w \in WorkerType /\ w.root \in TokenSeq /\ w.batch \in Batches
      /\ w.outputs = <<>> /\ w.late = 0
  BY <1>1 DEF RuntimeInv, TypeOK, Workers, Quiet
<1>3. /\ next.pc = IF fits THEN "root" ELSE "finally"
      /\ next.matches = matches /\ next.mutated = fits
      /\ next.saved = IF matches THEN cached.logits ELSE None
      /\ next.root = w.root /\ next.batch = w.batch
      /\ next.outputs = <<>> /\ next.late = 0
      /\ next \in WorkerType
  <2>1. matches \in BOOLEAN /\ fits \in BOOLEAN
    OBVIOUS
  <2>2. (IF matches THEN cached.logits ELSE None) \in TokenSeq \cup {None}
    BY DEF RuntimeInv, TypeOK, CacheType
  <2> HIDE DEF matches, fits
  <2>3. QED
    BY <1>2, <2>1, <2>2 DEF WorkerType
<1>4. matches => /\ cached = [tokens |-> w.root, logits |-> w.root]
                 /\ seq = At(w.root) /\ cached.logits = w.root
  <2>1. w.root # None
    BY <1>2, RootsAreNotNone
  <2>2. cached = [tokens |-> cached.tokens, logits |-> cached.logits]
    BY DEF RuntimeInv, TypeOK, CacheType
  <2>3. QED
    BY <1>1, <2>1, <2>2 DEF RuntimeInv, CacheDescribesSequence, At
<1>5. 0 < Len(w.batch) /\ Len(<<>>) = 0
  BY <1>2, RuntimeAssumption
<1>6. fits <=> \A i \in DOMAIN next.batch : Len(next.root) + Len(next.batch[i]) <= NCtx
  BY <1>3
<1> HIDE DEF fits, matches, next
<1>7. worker'[s] = next /\ \A t \in Scorers \ {s} : worker'[t] = worker[t]
  BY <1>1 DEF RuntimeInv, TypeOK
<1>8. TypeOK'
  BY <1>1, <1>3 DEF RuntimeInv, TypeOK
<1>9. BufferOfRoot' /\ CacheDescribesSequence'
  BY <1>1, RuntimeAssumption DEF RuntimeInv, BufferOfRoot, CacheDescribesSequence
<1>10. Holding(next)
  <2>1. next.matches => /\ cached = [tokens |-> next.root, logits |-> next.root]
                        /\ next.saved = next.root /\ seq = At(next.root)
    BY <1>3, <1>4
  <2>2. next.pc # "finally" => fits
    BY <1>3
  <2>3. next.pc \in {"root", "finally"}
    BY <1>3
  <2>4. \A i \in DOMAIN next.outputs : next.outputs[i] = next.root \o next.batch[i]
    BY <1>3
  <2>5. next.late <= 1 /\ ~(next.late > 0) /\ Len(next.outputs) < Len(next.batch)
    BY <1>3, <1>5
  <2>6. fits => next.mutated
    BY <1>3
  <2>7. QED
    BY <1>2, <1>3, <1>6, <2>1, <2>2, <2>3, <2>4, <2>5, <2>6 DEF Holding
<1>11. Holding(worker[s])'
  BY <1>1, <1>7, <1>10 DEF Holding
<1>12. Locked(s)'
  BY <1>3, <1>7
<1>13. QED
  BY <1>1, <1>7, <1>8, <1>9, <1>11, <1>12, SectionStep

\* A new pc for one worker changes nothing else of it.
LEMMA GotoStep ==
    ASSUME TypeOK, NEW s \in Scorers, NEW pc, Goto(s, pc),
           pc \in {"none", "branch", "finally", "done"}
    PROVE  /\ worker' \in [Scorers -> WorkerType]
           /\ \A t \in Scorers \ {s} : worker'[t] = worker[t]
           /\ worker'[s].pc = pc
           /\ worker'[s].root = worker[s].root /\ worker'[s].batch = worker[s].batch
           /\ worker'[s].matches = worker[s].matches
           /\ worker'[s].mutated = worker[s].mutated
           /\ worker'[s].saved = worker[s].saved
           /\ worker'[s].outputs = worker[s].outputs /\ worker'[s].late = worker[s].late
BY DEF TypeOK, Goto, WorkerType

\* A worker that leaves its batch early goes to the finally block.
LEMMA EarlyExitPreserves ==
    ASSUME RuntimeInv, NEW s \in Scorers, worker[s].pc \in {"root", "branch", "between"},
           seq' \in {seq, Garbled}, Goto(s, "finally"),
           UNCHANGED <<phase, lock, cached, buffer, contextVars, slotVars, scorerVars>>
    PROVE  RuntimeInv'
<1> DEFINE w == worker[s]
<1>1. Holding(w) /\ lock = s
  BY DEF RuntimeInv, Workers, Slot
<1>2. /\ worker' \in [Scorers -> WorkerType]
      /\ \A t \in Scorers \ {s} : worker'[t] = worker[t]
      /\ worker'[s].pc = "finally"
      /\ worker'[s].root = w.root /\ worker'[s].batch = w.batch
      /\ worker'[s].matches = w.matches /\ worker'[s].mutated = w.mutated
      /\ worker'[s].saved = w.saved
      /\ worker'[s].outputs = w.outputs /\ worker'[s].late = w.late
  BY GotoStep DEF RuntimeInv
<1>3. TypeOK' /\ BufferOfRoot'
  BY <1>2, EmptyTyped DEF RuntimeInv, TypeOK, BufferOfRoot
<1>4. CacheDescribesSequence'
  BY <1>1, RuntimeAssumption DEF CacheDescribesSequence
<1>5. Holding(worker[s])'
  BY <1>1, <1>2 DEF Holding
<1>6. QED
  BY <1>1, <1>2, <1>3, <1>4, <1>5, SectionStep

\* Bringing the sequence to the root leaves it at the root, captured.
LEMMA PreparePreserves ==
    ASSUME RuntimeInv, NEW s \in Scorers, PrepareRoot(s)
    PROVE  RuntimeInv'
<1> DEFINE w == worker[s]
<1>1. w.pc = "root" /\ lock = s
      /\ UNCHANGED <<phase, lock, cached, contextVars, slotVars, scorerVars>>
  BY DEF PrepareRoot, RuntimeInv, Slot
<1>2. Holding(w)
  BY <1>1 DEF RuntimeInv, Workers
<1>3. w.root \in TokenSeq
  BY <1>2 DEF Holding
<1>4. CacheDescribesSequence'
  BY <1>1, RuntimeAssumption DEF CacheDescribesSequence
<1>5. CASE seq' = AtRoot(w.root, w.matches) /\ buffer' = Captured(w.root) /\ Goto(s, "branch")
  <2>1. buffer' = [tokens |-> w.root, state |-> w.root]
    BY <1>3, <1>5, CapturedIsRoot
  <2>2. seq' = At(w.root)
    <3>1. CASE buffer.tokens # w.root
      BY <1>3, <1>5, <3>1, EvalReplay, TokenizeBounds DEF AtRoot
    <3>2. CASE buffer.tokens = w.root /\ w.matches /\ seq.n = Len(w.root)
      BY <1>1, <1>2, <1>5, <3>2 DEF AtRoot, Holding
    <3>3. CASE buffer.tokens = w.root /\ ~(w.matches /\ seq.n = Len(w.root))
      <4>1. buffer.state = w.root
        BY <1>3, <3>3, RootsAreNotNone DEF RuntimeInv, BufferOfRoot
      <4>2. seq' = [[[kv |-> <<>>, n |-> 0] EXCEPT !.kv = w.root] EXCEPT !.n = Len(w.root)]
        BY <1>5, <3>3, <4>1 DEF AtRoot, SeqSetData, Cleared
      <4>3. QED
        BY <4>2 DEF At
    <3>4. QED
      BY <3>1, <3>2, <3>3
  <2>3. /\ worker' \in [Scorers -> WorkerType]
        /\ \A t \in Scorers \ {s} : worker'[t] = worker[t]
        /\ worker'[s].pc = "branch"
        /\ worker'[s].root = w.root /\ worker'[s].batch = w.batch
        /\ worker'[s].matches = w.matches /\ worker'[s].mutated = w.mutated
        /\ worker'[s].saved = w.saved
        /\ worker'[s].outputs = w.outputs /\ worker'[s].late = w.late
    BY <1>5, GotoStep DEF RuntimeInv
  <2>4. TypeOK' /\ BufferOfRoot'
    BY <1>1, <1>3, <2>1, <2>2, <2>3, AtTyped DEF RuntimeInv, TypeOK, BufferOfRoot
  <2>5. Holding(worker[s])'
    BY <1>1, <1>2, <2>1, <2>2, <2>3 DEF Holding
  <2>6. QED
    BY <1>1, <1>4, <2>3, <2>4, <2>5, SectionStep
<1>6. CASE seq' = Garbled /\ UNCHANGED buffer /\ Goto(s, "finally")
  BY <1>1, <1>6, EarlyExitPreserves
<1>7. QED
  BY <1>5, <1>6 DEF PrepareRoot

\* A branch is evaluated right after the root, and fits in n_ctx.
LEMMA BranchPreserves ==
    ASSUME RuntimeInv, NEW s \in Scorers, EvalBranch(s)
    PROVE  RuntimeInv'
<1> DEFINE w == worker[s]
           path == w.batch[Len(w.outputs) + 1]
           done == Append(w.outputs, Eval(seq, path).kv)
           last == Len(done) = Len(w.batch)
           late == IF refresh # None THEN w.late + 1 ELSE 0
           next == [w EXCEPT !.outputs = done, !.pc = IF last THEN "finally" ELSE "between",
                             !.late = late]
<1>1. w.pc = "branch"
      /\ UNCHANGED <<phase, lock, cached, buffer, contextVars, slotVars, scorerVars>>
  BY DEF EvalBranch
<1>2. Holding(w) /\ lock = s
  BY <1>1 DEF RuntimeInv, Workers, Slot
<1>3. CASE seq' = Eval(seq, path) /\ worker' = [worker EXCEPT ![s] = next]
  <2>1. /\ w \in WorkerType /\ w.root \in TokenSeq /\ w.batch \in Batches
        /\ seq = At(w.root) /\ w.late = 0 /\ w.mutated
        /\ buffer.tokens = w.root
    BY <1>1, <1>2 DEF Holding, RuntimeInv, TypeOK
  <2>2. w.outputs \in Seq(Seq(Tokens)) /\ w.batch \in Seq(Seq(Tokens))
        /\ Len(w.outputs) < Len(w.batch)
    BY <1>1, <1>2, <2>1, RuntimeAssumption DEF Holding, WorkerType
  <2>3. path \in Seq(Tokens) /\ Len(w.root) + Len(path) <= NCtx
    <3>1. Len(w.outputs) + 1 \in DOMAIN w.batch
      BY <2>2
    <3>2. \A i \in DOMAIN w.batch : Len(w.root) + Len(w.batch[i]) <= NCtx
      BY <1>1, <1>2 DEF Holding
    <3>3. \A i \in DOMAIN w.batch : w.batch[i] \in Seq(Tokens)
      BY <2>2
    <3>4. QED
      BY <3>1, <3>2, <3>3
  <2>4. w.root \in Seq(Tokens)
    BY <2>1, TokenizeBounds
  <2> HIDE DEF path
  <2>5. Eval(seq, path) = [kv |-> w.root \o path, n |-> Len(w.root) + Len(path)]
    BY <2>1, <2>3, <2>4, EvalBranchOf
  <2>6. w.root \o path \in Seq(Tokens) /\ Len(w.root \o path) = Len(w.root) + Len(path)
    BY <2>3, <2>4
  <2>7. /\ done \in Seq(Seq(Tokens)) /\ Len(done) = Len(w.outputs) + 1
        /\ \A i \in 1 .. Len(w.outputs) : done[i] = w.outputs[i]
        /\ done[Len(w.outputs) + 1] = w.root \o path
    BY <2>2, <2>5, <2>6
  <2>8. \A i \in DOMAIN done : done[i] = w.root \o w.batch[i]
    <3>1. \A i \in DOMAIN w.outputs : w.outputs[i] = w.root \o w.batch[i]
      BY <1>2 DEF Holding
    <3>2. DOMAIN done = 1 .. Len(w.outputs) + 1 /\ DOMAIN w.outputs = 1 .. Len(w.outputs)
      BY <2>2, <2>7
    <3>3. done[Len(w.outputs) + 1] = w.root \o w.batch[Len(w.outputs) + 1]
      BY <2>7 DEF path
    <3> HIDE DEF done
    <3>4. \A i \in 1 .. Len(w.outputs) : done[i] = w.root \o w.batch[i]
      BY <2>7, <3>1, <3>2
    <3>5. \A i \in 1 .. Len(w.outputs) + 1 : i \in 1 .. Len(w.outputs) \/ i = Len(w.outputs) + 1
      BY <2>2
    <3>6. QED
      BY <3>2, <3>3, <3>4, <3>5
  <2>9. late \in 0 .. 1 /\ (late > 0 => refresh # None)
    BY <2>1
  <2> HIDE DEF done, late
  <2>10. /\ next.pc \in {"finally", "between"}
         /\ next.pc = "between" => Len(done) < Len(w.batch)
         /\ next.root = w.root /\ next.batch = w.batch
         /\ next.matches = w.matches /\ next.mutated = w.mutated /\ next.saved = w.saved
         /\ next.outputs = done /\ next.late = late
         /\ next \in WorkerType
    <3>1. Len(done) <= Len(w.batch) /\ Len(done) \in Nat /\ Len(w.batch) \in Nat
      BY <2>2, <2>7
    <3>2. ~last => Len(done) < Len(w.batch)
      BY <3>1
    <3> DEFINE pc == IF last THEN "finally" ELSE "between"
    <3>3. pc \in {"finally", "between"} /\ (pc = "between" => Len(done) < Len(w.batch))
      BY <3>2
    <3>4. late \in Nat
      BY <2>9
    <3> HIDE DEF pc, last
    <3>5. next = [w EXCEPT !.outputs = done, !.pc = pc, !.late = late]
      BY DEF pc
    <3>6. QED
      BY <2>1, <2>7, <3>3, <3>4, <3>5 DEF WorkerType
  <2> HIDE DEF next
  <2>11. /\ worker'[s] = next
         /\ \A t \in Scorers \ {s} : worker'[t] = worker[t]
         /\ worker' \in [Scorers -> WorkerType]
    BY <1>3, <2>10 DEF RuntimeInv, TypeOK
  <2>12. seq' \in [kv : Seq(Tokens \cup {None}), n : 0 .. NCtx] /\ Len(seq'.kv) <= NCtx
    <3>1. w.root \o path \in Seq(Tokens \cup {None})
      BY <2>6
    <3>2. Len(w.root) + Len(path) \in 0 .. NCtx
      BY <2>3, <2>4, RuntimeAssumption
    <3>3. QED
      BY <1>3, <2>3, <2>5, <2>6, <3>1, <3>2
  <2>13. TypeOK' /\ BufferOfRoot'
    <3>1. BufferOfRoot'
      BY <1>1 DEF RuntimeInv, BufferOfRoot
    <3>2. worker' \in [Scorers -> WorkerType]
      BY <2>11
    <3>3. QED
      BY <1>1, <2>12, <3>1, <3>2 DEF RuntimeInv, TypeOK
  <2>14. CacheDescribesSequence'
    BY <1>1, <1>2, RuntimeAssumption DEF CacheDescribesSequence
  <2>15. Holding(worker[s])'
    <3>1. /\ next.root \in TokenSeq /\ next.batch \in Batches /\ next.mutated
          /\ next.matches => cached = [tokens |-> next.root, logits |-> next.root]
                             /\ next.saved = next.root
          /\ buffer.tokens = next.root
      BY <1>2, <2>1, <2>10 DEF Holding
    <3>2. \A i \in DOMAIN next.batch : Len(next.root) + Len(next.batch[i]) <= NCtx
      BY <1>1, <1>2, <2>10 DEF Holding
    <3>3. \A i \in DOMAIN next.outputs : next.outputs[i] = next.root \o next.batch[i]
      BY <2>8, <2>10
    <3>4. /\ next.pc \in {"finally", "between"}
          /\ next.pc = "between" => Len(next.outputs) < Len(next.batch)
          /\ next.late <= 1 /\ (next.late > 0 => refresh # None)
      BY <2>9, <2>10
    <3>5. cached' = cached /\ buffer' = buffer /\ refresh' = refresh
      BY <1>1
    <3>6. QED
      BY <2>11, <3>1, <3>2, <3>3, <3>4, <3>5 DEF Holding
  <2>16. QED
    BY <1>1, <1>2, <2>10, <2>11, <2>13, <2>14, <2>15, SectionStep
<1>4. CASE seq' \in {seq, Garbled} /\ Goto(s, "finally")
  BY <1>1, <1>4, EarlyExitPreserves
<1>5. QED
  BY <1>3, <1>4 DEF EvalBranch

\* The captured state rewinds the branch to the root.
LEMMA BetweenPreserves ==
    ASSUME RuntimeInv, NEW s \in Scorers, BetweenBranches(s)
    PROVE  RuntimeInv'
<1> DEFINE w == worker[s]
<1>1. w.pc = "between"
      /\ UNCHANGED <<phase, lock, cached, buffer, contextVars, slotVars, scorerVars>>
  BY DEF BetweenBranches
<1>2. Holding(w) /\ lock = s
  BY <1>1 DEF RuntimeInv, Workers, Slot
<1>3. CASE /\ refresh = None /\ Goto(s, "branch")
           /\ seq' = [SeqSetData(seq, buffer.state) EXCEPT !.n = Len(w.root)]
  <2>1. w.root \in TokenSeq /\ buffer.tokens = w.root
    BY <1>1, <1>2 DEF Holding
  <2>2. buffer.state = w.root
    BY <2>1, RootsAreNotNone DEF RuntimeInv, BufferOfRoot
  <2>3. seq' = At(w.root)
    <3>1. seq = [kv |-> seq.kv, n |-> seq.n]
      BY DEF RuntimeInv, TypeOK
    <3>2. SeqSetData(seq, buffer.state) = [kv |-> w.root, n |-> seq.n]
      BY <2>2, <3>1 DEF SeqSetData
    <3>3. QED
      BY <1>3, <3>2 DEF At
  <2>4. /\ worker' \in [Scorers -> WorkerType]
        /\ \A t \in Scorers \ {s} : worker'[t] = worker[t]
        /\ worker'[s].pc = "branch"
        /\ worker'[s].root = w.root /\ worker'[s].batch = w.batch
        /\ worker'[s].matches = w.matches /\ worker'[s].mutated = w.mutated
        /\ worker'[s].saved = w.saved
        /\ worker'[s].outputs = w.outputs /\ worker'[s].late = w.late
    BY <1>3, GotoStep DEF RuntimeInv
  <2>5. TypeOK' /\ BufferOfRoot'
    BY <1>1, <2>1, <2>3, <2>4, AtTyped DEF RuntimeInv, TypeOK, BufferOfRoot
  <2>6. CacheDescribesSequence'
    BY <1>1, <1>2, RuntimeAssumption DEF CacheDescribesSequence
  <2>7. w.late = 0
    BY <1>1, <1>2, <1>3 DEF Holding, RuntimeInv, TypeOK, WorkerType
  <2>8. Holding(worker[s])'
    BY <1>1, <1>2, <2>1, <2>3, <2>4, <2>7 DEF Holding
  <2>9. QED
    BY <1>1, <1>2, <2>4, <2>5, <2>6, <2>8, SectionStep
<1>4. CASE seq' \in {seq, Garbled} /\ Goto(s, "finally")
  BY <1>1, <1>4, EarlyExitPreserves
<1>5. QED
  BY <1>3, <1>4 DEF BetweenBranches

\* The finally block restores the cache with the sequence, or drops it.
LEMMA RestorePreserves ==
    ASSUME RuntimeInv, NEW s \in Scorers, RestoreCache(s)
    PROVE  RuntimeInv'
<1> DEFINE w == worker[s]
           next == [NoWorker EXCEPT !.pc = "finish"]
<1>1. /\ w.pc = "finally" /\ lock' = None /\ worker' = [worker EXCEPT ![s] = next]
      /\ UNCHANGED <<phase, buffer, contextVars, slotVars, scorerVars>>
  BY DEF RestoreCache
<1>2. Holding(w) /\ lock = s /\ w \in WorkerType
  BY <1>1 DEF RuntimeInv, Workers, Slot, TypeOK
<1>3. w.root \in TokenSeq
  BY <1>2 DEF Holding
<1>4. next \in WorkerType /\ next.pc = "finish" /\ Quiet(next)
  BY EmptyTyped DEF WorkerType, NoWorker, Quiet
<1> HIDE DEF next
<1>5. /\ worker'[s] = next
      /\ \A t \in Scorers \ {s} : worker'[t] = worker[t]
      /\ worker' \in [Scorers -> WorkerType]
  BY <1>1, <1>4 DEF RuntimeInv, TypeOK
<1>6. \/ seq' = At(w.root) /\ cached' = [tokens |-> w.root, logits |-> w.root]
      \/ seq' = Cleared /\ cached' = NoCache
  <2>1. CASE w.matches /\ ~w.mutated /\ UNCHANGED <<seq, cached>>
    BY <1>2, <2>1 DEF Holding
  <2>2. CASE /\ w.matches /\ buffer.tokens = w.root
             /\ seq' = [SeqSetData(Cleared, buffer.state) EXCEPT !.n = Len(w.root)]
             /\ cached' = [tokens |-> w.root, logits |-> w.saved]
    <3>1. buffer.state = w.root /\ w.saved = w.root
      BY <1>2, <1>3, <2>2, RootsAreNotNone DEF RuntimeInv, BufferOfRoot, Holding
    <3>2. seq' = [[[kv |-> <<>>, n |-> 0] EXCEPT !.kv = w.root] EXCEPT !.n = Len(w.root)]
      BY <2>2, <3>1 DEF SeqSetData, Cleared
    <3>3. QED
      BY <2>2, <3>1, <3>2 DEF At
  <2>3. CASE seq' = Cleared /\ cached' = NoCache
    BY <2>3
  <2>4. QED
    BY <2>1, <2>2, <2>3 DEF RestoreCache
<1>7. TypeOK' /\ BufferOfRoot'
  <2>1. seq' \in [kv : Seq(Tokens \cup {None}), n : 0 .. NCtx] /\ Len(seq'.kv) <= NCtx
        /\ cached' \in CacheType
    BY <1>3, <1>6, AtTyped, EmptyTyped
  <2>2. TypeOK'
    BY <1>1, <1>5, <2>1 DEF RuntimeInv, TypeOK
  <2>3. BufferOfRoot'
    BY <1>1 DEF RuntimeInv, BufferOfRoot
  <2>4. QED
    BY <2>2, <2>3
<1>8. CacheDescribesSequence'
  BY <1>6 DEF CacheDescribesSequence, At, NoCache
<1>9. Quiet(worker[s])'
  BY <1>4, <1>5 DEF Quiet
<1>10. QED
  BY <1>1, <1>2, <1>4, <1>5, <1>7, <1>8, <1>9, SectionStep

-----------------------------------------------------------------------------
(* The slot and its callers *)

\* A step that moves only searches between their pcs.
LEMMA CallerMoves ==
    ASSUME RuntimeInv, TypeOK', Asked', NoLostWakeup', phase = "serving",
           UNCHANGED <<phase, lock, runtimeVars, contextVars, active, generation, worker>>
    PROVE  RuntimeInv'
<1>1. Slot' /\ Starting' /\ BufferOfRoot' /\ CacheDescribesSequence'
  BY DEF RuntimeInv, Slot, Starting, BufferOfRoot, CacheDescribesSequence
<1>2. Workers'
  BY DEF RuntimeInv, Workers, Quiet, Holding
<1>3. QED
  BY <1>1, <1>2 DEF RuntimeInv

\* A search that is not idle finds the runtime serving.
LEMMA Serving ==
    ASSUME RuntimeInv, NEW s \in Scorers, attempt[s].pc # "idle" \/ worker[s].pc # "none"
    PROVE  phase = "serving"
BY DEF RuntimeInv, Slot

\* A search chooses a live root.
LEMMA ChoosePreserves ==
    ASSUME RuntimeInv, NEW s \in Scorers, NEW root \in sessions, NEW batch \in Batches,
           ChooseBatch(s, root, batch)
    PROVE  RuntimeInv'
<1> DEFINE a == [NoAttempt EXCEPT !.pc = "chosen", !.root = root, !.batch = batch]
<1>1. root \in TokenSeq
  BY DEF RuntimeInv, TypeOK
<1>2. a \in AttemptType /\ a.pc = "chosen" /\ a.root = root /\ a.batch = batch
  BY <1>1 DEF NoAttempt, AttemptType
<1> HIDE DEF a
<1>3. attempt' = [attempt EXCEPT ![s] = a] /\ phase = "serving"
      /\ UNCHANGED <<phase, lock, runtimeVars, contextVars, slotVars, event, worker>>
  BY DEF ChooseBatch, a
<1>4. TypeOK'
  BY <1>2, <1>3 DEF RuntimeInv, TypeOK
<1>5. \A t \in Scorers : attempt'[t] = IF t = s THEN a ELSE attempt[t]
  BY <1>3 DEF RuntimeInv, TypeOK
<1>6. Asked' /\ NoLostWakeup'
  BY <1>1, <1>2, <1>3, <1>5 DEF RuntimeInv, Asked, NoLostWakeup
<1>7. QED
  BY <1>3, <1>4, <1>6, CallerMoves

\* The caller's deadline passes.
LEMMA TimesOutPreserves ==
    ASSUME RuntimeInv, NEW s \in Scorers, AttemptTimesOut(s)
    PROVE  RuntimeInv'
<1>1. attempt' = [attempt EXCEPT ![s].pc = "retry"] /\ attempt[s].pc = "wait"
      /\ UNCHANGED <<phase, lock, runtimeVars, contextVars, slotVars, event, worker>>
  BY DEF AttemptTimesOut, Call
<1>2. /\ attempt' \in [Scorers -> AttemptType] /\ attempt'[s].pc = "retry"
      /\ \A t \in Scorers \ {s} : attempt'[t] = attempt[t]
  BY <1>1 DEF RuntimeInv, TypeOK, AttemptType
<1>3. TypeOK'
  BY <1>1, <1>2 DEF RuntimeInv, TypeOK
<1>4. Asked' /\ NoLostWakeup'
  BY <1>1, <1>2 DEF RuntimeInv, Asked, NoLostWakeup
<1>5. QED
  BY <1>1, <1>3, <1>4, Serving, CallerMoves

\* A foreground search gives up.
LEMMA AbandonedPreserves ==
    ASSUME RuntimeInv, NEW s \in Scorers, AttemptAbandoned(s)
    PROVE  RuntimeInv'
<1>1. attempt' = [attempt EXCEPT ![s] = NoAttempt] /\ attempt[s].pc = "retry"
      /\ UNCHANGED <<phase, lock, runtimeVars, contextVars, slotVars, event, worker>>
  BY DEF AttemptAbandoned
<1>2. /\ attempt' \in [Scorers -> AttemptType] /\ attempt'[s].pc = "idle"
      /\ \A t \in Scorers \ {s} : attempt'[t] = attempt[t]
  BY <1>1, EmptyTyped DEF RuntimeInv, TypeOK, NoAttempt
<1>3. TypeOK'
  BY <1>1, <1>2 DEF RuntimeInv, TypeOK
<1>4. Asked' /\ NoLostWakeup'
  BY <1>1, <1>2 DEF RuntimeInv, Asked, NoLostWakeup
<1>5. QED
  BY <1>1, <1>3, <1>4, Serving, CallerMoves

\* Registration looks at the slot and its generation under the gate.
LEMMA RegisterPreserves ==
    ASSUME RuntimeInv, NEW s \in Scorers, RegisterIdleWait(s)
    PROVE  RuntimeInv'
<1> DEFINE gone == ~active \/ attempt[s].gen # generation
<1>1. /\ attempt[s].pc = "retry"
      /\ event' = [event EXCEPT ![s] = gone]
      /\ idleWaiters' = IF gone THEN idleWaiters ELSE idleWaiters \cup {s}
      /\ attempt' = [attempt EXCEPT ![s].pc = "parked"]
      /\ UNCHANGED <<phase, lock, runtimeVars, contextVars, active, generation, waking, worker>>
  BY DEF RegisterIdleWait, Call
<1>2. gone \in BOOLEAN /\ (~gone => active /\ attempt[s].gen = generation)
  OBVIOUS
<1> HIDE DEF gone
<1>3. /\ attempt' \in [Scorers -> AttemptType]
      /\ attempt'[s].pc = "parked" /\ attempt'[s].gen = attempt[s].gen
      /\ \A t \in Scorers \ {s} : attempt'[t] = attempt[t]
  BY <1>1 DEF RuntimeInv, TypeOK, AttemptType
<1>4. /\ event' \in [Scorers -> BOOLEAN] /\ event'[s] = gone
      /\ \A t \in Scorers \ {s} : event'[t] = event[t]
  BY <1>1, <1>2 DEF RuntimeInv, TypeOK
<1>5. idleWaiters \subseteq idleWaiters' /\ idleWaiters' \subseteq Scorers
      /\ (~gone => s \in idleWaiters')
  BY <1>1 DEF RuntimeInv, TypeOK
<1>6. TypeOK'
  BY <1>1, <1>3, <1>4, <1>5 DEF RuntimeInv, TypeOK
<1>7. Asked'
  BY <1>1, <1>3 DEF RuntimeInv, Asked
<1>8. NoLostWakeup'
  <2>1. ~gone => \E t \in Scorers : worker[t].pc \notin {"none", "done"}
    BY <1>2 DEF RuntimeInv, Slot
  <2>2. \A t \in Scorers \ {s} : attempt'[t].pc = "parked" =>
            \/ event'[t] \/ t \in waking'
            \/ /\ t \in idleWaiters'
               /\ active' /\ attempt'[t].gen = generation'
               /\ \E u \in Scorers : worker'[u].pc \notin {"none", "done"}
    BY <1>1, <1>3, <1>4, <1>5 DEF RuntimeInv, NoLostWakeup
  <2>3. \/ event'[s] \/ s \in waking'
        \/ /\ s \in idleWaiters'
           /\ active' /\ attempt'[s].gen = generation'
           /\ \E u \in Scorers : worker'[u].pc \notin {"none", "done"}
    BY <1>1, <1>2, <1>3, <1>4, <1>5, <2>1
  <2>4. QED
    BY <2>2, <2>3 DEF NoLostWakeup
<1>9. QED
  BY <1>1, <1>6, <1>7, <1>8, Serving, CallerMoves

\* A search leaves its wait.
LEMMA UnregisterPreserves ==
    ASSUME RuntimeInv, NEW s \in Scorers, LeaveIdleWait(s)
    PROVE  RuntimeInv'
<1>1. /\ attempt[s].pc = "parked"
      /\ event' = [event EXCEPT ![s] = FALSE]
      /\ idleWaiters' = idleWaiters \ {s}
      /\ attempt' = [attempt EXCEPT ![s] = NoAttempt]
      /\ UNCHANGED <<phase, lock, runtimeVars, contextVars, active, generation, waking, worker>>
  BY DEF LeaveIdleWait
<1>2. /\ attempt' \in [Scorers -> AttemptType] /\ attempt'[s].pc = "idle"
      /\ \A t \in Scorers \ {s} : attempt'[t] = attempt[t]
  BY <1>1, EmptyTyped DEF RuntimeInv, TypeOK, NoAttempt
<1>3. /\ event' \in [Scorers -> BOOLEAN]
      /\ \A t \in Scorers \ {s} : event'[t] = event[t]
  BY <1>1 DEF RuntimeInv, TypeOK
<1>4. TypeOK'
  BY <1>1, <1>2, <1>3 DEF RuntimeInv, TypeOK
<1>5. Asked'
  BY <1>1, <1>2 DEF RuntimeInv, Asked
<1>6. NoLostWakeup'
  BY <1>1, <1>2, <1>3 DEF RuntimeInv, NoLostWakeup
<1>7. QED
  BY <1>1, <1>4, <1>5, <1>6, Serving, CallerMoves

\* A wake-up reaches a parked search.
LEMMA WakePreserves ==
    ASSUME RuntimeInv, NEW s \in Scorers, WakeWaiter(s)
    PROVE  RuntimeInv'
<1>1. /\ s \in waking /\ waking' = waking \ {s}
      /\ event' = [event EXCEPT ![s] = attempt[s].pc = "parked"]
      /\ UNCHANGED <<phase, lock, runtimeVars, contextVars, active, generation, idleWaiters,
                     attempt, worker>>
  BY DEF WakeWaiter
<1>2. /\ event' \in [Scorers -> BOOLEAN] /\ event'[s] = (attempt[s].pc = "parked")
      /\ \A t \in Scorers \ {s} : event'[t] = event[t]
  BY <1>1 DEF RuntimeInv, TypeOK
<1>3. TypeOK'
  BY <1>1, <1>2 DEF RuntimeInv, TypeOK
<1>4. Asked'
  BY <1>1 DEF RuntimeInv, Asked
<1>5. NoLostWakeup'
  BY <1>1, <1>2 DEF RuntimeInv, NoLostWakeup
<1>6. Slot' /\ Starting' /\ BufferOfRoot' /\ CacheDescribesSequence'
  BY <1>1 DEF RuntimeInv, Slot, Starting, BufferOfRoot, CacheDescribesSequence
<1>7. Workers'
  BY <1>1 DEF RuntimeInv, Workers, Quiet, Holding
<1>8. QED
  BY <1>3, <1>4, <1>5, <1>6, <1>7 DEF RuntimeInv

\* A step that exchanges a worker outside its section for another one.
LEMMA WorkerSwap ==
    ASSUME RuntimeInv, TypeOK', Asked', NoLostWakeup', phase = "serving", NEW s \in Scorers,
           ~Locked(s), ~Locked(s)', Quiet(worker[s])',
           \A t \in Scorers \ {s} : worker'[t] = worker[t],
           \A t, u \in Scorers : Busy(t)' /\ Busy(u)' => t = u,
           active' <=> \E t \in Scorers : Busy(t)',
           UNCHANGED <<phase, lock, runtimeVars, contextVars>>
    PROVE  RuntimeInv'
<1>1. \A t \in Scorers : lock' = t <=> Locked(t)'
  BY DEF RuntimeInv, Slot
<1>2. Slot'
  BY <1>1 DEF Slot
<1>3. Starting' /\ BufferOfRoot' /\ CacheDescribesSequence'
  BY DEF RuntimeInv, Starting, BufferOfRoot, CacheDescribesSequence
<1>4. Workers'
  <2>1. ASSUME NEW t \in Scorers \ {s}
        PROVE  (IF Locked(t) THEN Holding(worker[t]) ELSE Quiet(worker[t]))'
    <3>1. worker'[t] = worker[t] /\ UNCHANGED <<runtimeVars, refresh>>
      BY <2>1
    <3>2. CASE Locked(t)
      <4>1. Holding(worker[t])
        BY <2>1, <3>2 DEF RuntimeInv, Workers
      <4>2. Holding(worker[t])'
        BY <3>1, <4>1 DEF Holding
      <4>3. QED
        BY <3>1, <3>2, <4>2
    <3>3. CASE ~Locked(t)
      <4>1. Quiet(worker[t])
        BY <2>1, <3>3 DEF RuntimeInv, Workers
      <4>2. Quiet(worker[t])'
        BY <3>1, <4>1 DEF Quiet
      <4>3. QED
        BY <3>1, <3>3, <4>2
    <3>4. QED
      BY <3>2, <3>3
  <2>2. QED
    BY <2>1 DEF Workers
<1>5. QED
  BY <1>2, <1>3, <1>4 DEF RuntimeInv

\* A free slot has no worker; an occupied one is left alone.
LEMMA TakeSlotPreserves ==
    ASSUME RuntimeInv, NEW s \in Scorers, TakeSlot(s)
    PROVE  RuntimeInv'
<1> DEFINE a == attempt[s]
           pc == IF active THEN "retry" ELSE "wait"
           w == [NoWorker EXCEPT !.pc = "start", !.root = a.root, !.batch = a.batch]
<1>1. /\ a.pc = "chosen" /\ active' = TRUE
      /\ attempt' = [attempt EXCEPT ![s].pc = pc, ![s].gen = generation]
      /\ worker' = IF active THEN worker ELSE [worker EXCEPT ![s] = w]
      /\ UNCHANGED <<phase, lock, runtimeVars, contextVars, generation, idleWaiters, waking,
                     event>>
  BY DEF TakeSlot
<1>2. /\ attempt' \in [Scorers -> AttemptType] /\ attempt'[s].pc \in {"retry", "wait"}
      /\ \A t \in Scorers \ {s} : attempt'[t] = attempt[t]
  <2>1. pc \in {"retry", "wait"} /\ generation \in Nat
    BY DEF RuntimeInv, TypeOK
  <2> HIDE DEF pc
  <2>2. attempt \in [Scorers -> AttemptType] /\ a \in AttemptType
    BY DEF RuntimeInv, TypeOK
  <2>3. [[a EXCEPT !.pc = pc] EXCEPT !.gen = generation] \in AttemptType
        /\ [[a EXCEPT !.pc = pc] EXCEPT !.gen = generation].pc = pc
    BY <2>1, <2>2 DEF AttemptType
  <2>4. attempt' = [attempt EXCEPT ![s] = [[a EXCEPT !.pc = pc] EXCEPT !.gen = generation]]
    BY <1>1, <2>2
  <2>5. QED
    BY <2>1, <2>2, <2>3, <2>4
<1>3. a.root \in TokenSeq /\ a.batch \in Batches
  BY <1>1 DEF RuntimeInv, Asked
<1>4. w \in WorkerType /\ w.pc = "start" /\ Quiet(w)
  BY <1>3, EmptyTyped DEF WorkerType, NoWorker, Quiet
<1>5. Asked'
  BY <1>1, <1>2 DEF RuntimeInv, Asked
<1>6. phase = "serving"
  BY <1>1, Serving
<1> HIDE DEF w, a, pc
<1>7. CASE active = TRUE
  <2>1. worker' = worker /\ UNCHANGED <<phase, lock, runtimeVars, contextVars, active, generation>>
    BY <1>1, <1>7
  <2>2. TypeOK'
    BY <1>1, <1>2, <2>1, <1>7 DEF RuntimeInv, TypeOK
  <2>3. NoLostWakeup'
    BY <1>1, <1>2, <2>1 DEF RuntimeInv, NoLostWakeup
  <2>4. QED
    BY <1>5, <1>6, <2>1, <2>2, <2>3, CallerMoves
<1>8. CASE active = FALSE
  <2>1. /\ worker'[s] = w /\ worker' \in [Scorers -> WorkerType]
        /\ \A t \in Scorers \ {s} : worker'[t] = worker[t]
    BY <1>1, <1>4, <1>8 DEF RuntimeInv, TypeOK
  <2>2. \A t \in Scorers : ~Busy(t)
    BY <1>8 DEF RuntimeInv, Slot
  <2>3. Busy(s)' /\ \A t \in Scorers \ {s} : ~Busy(t)'
    BY <1>4, <2>1, <2>2
  <2>4. TypeOK'
    BY <1>1, <1>2, <2>1 DEF RuntimeInv, TypeOK
  <2>5. NoLostWakeup'
    BY <1>1, <1>2, <1>8 DEF RuntimeInv, NoLostWakeup
  <2>6. ~Locked(s) /\ ~Locked(s)' /\ Quiet(worker[s])'
    BY <1>4, <2>1, <2>2 DEF Quiet
  <2>7. QED
    BY <1>1, <1>5, <1>6, <2>1, <2>3, <2>4, <2>5, <2>6, WorkerSwap
<1>9. QED
  BY <1>7, <1>8 DEF RuntimeInv, TypeOK

\* Freeing the slot takes the registered waiters along.
LEMMA FinishWakes ==
    ASSUME RuntimeInv, FinishSlot, UNCHANGED event,
           \A t \in Scorers : attempt'[t].pc = "parked" => attempt'[t] = attempt[t]
    PROVE  NoLostWakeup'
BY DEF RuntimeInv, NoLostWakeup, FinishSlot

\* Freeing the slot preserves the types.
LEMMA FinishTyped ==
    ASSUME TypeOK, FinishSlot
    PROVE  /\ active' \in BOOLEAN /\ generation' \in Nat
           /\ waking' \subseteq Scorers /\ idleWaiters' \subseteq Scorers
<1>1. active' = FALSE /\ generation' = generation + 1
      /\ waking' = waking \cup idleWaiters /\ idleWaiters' = {}
  BY DEF FinishSlot
<1>2. generation \in Nat /\ waking \subseteq Scorers /\ idleWaiters \subseteq Scorers
  BY DEF TypeOK
<1>3. generation' \in Nat
  BY <1>1, <1>2
<1>4. waking' \subseteq Scorers /\ idleWaiters' \subseteq Scorers
  BY <1>1, <1>2
<1>5. active' \in BOOLEAN
  BY <1>1
<1>6. QED
  BY <1>3, <1>4, <1>5

\* thread.start() raises: the slot is free again and its waiters are woken.
LEMMA StartFailsPreserves ==
    ASSUME RuntimeInv, NEW s \in Scorers, ThreadStartFails(s)
    PROVE  RuntimeInv'
<1>1. /\ worker[s].pc = "start" /\ FinishSlot
      /\ attempt' = [attempt EXCEPT ![s] = NoAttempt]
      /\ worker' = [worker EXCEPT ![s] = NoWorker]
      /\ UNCHANGED <<phase, lock, runtimeVars, contextVars, event>>
  BY DEF ThreadStartFails
<1>2. /\ attempt' \in [Scorers -> AttemptType] /\ attempt'[s].pc = "idle"
      /\ \A t \in Scorers \ {s} : attempt'[t] = attempt[t]
  BY <1>1, EmptyTyped DEF RuntimeInv, TypeOK, NoAttempt
<1>3. /\ worker' \in [Scorers -> WorkerType] /\ worker'[s] = NoWorker
      /\ \A t \in Scorers \ {s} : worker'[t] = worker[t]
  BY <1>1, EmptyTyped DEF RuntimeInv, TypeOK
<1>4. NoWorker.pc = "none" /\ Quiet(NoWorker)
  BY DEF NoWorker, Quiet
<1>5. \A t \in Scorers : ~Busy(t)'
  BY <1>1, <1>3, <1>4 DEF RuntimeInv, Slot
<1>6. TypeOK'
  <2>1. active' \in BOOLEAN /\ generation' \in Nat
        /\ waking' \subseteq Scorers /\ idleWaiters' \subseteq Scorers
    BY <1>1, FinishTyped DEF RuntimeInv
  <2>2. QED
    BY <1>1, <1>2, <1>3, <2>1 DEF RuntimeInv, TypeOK
<1>7. Asked'
  BY <1>2 DEF RuntimeInv, Asked
<1>8. NoLostWakeup'
  BY <1>1, <1>2, FinishWakes
<1>9. ~Locked(s) /\ ~Locked(s)' /\ Quiet(worker[s])'
  BY <1>1, <1>3, <1>4 DEF Quiet
<1>10. active' = FALSE
  BY <1>1 DEF FinishSlot
<1>11. QED
  BY <1>1, <1>3, <1>5, <1>6, <1>7, <1>8, <1>9, <1>10, Serving, WorkerSwap

\* The worker frees the slot and wakes its waiters.
LEMMA FinishPreserves ==
    ASSUME RuntimeInv, NEW s \in Scorers, WorkerFinishes(s)
    PROVE  RuntimeInv'
<1> DEFINE pc == IF attempt[s].pc = "wait" THEN "done" ELSE "none"
<1>1. /\ worker[s].pc = "finish" /\ FinishSlot /\ Goto(s, pc)
      /\ UNCHANGED <<phase, lock, runtimeVars, contextVars, scorerVars>>
  BY DEF WorkerFinishes
<1>2. pc \in {"none", "done"}
  OBVIOUS
<1> HIDE DEF pc
<1>3. /\ worker' \in [Scorers -> WorkerType]
      /\ \A t \in Scorers \ {s} : worker'[t] = worker[t]
      /\ worker'[s].pc = pc
      /\ worker'[s].outputs = worker[s].outputs /\ worker'[s].late = worker[s].late
  BY <1>1, <1>2, GotoStep DEF RuntimeInv
<1>4. \A t \in Scorers : ~Busy(t)'
  BY <1>1, <1>2, <1>3 DEF RuntimeInv, Slot
<1>5. TypeOK'
  <2>1. active' \in BOOLEAN /\ generation' \in Nat
        /\ waking' \subseteq Scorers /\ idleWaiters' \subseteq Scorers
    BY <1>1, FinishTyped DEF RuntimeInv
  <2>2. QED
    BY <1>1, <1>3, <2>1 DEF RuntimeInv, TypeOK
<1>6. Asked'
  BY <1>1 DEF RuntimeInv, Asked
<1>7. NoLostWakeup'
  BY <1>1, FinishWakes
<1>8. Quiet(worker[s])
  BY <1>1 DEF RuntimeInv, Workers
<1>9. ~Locked(s) /\ ~Locked(s)' /\ Quiet(worker[s])'
  BY <1>1, <1>2, <1>3, <1>8 DEF Quiet
<1>10. active' = FALSE
  BY <1>1 DEF FinishSlot
<1>11. QED
  BY <1>1, <1>3, <1>4, <1>5, <1>6, <1>7, <1>9, <1>10, Serving, WorkerSwap

\* The result is handed over.
LEMMA ReturnsPreserves ==
    ASSUME RuntimeInv, NEW s \in Scorers, AttemptReturns(s)
    PROVE  RuntimeInv'
<1>1. /\ worker[s].pc = "done" /\ attempt[s].pc = "wait"
      /\ attempt' = [attempt EXCEPT ![s] = NoAttempt]
      /\ worker' = [worker EXCEPT ![s] = NoWorker]
      /\ UNCHANGED <<phase, lock, runtimeVars, contextVars, slotVars, event>>
  BY DEF AttemptReturns
<1>2. /\ attempt' \in [Scorers -> AttemptType] /\ attempt'[s].pc = "idle"
      /\ \A t \in Scorers \ {s} : attempt'[t] = attempt[t]
  BY <1>1, EmptyTyped DEF RuntimeInv, TypeOK, NoAttempt
<1>3. /\ worker' \in [Scorers -> WorkerType] /\ worker'[s] = NoWorker
      /\ \A t \in Scorers \ {s} : worker'[t] = worker[t]
  BY <1>1, EmptyTyped DEF RuntimeInv, TypeOK
<1>4. NoWorker.pc = "none" /\ Quiet(NoWorker)
  BY DEF NoWorker, Quiet
<1>5. \A t \in Scorers : Busy(t)' <=> Busy(t)
  BY <1>1, <1>3, <1>4
<1>6. TypeOK'
  BY <1>1, <1>2, <1>3 DEF RuntimeInv, TypeOK
<1>7. Asked'
  BY <1>2 DEF RuntimeInv, Asked
<1>8. NoLostWakeup'
  <2>1. (\E t \in Scorers : Busy(t)) => \E t \in Scorers : Busy(t)'
    BY <1>5
  <2>2. QED
    BY <1>1, <1>2, <2>1 DEF RuntimeInv, NoLostWakeup
<1>9. ~Locked(s) /\ ~Locked(s)' /\ Quiet(worker[s])'
  BY <1>1, <1>3, <1>4 DEF Quiet
<1>10. /\ \A t, u \in Scorers : Busy(t)' /\ Busy(u)' => t = u
       /\ active' <=> \E t \in Scorers : Busy(t)'
  BY <1>1, <1>5 DEF RuntimeInv, Slot
<1>11. QED
  BY <1>1, <1>3, <1>6, <1>7, <1>8, <1>9, <1>10, Serving, WorkerSwap

-----------------------------------------------------------------------------
(* Theorems *)

\* The invariant holds before the smoke forward.
LEMMA InitInv == Init => RuntimeInv
<1> SUFFICES ASSUME Init PROVE RuntimeInv
  OBVIOUS
<1>1. TypeOK
  <2>1. sessions \subseteq TokenSeq
    BY EmptyTyped DEF Init
  <2>2. attempt \in [Scorers -> AttemptType] /\ worker \in [Scorers -> WorkerType]
    BY EmptyTyped DEF Init
  <2>3. QED
    BY <2>1, <2>2, EmptyTyped DEF Init, TypeOK
<1>2. \A s \in Scorers : attempt[s].pc = "idle" /\ worker[s].pc = "none" /\ Quiet(worker[s])
  BY DEF Init, NoAttempt, NoWorker, Quiet
<1>3. Slot /\ Workers
  BY <1>2, RuntimeAssumption DEF Init, Slot, Workers
<1>4. Asked /\ NoLostWakeup
  BY <1>2 DEF Asked, NoLostWakeup
<1>5. Starting /\ BufferOfRoot /\ CacheDescribesSequence
  BY DEF Init, Starting, BufferOfRoot, CacheDescribesSequence, NoCache, NoBuffer
<1>6. QED
  BY <1>1, <1>3, <1>4, <1>5 DEF RuntimeInv

\* Every step preserves the invariant.
LEMMA NextPreserves ==
    ASSUME RuntimeInv, [Next]_vars
    PROVE  RuntimeInv'
<1>1. CASE StartUp
  BY <1>1, SmokePreserves, BaselinePreserves, WarmPreserves DEF StartUp
<1>2. CASE ContextStep
  BY <1>2, RequestPreserves, RefreshPreserves, ClearPreserves, WipePreserves,
     EmptyPreserves DEF ContextStep
<1>3. ASSUME NEW s \in Scorers, CallerStep(s) PROVE RuntimeInv'
  BY <1>3, TakeSlotPreserves, StartFailsPreserves, WakePreserves, ReturnsPreserves,
     TimesOutPreserves, AbandonedPreserves, RegisterPreserves, UnregisterPreserves
     DEF CallerStep
<1>4. ASSUME NEW s \in Scorers, WorkerStep(s) PROVE RuntimeInv'
  BY <1>4, GivesUpPreserves, LocksPreserves, PreparePreserves, BranchPreserves,
     BetweenPreserves, RestorePreserves, FinishPreserves DEF WorkerStep
<1>5. CASE UNCHANGED vars
  <2>1. TypeOK'
    BY <1>5 DEF vars, RuntimeInv, TypeOK
  <2>2. Workers'
    BY <1>5 DEF vars, RuntimeInv, Workers, Quiet, Holding
  <2>3. QED
    BY <1>5, <2>1, <2>2 DEF vars, RuntimeInv, Slot, Asked, Starting, BufferOfRoot,
       CacheDescribesSequence, NoLostWakeup
<1>6. QED
  BY <1>1, <1>2, <1>3, <1>4, <1>5, ChoosePreserves DEF Next

\* The inductive invariant holds in every reachable state.
THEOREM Invariance == Spec => []RuntimeInv
<1>1. Init => RuntimeInv
  BY InitInv
<1>2. RuntimeInv /\ [Next]_vars => RuntimeInv'
  BY NextPreserves
<1>3. QED
  BY <1>1, <1>2, PTL DEF Spec

\* Type correctness of llama_runtime.py and of the continuation slot; the
\* validation of a batch keeps sequence 0 within n_ctx.
THEOREM TypeCorrect == Spec => []TypeOK
<1>1. RuntimeInv => TypeOK
  BY DEF RuntimeInv
<1>2. QED
  BY <1>1, Invariance, PTL

\* Whatever refreshes, continuations, failures and resets came before, a
\* create_snapshot that appends to _cached_token_ids appends to the tokens the
\* live sequence really holds.
THEOREM CacheIsExact == Spec => []CacheDescribesSequence
<1>1. RuntimeInv => CacheDescribesSequence
  BY DEF RuntimeInv
<1>2. QED
  BY <1>1, Invariance, PTL

\* No value of a continuation mixes contexts: it is of the caller's root
\* followed by its own path, for any batch and any interleaving.
THEOREM BranchesExact == Spec => []BranchesOfOneRoot
<1>1. RuntimeInv => BranchesOfOneRoot
  <2> SUFFICES ASSUME RuntimeInv, NEW s \in Scorers, NEW i \in DOMAIN worker[s].outputs
               PROVE  worker[s].outputs[i] = worker[s].root \o worker[s].batch[i]
    BY DEF BranchesOfOneRoot
  <2>1. CASE Locked(s)
    BY <2>1 DEF RuntimeInv, Workers, Holding
  <2>2. CASE ~Locked(s)
    <3>1. worker[s].outputs = <<>>
      BY <2>2 DEF RuntimeInv, Workers, Quiet
    <3>2. QED
      BY <3>1
  <2>3. QED
    BY <2>1, <2>2
<1>2. QED
  BY <1>1, Invariance, PTL

\* A waiting create_snapshot is behind at most one more branch.
THEOREM RefreshNotStarved == Spec => []RefreshPreempts
<1>1. RuntimeInv => RefreshPreempts
  <2> SUFFICES ASSUME RuntimeInv, NEW s \in Scorers PROVE worker[s].late <= 1
    BY DEF RefreshPreempts
  <2>1. CASE Locked(s)
    BY <2>1 DEF RuntimeInv, Workers, Holding
  <2>2. CASE ~Locked(s)
    <3>1. worker[s].late = 0
      BY <2>2 DEF RuntimeInv, Workers, Quiet
    <3>2. QED
      BY <3>1
  <2>3. QED
    BY <2>1, <2>2
<1>2. QED
  BY <1>1, Invariance, PTL

\* register_continuation_idle_wait and _finish_continuation_slot leave no
\* search asleep on a free slot.
THEOREM WakeupsArrive == Spec => []NoLostWakeup
<1>1. RuntimeInv => NoLostWakeup
  BY DEF RuntimeInv
<1>2. QED
  BY <1>1, Invariance, PTL
=============================================================================
