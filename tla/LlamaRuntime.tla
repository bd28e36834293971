----------------------------- MODULE LlamaRuntime -----------------------------
(***************************************************************************)
(* LlamaCppBackend (llama_runtime.py) and the single-flight continuation   *)
(* slot of FullLogitsSnapshotBackend (backends.py).  One llama.cpp         *)
(* sequence serves two masters: context refreshes, which leave it at the   *)
(* editor's tokens for the next append, and candidate continuations, which *)
(* score short branches from the root of some session and must put the     *)
(* sequence back.                                                          *)
(*                                                                         *)
(* Logits are represented by the token sequence they were computed from.   *)
(* Every runtime variable is touched only under _lock, so a lock section   *)
(* that no other thread can observe is one action; a continuation is split *)
(* into its branches because it looks at _context_waiters between them.    *)
(***************************************************************************)
EXTENDS Naturals, Sequences, FiniteSets

CONSTANTS
    Scorers,            \* threads that run page searches
    Tokens,             \* the model's vocabulary
    Texts,              \* editor texts, already tokenized
    Batches,            \* the batches of token paths a search asks for
    Fallback,           \* _fallback_token()
    MaxBeforeTokens,    \* max_before_tokens
    NCtx,               \* n_ctx
    MaxGeneration,      \* bound on continuation attempts
    None

ASSUME RuntimeAssumption ==
    /\ NCtx \in Nat /\ MaxBeforeTokens \in 1 .. NCtx
    /\ Texts \subseteq Seq(Tokens) /\ Fallback \in Tokens
    /\ Batches \subseteq Seq(Seq(Tokens))
    /\ \A b \in Batches : Len(b) > 0 /\ \A i \in DOMAIN b : Len(b[i]) > 0
    /\ None \notin Scorers /\ None \notin Seq(Tokens)

VARIABLES
    phase,              \* start-up: smoke, baseline, warm, then serving
    lock,               \* _lock: the scorer whose worker holds it, or None
    seq,                \* llama.cpp sequence 0: its KV content and n_tokens
    cached,             \* _cached_token_ids and _cached_logits
    buffer,             \* _continuation_state_token_ids and _buffer
    refresh,            \* the text create_snapshot waits with, or None
    resetting,          \* sessions are cleared, the wipe has not happened
    sessions            \* the roots live candidate sessions hold

runtimeVars == <<seq, cached, buffer>>
contextVars == <<refresh, resetting, sessions>>

VARIABLES
    active,             \* _continuation_active
    generation,         \* _continuation_generation
    idleWaiters,        \* _continuation_idle_waiters
    waking,             \* waiters taken by a finished slot, not yet set
    event,              \* each scorer's wake event
    attempt,            \* each scorer's call of _continue_provider_attempt
    worker              \* the thread that call started

slotVars == <<active, generation, idleWaiters, waking>>
scorerVars == <<event, attempt>>
vars == <<phase, lock, runtimeVars, contextVars, slotVars, scorerVars, worker>>

\* The live sequence, as llama-cpp-python keeps it (kv_cache_clear + reset,
\* eval after position n_tokens, llama_state_seq_set_data).
Cleared == [kv |-> <<>>, n |-> 0]
Eval(s, tokens) ==
    [kv |-> SubSeq(s.kv, 1, s.n) \o tokens, n |-> s.n + Len(tokens)]
Garbled == [kv |-> <<None>>, n |-> 0]      \* after a failed eval or transfer
SeqSetData(s, state) == [s EXCEPT !.kv = state]

\* _tokenize_context: the newest max_before_tokens tokens, never none.
Tokenize(text) ==
    IF text = <<>> THEN <<Fallback>>
    ELSE SubSeq(text, IF Len(text) > MaxBeforeTokens
                      THEN Len(text) - MaxBeforeTokens + 1 ELSE 1, Len(text))

Baseline == Tokenize(<<>>)
NoCache == [tokens |-> None, logits |-> None]
NoBuffer == [tokens |-> None, state |-> None]
NoAttempt == [pc |-> "idle", root |-> None, batch |-> None, gen |-> 0]
NoWorker == [pc |-> "none", root |-> None, batch |-> <<>>, matches |-> FALSE,
             mutated |-> FALSE, saved |-> None, outputs |-> <<>>, late |-> 0]

Init ==
    /\ phase = "smoke"
    /\ lock = None
    /\ seq = Cleared /\ cached = NoCache /\ buffer = NoBuffer
    /\ refresh = None /\ resetting = FALSE /\ sessions = {Baseline}
    /\ active = FALSE /\ generation = 0 /\ idleWaiters = {} /\ waking = {}
    /\ event = [s \in Scorers |-> FALSE]
    /\ attempt = [s \in Scorers |-> NoAttempt]
    /\ worker = [s \in Scorers |-> NoWorker]

-----------------------------------------------------------------------------
(* Context refreshes, resets and start-up *)

\* create_snapshot once it holds _lock, up to the release: reuse the cached
\* logits, append to the cached prefix, or replay everything.
StrictPrefix(p, t) == Len(p) < Len(t) /\ SubSeq(t, 1, Len(p)) = p

CanAppend(tokens) ==
    cached.tokens # None /\ StrictPrefix(cached.tokens, tokens)

Suffix(tokens) ==
    IF CanAppend(tokens) THEN SubSeq(tokens, Len(cached.tokens) + 1, Len(tokens))
    ELSE tokens

Start(tokens) == IF CanAppend(tokens) THEN seq ELSE Cleared

KeepBuffer(tokens) == IF tokens = cached.tokens THEN buffer ELSE NoBuffer

ForwardSucceeds(tokens) ==
    /\ buffer' = KeepBuffer(tokens)
    /\ \/ /\ tokens = cached.tokens /\ cached.logits # None
          /\ UNCHANGED <<seq, cached>>
       \/ /\ ~(tokens = cached.tokens /\ cached.logits # None)
          /\ seq' = Eval(Start(tokens), Suffix(tokens))
          /\ cached' = [tokens |-> tokens, logits |-> seq'.kv]

\* The eval, or the copy of its logits, raises: nothing stays cached.
ForwardFails(tokens) ==
    /\ ~(tokens = cached.tokens /\ cached.logits # None)
    /\ buffer' = KeepBuffer(tokens)
    /\ seq' = Cleared
    /\ cached' = NoCache

\* _smoke_forward, then install_empty_context_baseline and its warm-up.
SmokeForward ==
    /\ phase = "smoke"
    /\ seq' = Cleared /\ cached' = NoCache
    /\ phase' = "baseline"
    /\ UNCHANGED <<lock, buffer, contextVars, slotVars, scorerVars, worker>>

InstallBaseline ==
    /\ phase = "baseline"
    /\ ForwardSucceeds(Baseline)
    /\ phase' = "warm"
    /\ UNCHANGED <<lock, contextVars, slotVars, scorerVars, worker>>

\* create_snapshot registers as a waiter before it takes _lock.
RequestRefresh(text) ==
    /\ phase = "serving" /\ refresh = None /\ ~resetting
    /\ refresh' = text
    /\ UNCHANGED <<phase, lock, runtimeVars, resetting, sessions, slotVars,
                   scorerVars, worker>>

\* A refresh that a reset overtook is not published (SnapshotCoordinator), so
\* no session gets its root.
Refresh ==
    /\ refresh # None /\ lock = None
    /\ LET tokens == Tokenize(refresh)
       IN  \/ /\ ForwardSucceeds(tokens)
              /\ sessions' = IF resetting THEN sessions ELSE sessions \cup {tokens}
           \/ /\ ForwardFails(tokens)
              /\ UNCHANGED sessions
    /\ refresh' = None
    /\ UNCHANGED <<phase, lock, resetting, slotVars, scorerVars, worker>>

\* reset_private_context clears the candidate sessions before anything else ...
ClearSessions ==
    /\ phase = "serving" /\ ~resetting
    /\ resetting' = TRUE
    /\ sessions' = {Baseline}
    /\ UNCHANGED <<phase, lock, runtimeVars, refresh, slotVars, scorerVars,
                   worker>>

\* ... and ends with invalidate_private_state, after any running forward.
Wipe ==
    /\ resetting /\ refresh = None /\ lock = None
    /\ cached' = NoCache /\ buffer' = NoBuffer /\ seq' = Cleared
    /\ resetting' = FALSE
    /\ UNCHANGED <<phase, lock, refresh, sessions, slotVars, scorerVars, worker>>

\* continue_from_empty: compatibility tools score from BOS, outside the slot.
ContinueFromEmpty ==
    /\ phase = "serving" /\ lock = None
    /\ seq' = Cleared /\ cached' = NoCache
    /\ UNCHANGED <<phase, lock, buffer, contextVars, slotVars, scorerVars, worker>>

-----------------------------------------------------------------------------
(* Continuations: the worker thread inside continue_*_from_root *)

Goto(s, pc) == worker' = [worker EXCEPT ![s].pc = pc]

\* The deadline passed before the provider ran, or while it waited for _lock.
WorkerGivesUp(s) ==
    /\ worker[s].pc = "start"
    /\ worker' = [worker EXCEPT ![s] = [NoWorker EXCEPT !.pc = "finish"]]
    /\ UNCHANGED <<phase, lock, runtimeVars, contextVars, slotVars, scorerVars>>

\* _lock is acquired and the whole batch is validated.
WorkerLocks(s) ==
    LET w == worker[s]
        fits == \A i \in DOMAIN w.batch : Len(w.root) + Len(w.batch[i]) <= NCtx
        matches == cached.tokens = w.root /\ cached.logits # None
    IN  /\ w.pc = "start" /\ lock = None
        /\ lock' = s
        /\ worker' = [worker EXCEPT ![s] =
                [w EXCEPT !.pc = IF fits THEN "root" ELSE "finally",
                          !.matches = matches, !.mutated = fits,
                          !.saved = IF matches THEN cached.logits ELSE None]]
        /\ UNCHANGED <<phase, runtimeVars, contextVars, slotVars, scorerVars>>

\* _continue_single_sequence_restore brings sequence 0 to the root: by one
\* replay whose state is captured, by the captured state, or not at all when
\* the editor cache proves that the sequence is there.
AtRoot(root, matches) ==
    IF buffer.tokens # root THEN Eval(Cleared, root)
    ELSE IF matches /\ seq.n = Len(root) THEN seq
    ELSE [SeqSetData(Cleared, buffer.state) EXCEPT !.n = Len(root)]

Captured(root) ==
    IF buffer.tokens # root THEN [tokens |-> root, state |-> AtRoot(root, FALSE).kv]
    ELSE buffer

PrepareRoot(s) ==
    LET root == worker[s].root
    IN  /\ worker[s].pc = "root"
        /\ \/ /\ seq' = AtRoot(root, worker[s].matches)
              /\ buffer' = Captured(root)
              /\ Goto(s, "branch")
           \/ /\ AtRoot(root, worker[s].matches) # seq \/ buffer.tokens # root
              /\ seq' = Garbled
              /\ UNCHANGED buffer
              /\ Goto(s, "finally")
        /\ UNCHANGED <<phase, lock, cached, contextVars, slotVars, scorerVars>>

\* One branch: eval of the path, then the selected values of its logits.  The
\* last one completes the batch; the deadline or an exception ends it.
EvalBranch(s) ==
    LET w    == worker[s]
        path == w.batch[Len(w.outputs) + 1]
        done == Append(w.outputs, Eval(seq, path).kv)
    IN  /\ w.pc = "branch"
        /\ \/ /\ seq' = Eval(seq, path)
              /\ worker' = [worker EXCEPT ![s] =
                    [w EXCEPT !.outputs = done,
                              !.pc = IF Len(done) = Len(w.batch) THEN "finally"
                                     ELSE "between",
                              !.late = IF refresh # None THEN w.late + 1 ELSE 0]]
           \/ /\ seq' = Garbled
              /\ Goto(s, "finally")
           \/ UNCHANGED seq /\ Goto(s, "finally")
        /\ UNCHANGED <<phase, lock, cached, buffer, contextVars, slotVars, scorerVars>>

\* Mutants: the branch is not rewound; a waiting refresh is ignored.
MutantBetweenKeepsBranch(s) ==
    /\ worker[s].pc = "between" /\ refresh = None
    /\ Goto(s, "branch")
    /\ UNCHANGED <<phase, lock, runtimeVars, contextVars, slotVars, scorerVars>>

MutantBetweenIgnoresWaiters(s) ==
    /\ worker[s].pc = "between"
    /\ seq' = [SeqSetData(seq, buffer.state) EXCEPT !.n = Len(worker[s].root)]
    /\ Goto(s, "branch")
    /\ UNCHANGED <<phase, lock, cached, buffer, contextVars, slotVars, scorerVars>>

\* Between two branches a waiting refresh, or the deadline, ends the batch;
\* otherwise the captured state rewinds the branch.
BetweenBranches(s) ==
    /\ worker[s].pc = "between"
    /\ \/ UNCHANGED seq /\ Goto(s, "finally")
       \/ /\ refresh = None
          /\ seq' = [SeqSetData(seq, buffer.state) EXCEPT !.n = Len(worker[s].root)]
          /\ Goto(s, "branch")
       \/ /\ refresh = None
          /\ seq' = Garbled
          /\ Goto(s, "finally")
    /\ UNCHANGED <<phase, lock, cached, buffer, contextVars, slotVars, scorerVars>>

\* Mutant: the matching cache is kept although the sequence was not restored.
MutantRestoreCacheOnly(s) ==
    /\ worker[s].pc = "finally"
    /\ IF worker[s].matches THEN UNCHANGED <<seq, cached>>
       ELSE seq' = Cleared /\ cached' = NoCache
    /\ lock' = None
    /\ worker' = [worker EXCEPT ![s] = [NoWorker EXCEPT !.pc = "finish"]]
    /\ UNCHANGED <<phase, buffer, contextVars, slotVars, scorerVars>>

\* The finally block: an editor cache that was at this root is restored with
\* the sequence, which a batch refused by validation never touched; any other
\* cache no longer describes the sequence and goes.
RestoreCache(s) ==
    LET w == worker[s]
        root == w.root
    IN  /\ w.pc = "finally"
        /\ \/ /\ w.matches /\ ~w.mutated
              /\ UNCHANGED <<seq, cached>>
           \/ /\ w.matches /\ w.mutated /\ buffer.tokens = root
              /\ seq' = [SeqSetData(Cleared, buffer.state) EXCEPT !.n = Len(root)]
              /\ cached' = [tokens |-> root, logits |-> w.saved]
           \/ /\ ~w.matches \/ w.mutated
              /\ seq' = Cleared
              /\ cached' = NoCache
        /\ lock' = None
        /\ worker' = [worker EXCEPT ![s] = [NoWorker EXCEPT !.pc = "finish"]]
        /\ UNCHANGED <<phase, buffer, contextVars, slotVars, scorerVars>>

\* warm_candidate_continuation: start-up ends only after a complete batch.
WarmContinuation ==
    /\ phase = "warm"
    /\ buffer' = Captured(Baseline)
    /\ seq' = [SeqSetData(Cleared, buffer'.state) EXCEPT !.n = Len(Baseline)]
    /\ phase' = "serving"
    /\ UNCHANGED <<lock, cached, contextVars, slotVars, scorerVars, worker>>

-----------------------------------------------------------------------------
(* The continuation slot and its callers *)

Call(s, pc) == attempt' = [attempt EXCEPT ![s].pc = pc]

\* A page search chooses its root and batch under the page manager's lock,
\* which it releases before it calls the backend.
ChooseBatch(s, root, batch) ==
    /\ phase = "serving" /\ attempt[s].pc = "idle" /\ root \in sessions
    /\ generation < MaxGeneration
    /\ attempt' = [attempt EXCEPT ![s] =
            [NoAttempt EXCEPT !.pc = "chosen", !.root = root, !.batch = batch]]
    /\ UNCHANGED <<phase, lock, runtimeVars, contextVars, slotVars, event, worker>>

\* _continue_provider_attempt: an occupied slot is a retryable miss; a free one
\* is taken and a worker thread started.
TakeSlot(s) ==
    LET a == attempt[s]
    IN  /\ a.pc = "chosen"
        /\ attempt' = [attempt EXCEPT ![s].pc = IF active THEN "retry" ELSE "wait",
                                      ![s].gen = generation]
        /\ worker' = IF active THEN worker
                     ELSE [worker EXCEPT ![s] = [NoWorker EXCEPT
                            !.pc = "start", !.root = a.root, !.batch = a.batch]]
        /\ active' = TRUE
        /\ UNCHANGED <<phase, lock, runtimeVars, contextVars, generation, idleWaiters,
                       waking, event>>

\* _finish_continuation_slot: the waiters are taken under the gate and set
\* after it.
FinishSlot ==
    /\ active' = FALSE
    /\ generation' = generation + 1
    /\ waking' = waking \cup idleWaiters
    /\ idleWaiters' = {}

\* thread.start() raises: the slot is given back.
ThreadStartFails(s) ==
    /\ attempt[s].pc = "wait" /\ worker[s].pc = "start"
    /\ FinishSlot
    /\ attempt' = [attempt EXCEPT ![s] = NoAttempt]
    /\ worker' = [worker EXCEPT ![s] = NoWorker]
    /\ UNCHANGED <<phase, lock, runtimeVars, contextVars, event>>

\* The worker frees the slot and sets done, whether or not anyone waits.
WorkerFinishes(s) ==
    /\ worker[s].pc = "finish"
    /\ FinishSlot
    /\ Goto(s, IF attempt[s].pc = "wait" THEN "done" ELSE "none")
    /\ UNCHANGED <<phase, lock, runtimeVars, contextVars, scorerVars>>

\* waiter.set(); an event nobody waits on is cleared before it is used again.
WakeWaiter(s) ==
    /\ s \in waking
    /\ waking' = waking \ {s}
    /\ event' = [event EXCEPT ![s] = attempt[s].pc = "parked"]
    /\ UNCHANGED <<phase, lock, runtimeVars, contextVars, active, generation,
                   idleWaiters, attempt, worker>>

\* done was set: the result is handed over, or the error raised again.
AttemptReturns(s) ==
    /\ attempt[s].pc = "wait" /\ worker[s].pc = "done"
    /\ attempt' = [attempt EXCEPT ![s] = NoAttempt]
    /\ worker' = [worker EXCEPT ![s] = NoWorker]
    /\ UNCHANGED <<phase, lock, runtimeVars, contextVars, slotVars, event>>

\* The caller's deadline passes; the worker goes on without it.  This may
\* fall between the freeing of the slot and done.set().
AttemptTimesOut(s) ==
    /\ attempt[s].pc = "wait"
    /\ Call(s, "retry")
    /\ UNCHANGED <<phase, lock, runtimeVars, contextVars, slotVars, event, worker>>

\* A foreground query does not wait for the slot: its page stays as it is.
AttemptAbandoned(s) ==
    /\ attempt[s].pc = "retry"
    /\ attempt' = [attempt EXCEPT ![s] = NoAttempt]
    /\ UNCHANGED <<phase, lock, runtimeVars, contextVars, slotVars, event, worker>>

\* Mutant: register_continuation_idle_wait does not look at the slot.
MutantRegisterUnchecked(s) ==
    /\ attempt[s].pc = "retry"
    /\ event' = [event EXCEPT ![s] = FALSE]
    /\ idleWaiters' = idleWaiters \cup {s}
    /\ Call(s, "parked")
    /\ UNCHANGED <<phase, lock, runtimeVars, contextVars, active, generation, waking,
                   worker>>

\* _wait_for_continuation_idle: clear the event, then register it.
RegisterIdleWait(s) ==
    LET gone == ~active \/ attempt[s].gen # generation
    IN  /\ attempt[s].pc = "retry"
        /\ event' = [event EXCEPT ![s] = gone]
        /\ idleWaiters' = IF gone THEN idleWaiters ELSE idleWaiters \cup {s}
        /\ Call(s, "parked")
        /\ UNCHANGED <<phase, lock, runtimeVars, contextVars, active, generation,
                       waking, worker>>

\* The event was set, the search is cancelled or its time is up: the wait is
\* unregistered.
LeaveIdleWait(s) ==
    /\ attempt[s].pc = "parked"
    /\ idleWaiters' = idleWaiters \ {s}
    /\ event' = [event EXCEPT ![s] = FALSE]
    /\ attempt' = [attempt EXCEPT ![s] = NoAttempt]
    /\ UNCHANGED <<phase, lock, runtimeVars, contextVars, active, generation,
                   waking, worker>>

WorkerStep(s) ==
    \/ WorkerGivesUp(s) \/ WorkerLocks(s) \/ PrepareRoot(s) \/ EvalBranch(s)
    \/ BetweenBranches(s) \/ RestoreCache(s) \/ WorkerFinishes(s)

CallerStep(s) ==
    \/ TakeSlot(s) \/ ThreadStartFails(s) \/ WakeWaiter(s)
    \/ AttemptReturns(s) \/ AttemptTimesOut(s) \/ AttemptAbandoned(s)
    \/ RegisterIdleWait(s) \/ LeaveIdleWait(s)

StartUp == SmokeForward \/ InstallBaseline \/ WarmContinuation

ContextStep ==
    \/ \E text \in Texts : RequestRefresh(text)
    \/ Refresh \/ ClearSessions \/ Wipe \/ ContinueFromEmpty

Next ==
    \/ StartUp
    \/ ContextStep
    \/ \E s \in Scorers :
        \/ \E root \in sessions, batch \in Batches : ChooseBatch(s, root, batch)
        \/ CallerStep(s)
        \/ WorkerStep(s)

Spec == Init /\ [][Next]_vars

-----------------------------------------------------------------------------
(* Properties *)

TokenSeq == {Tokenize(t) : t \in Texts \cup {<<>>}}

CacheType == [tokens : TokenSeq \cup {None}, logits : TokenSeq \cup {None}]

BufferType == [tokens : TokenSeq \cup {None}, state : TokenSeq \cup {None}]

AttemptType ==
    [pc : {"idle", "chosen", "wait", "retry", "parked"},
     root : TokenSeq \cup {None}, batch : Batches \cup {None}, gen : Nat]

WorkerType ==
    [pc : {"none", "start", "root", "branch", "between", "finally", "finish", "done"},
     root : TokenSeq \cup {None}, batch : Batches \cup {<<>>}, matches : BOOLEAN,
     mutated : BOOLEAN, saved : TokenSeq \cup {None}, outputs : Seq(Seq(Tokens)), late : Nat]

\* Types of the runtime, of the slot and of the threads; sequence 0 never
\* outgrows the model's n_ctx.
TypeOK ==
    /\ phase \in {"smoke", "baseline", "warm", "serving"}
    /\ lock \in Scorers \cup {None}
    /\ seq \in [kv : Seq(Tokens \cup {None}), n : 0 .. NCtx] /\ Len(seq.kv) <= NCtx
    /\ cached \in CacheType
    /\ buffer \in BufferType
    /\ refresh \in Texts \cup {None} /\ resetting \in BOOLEAN
    /\ sessions \subseteq TokenSeq
    /\ active \in BOOLEAN /\ generation \in Nat
    /\ idleWaiters \subseteq Scorers /\ waking \subseteq Scorers
    /\ event \in [Scorers -> BOOLEAN]
    /\ attempt \in [Scorers -> AttemptType]
    /\ worker \in [Scorers -> WorkerType]

\* Whenever _lock is free, a remembered editor cache describes the live
\* sequence and its logits exactly, so that the next create_snapshot may append
\* to it, after any refresh, preemption, deadline or failed restore in between.
CacheDescribesSequence ==
    lock = None /\ cached.tokens # None =>
        /\ seq = [kv |-> cached.tokens, n |-> Len(cached.tokens)]
        /\ cached.logits = cached.tokens

\* "Score branches from one exact root snapshot without context mixing"
\* (_continue_values_from_root): each value a continuation has produced is of
\* its own root followed by its own path.
BranchesOfOneRoot ==
    \A s \in Scorers : \A i \in DOMAIN worker[s].outputs :
        worker[s].outputs[i] = worker[s].root \o worker[s].batch[i]

\* A continuation evaluates at most one more branch once a context refresh
\* waits for the runtime: editing is never behind a whole batch.
RefreshPreempts == \A s \in Scorers : worker[s].late <= 1

\* No search waits for a slot nobody will free: its event is set, or about to
\* be set, or registered for the generation that occupies the slot, whose worker
\* thread has still to run _finish_continuation_slot.
NoLostWakeup ==
    \A s \in Scorers : attempt[s].pc = "parked" =>
        \/ event[s] \/ s \in waking
        \/ /\ s \in idleWaiters
           /\ active /\ attempt[s].gen = generation
           /\ \E t \in Scorers : worker[t].pc \notin {"none", "done"}
=============================================================================
