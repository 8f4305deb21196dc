----------------------------- MODULE GraphCache -----------------------------
(***************************************************************************)
(* The mixed runner's staging tensor and its LRU cache of compute graphs   *)
(* (src/compute/gpu_mixed_runner.cpp).  A step is staged, then executed;   *)
(* both run on the engine's thread.                                        *)
(*                                                                         *)
(* A cached graph holds addresses: its prompt rows are a view of the       *)
(* staging tensor, all its other tensors lie in the one buffer of the      *)
(* graph allocator that every graph shares.  Either may be replaced when a *)
(* later step needs more, so buffers are told apart by number here, and a  *)
(* graph remembers the ones it was built on.                               *)
(***************************************************************************)
EXTENDS Integers, Sequences, SequencesExt

CONSTANTS
    Shapes,       \* graph signatures (equal: the same graph can be used again)
    NoShape,      \* no step is staged
    PromptRows,   \* for each, its prompt tokens: rows of the staging tensor
    Memory,       \* for each, the allocator's buffer it needs
    MaxPacked,    \* kMaxPackedTokens
    MaxEntries,   \* the largest graph_cache_capacity_ (64 in the code)
    AllocCanFail, \* whether the device may run out of memory in the allocator
    MaxBuffers    \* bound of the model: buffers made in a run, of each sort

ASSUME CacheAssumption ==
    /\ NoShape \notin Shapes
    /\ PromptRows \in [Shapes -> 0 .. MaxPacked]
    /\ Memory \in [Shapes -> Nat \ {0}]
    /\ MaxPacked \in Nat \ {0}
    /\ MaxEntries \in Nat \ {0}
    /\ AllocCanFail \in BOOLEAN
    /\ MaxBuffers \in Nat

VARIABLES
    staging_tensor, \* the staging tensor: its buffer's number and its capacity
    allocator,      \* the allocator: its buffer's generation and size
    graph_cache,    \* the cached graphs, the one used last first
    observed,       \* graph_shape_observations_, up to 2: only 0 matters
    capacity,       \* graph_cache_capacity_
    staged,         \* the step that stage_inputs left ready, or NoShape
    newer           \* <<x, y>>: x was computed since y was, if y ever was

cacheVars == <<staging_tensor, allocator, graph_cache, observed, capacity, staged, newer>>

Graph == [shape : Shapes, rows : Nat, memory : Nat]

CacheInit ==
    /\ staging_tensor = [buffer |-> 0, capacity |-> 0]
    /\ allocator = [generation |-> 0, size |-> 0]
    /\ graph_cache = <<>>
    /\ observed = [s \in Shapes |-> 0]
    /\ capacity \in 1 .. MaxEntries
    /\ staged = NoShape
    /\ newer = {}

-----------------------------------------------------------------------------
(***************************************************************************)
(* stage_inputs.                                                           *)
(***************************************************************************)

\* ensure_capacity: the tensor there is, doubled until it is enough, or the
\* largest one.
NewCapacity(want) ==
    IF staging_tensor.capacity = 0 THEN want
    ELSE Min({n \in want .. MaxPacked :
                n = MaxPacked \/ \E i \in 0 .. want : n = staging_tensor.capacity * 2 ^ i})

\* The inputs are refused, or the device has no memory for the new tensor.
StageFails ==
    /\ staged' = NoShape
    /\ UNCHANGED <<staging_tensor, allocator, graph_cache, observed, capacity, newer>>

StageInPlace(s) ==
    /\ staging_tensor.capacity >= PromptRows[s]
    /\ staged' = s
    /\ UNCHANGED <<staging_tensor, allocator, graph_cache, observed, capacity, newer>>

\* Faulty variant: the graphs survive the tensor, or the buffer, they point into.
CacheKept == graph_cache

\* The cached graphs show the old tensor: they go before it does.
CacheAfterGrowth == <<>>

StageGrowing(s) ==
    /\ staging_tensor.capacity < PromptRows[s]
    /\ staging_tensor.buffer < MaxBuffers
    /\ staging_tensor' = [buffer   |-> staging_tensor.buffer + 1,
                          capacity |-> NewCapacity(PromptRows[s])]
    /\ graph_cache' = CacheAfterGrowth
    /\ staged' = s
    /\ UNCHANGED <<allocator, observed, capacity, newer>>

-----------------------------------------------------------------------------
(***************************************************************************)
(* execute_paged.  Its early refusals come before anything is changed.     *)
(***************************************************************************)

Cached(s) == {k \in DOMAIN graph_cache : graph_cache[k].shape = s}

Observe(s) == observed' = [observed EXCEPT ![s] = IF @ < 2 THEN @ + 1 ELSE 2]

\* The graph has been computed: its shape is the one used last.
Computed(s) ==
    newer' = {p \in newer : s \notin {p[1], p[2]}} \union {<<s, x>> : x \in Shapes \ {s}}

\* A failure after the graph is in place drops every graph.
Failed == graph_cache' = <<>> /\ UNCHANGED newer

\* Faulty variant: a hit leaves the graph where it is.
LeftInPlace(k) == graph_cache

MovedToFront(k) == <<graph_cache[k]>> \o RemoveAt(graph_cache, k)

ExecuteCached(s) ==
    /\ staged = s
    /\ \E k \in Cached(s) :
        \/ graph_cache' = MovedToFront(k) /\ Computed(s)
        \/ Failed
    /\ Observe(s)
    /\ UNCHANGED <<staging_tensor, allocator, capacity, staged>>

NewGraph(s, generation) == [shape |-> s, rows |-> staging_tensor.buffer, memory |-> generation]

\* A shape met for the second time is kept, and the least recent make room;
\* one met for the first time is computed and forgotten.
Retained(s, cached, generation) ==
    IF observed[s] > 0
      THEN <<NewGraph(s, generation)>> \o
           SubSeq(cached, 1, IF Len(cached) < capacity THEN Len(cached)
                                                       ELSE capacity - 1)
      ELSE cached

\* ggml_gallocr_alloc_graph finds the buffer large enough.
BuildInPlace(s) ==
    /\ staged = s
    /\ Cached(s) = {}
    /\ Memory[s] <= allocator.size
    /\ \/ /\ graph_cache' = Retained(s, graph_cache, allocator.generation)
          /\ Computed(s)
       \/ Failed
    /\ Observe(s)
    /\ UNCHANGED <<staging_tensor, allocator, capacity, staged>>

\* Faulty variant: a buffer made where there is none replaces nothing.
CacheUnlessFirst == IF allocator.size = 0 THEN graph_cache ELSE <<>>

\* It replaces the buffer: the generation differs after the call, and the
\* graphs that point into the old one are dropped.
CacheAfterRealloc == <<>>

BuildGrowing(s) ==
    /\ staged = s
    /\ Cached(s) = {}
    /\ Memory[s] > allocator.size
    /\ allocator.generation < MaxBuffers
    /\ allocator' = [generation |-> allocator.generation + 1, size |-> Memory[s]]
    /\ \/ /\ graph_cache' = Retained(s, CacheAfterRealloc, allocator.generation + 1)
          /\ Computed(s)
       \/ Failed
    /\ Observe(s)
    /\ UNCHANGED <<staging_tensor, capacity, staged>>

\* It frees the buffer, counts that, and finds no memory for a larger one:
\* the step returns before it compares the generations.
BuildOutOfMemory(s) ==
    /\ AllocCanFail
    /\ staged = s
    /\ Cached(s) = {}
    /\ Memory[s] > allocator.size
    /\ allocator.generation < MaxBuffers
    /\ allocator' = [generation |-> allocator.generation + 1, size |-> 0]
    /\ Observe(s)
    /\ UNCHANGED <<staging_tensor, graph_cache, capacity, staged, newer>>

\* The host has no memory for the graph itself.
BuildRefused(s) ==
    /\ staged = s
    /\ Cached(s) = {}
    /\ Observe(s)
    /\ UNCHANGED <<staging_tensor, allocator, graph_cache, capacity, staged, newer>>

SetCapacity(n) ==
    /\ capacity' = n
    /\ graph_cache' = SubSeq(graph_cache, 1, IF Len(graph_cache) <= n
                                               THEN Len(graph_cache) ELSE n)
    /\ UNCHANGED <<staging_tensor, allocator, observed, staged, newer>>

CacheNext ==
    \/ StageFails
    \/ \E s \in Shapes : StageInPlace(s)
    \/ \E s \in Shapes : StageGrowing(s)
    \/ \E s \in Shapes : ExecuteCached(s)
    \/ \E s \in Shapes : BuildInPlace(s)
    \/ \E s \in Shapes : BuildGrowing(s)
    \/ \E s \in Shapes : BuildOutOfMemory(s)
    \/ \E s \in Shapes : BuildRefused(s)
    \/ \E n \in 1 .. MaxEntries : SetCapacity(n)

CacheSpec == CacheInit /\ [][CacheNext]_cacheVars

-----------------------------------------------------------------------------
(***************************************************************************)
(* Properties.                                                             *)
(***************************************************************************)

(***************************************************************************)
(* The state is well formed; between two calls the cache holds at most     *)
(* graph_cache_capacity_ graphs, one of a shape, and none of the shapes    *)
(* met only once, whichever steps failed on the way.                       *)
(***************************************************************************)
CacheTypeOK ==
    /\ staging_tensor \in [buffer : 0 .. MaxBuffers, capacity : 0 .. MaxPacked]
    /\ allocator.generation \in 0 .. MaxBuffers
    /\ allocator.size \in {0} \union {Memory[s] : s \in Shapes}
    /\ graph_cache \in Seq(Graph)
    /\ observed \in [Shapes -> 0 .. 2]
    /\ capacity \in 1 .. MaxEntries
    /\ staged \in Shapes \union {NoShape}
    /\ newer \subseteq Shapes \X Shapes
    /\ Len(graph_cache) <= capacity
    /\ \A j, k \in DOMAIN graph_cache :
          graph_cache[j].shape = graph_cache[k].shape => j = k
    /\ \A k \in DOMAIN graph_cache : observed[graph_cache[k].shape] = 2

(***************************************************************************)
(* Prompt rows are read from the staging tensor there is: no cached graph  *)
(* reads them from one that was replaced, where a later step of its shape  *)
(* would compute on freed rows, and a step that is ready fits the tensor,  *)
(* also after steps that failed to be staged or that made it grow.         *)
(***************************************************************************)
PromptRowsCurrent ==
    /\ staged # NoShape => PromptRows[staged] <= staging_tensor.capacity
    /\ \A k \in DOMAIN graph_cache :
          PromptRows[graph_cache[k].shape] > 0 => graph_cache[k].rows = staging_tensor.buffer

(***************************************************************************)
(* No cached graph points into an allocator buffer that was replaced: the  *)
(* purpose of the buffer generation that the runtime patch adds.           *)
(***************************************************************************)
GraphMemoryCurrent ==
    \A k \in DOMAIN graph_cache : graph_cache[k].memory = allocator.generation

(***************************************************************************)
(* Whenever the allocator has a buffer the cached graphs point into it: a  *)
(* buffer that was freed for want of memory is noticed, by its generation, *)
(* with the next one that is found.                                        *)
(***************************************************************************)
BufferIsCurrent == allocator.size > 0 => GraphMemoryCurrent

(***************************************************************************)
(* The cache lists its graphs from the shape computed last to the one      *)
(* computed longest ago, so what is evicted is what was not used longest.  *)
(***************************************************************************)
EvictsLeastRecent ==
    \A j, k \in DOMAIN graph_cache :
        j < k => <<graph_cache[j].shape, graph_cache[k].shape>> \in newer
=============================================================================
