---------------------------- MODULE HostSession ----------------------------
(***************************************************************************)
(* The host runner of a multi-pair session,                                *)
(* cli/run_fpga_bv_keyreuse_multi_pair_session.py, from the download of    *)
(* the overlay to the release of its buffers: the profile-table upload,    *)
(* the choice of a send storage and its fallbacks, the warm-up and the     *)
(* timed sessions.  It runs against a CPU cache that DMA does not see, an  *)
(* AXI DMA with one transfer per channel, a session device that answers    *)
(* each pair frame with one row of results, and an allocator that refuses  *)
(* or misplaces buffers.                                                   *)
(***************************************************************************)
EXTENDS Integers, Sequences, FiniteSets

CONSTANTS
  PairCount,      \* pairs of a session
  TimedRuns,      \* sessions after the warm-up one
  TableSize, FrameSize, ResultSize,  \* sizes: table, one pair frame, one row
  Capacities, Contiguities, HandleCounts,  \* what the allocator may have
  MaxMisplaced,   \* buffers that come back misaligned
  MaxErrors       \* DMA waits that raise

ASSUME HostAssumption ==
  /\ {PairCount, TimedRuns} \subseteq Nat \ {0}
  /\ {TableSize, FrameSize, ResultSize} \subseteq Nat \ {0}
  /\ Capacities \union Contiguities \union HandleCounts \subseteq Nat
  /\ {MaxMisplaced, MaxErrors} \subseteq Nat

VARIABLES
  pc, outcome,    \* where main() is, and how its try block ended
  requested, mode,  \* args.send_buffer_mode, selected_send_buffer_mode
  heap, held, misplaced,  \* the allocator: its limits, live and odd buffers
  named,          \* buffers main()'s variables refer to: what finally frees
  index,          \* pair_index
  runs, rows,     \* sessions validated, rows the last validation compared
  mem,            \* memory, the CPU's cache and its dirty lines
  mm2s, s2mm,     \* the two DMA channels
  errors,         \* waits that have raised
  device          \* frames the device has consumed, rows it has sent

hostVars == <<pc, outcome, requested, mode, named, index, runs, rows>>
heapVars == <<heap, held, misplaced>>
dmaVars  == <<mm2s, s2mm, errors, device>>
vars     == <<hostVars, heapVars, mem, dmaVars>>

Pairs == 0..(PairCount - 1)
Heaps == [capacity: Capacities, contiguous: Contiguities, handles: HandleCounts]
Modes == {"arena-cma", "all-cma", "reuse-copy"}

-----------------------------------------------------------------------------
(* Buffers, the rows they consist of, and what a row can hold.             *)
Table    == <<"profile", 0>>
Arena    == <<"arena", 0>>
Frame(p) == <<"frame", p>>
Reusable == <<"reusable", 0>>
Receive  == <<"receive", 0>>
Frames   == {Frame(p) : p \in Pairs}
Buffers  == {Table, Arena, Reusable, Receive} \union Frames

RowsOf(b) == IF b \in {Arena, Receive} THEN {b} \X Pairs ELSE {<<b, 0>>}
Rows      == UNION {RowsOf(b) : b \in Buffers}

Size(b) ==
  CASE b = Table   -> TableSize
    [] b = Arena   -> PairCount * FrameSize
    [] b = Receive -> PairCount * ResultSize
    [] OTHER       -> FrameSize

Junk         == [is |-> "junk"]
Zero         == [is |-> "zero"]
TableFrame   == [is |-> "table"]
PairFrame(p) == [is |-> "pair", pair |-> p]
Result(s, p) == [is |-> "result", session |-> s, pair |-> p]
Uncached     == [is |-> "uncached"]

-----------------------------------------------------------------------------
(* The allocator.                                                          *)
Used == (IF Table \in held THEN TableSize ELSE 0)
        + (IF Arena \in held THEN Size(Arena) ELSE 0)
        + (IF Receive \in held THEN Size(Receive) ELSE 0)
        + FrameSize * Cardinality(held \ {Table, Arena, Receive})

Fits(b) == /\ Used + Size(b) <= heap.capacity
           /\ Size(b) <= heap.contiguous
           /\ Cardinality(held) < heap.handles

Granted(b)   == Fits(b) /\ UNCHANGED misplaced
Misplaced(b) == /\ Fits(b) /\ Cardinality(misplaced) < MaxMisplaced
                /\ misplaced' = misplaced \union {b}
Refused(b)   == ~Fits(b) /\ UNCHANGED misplaced

-----------------------------------------------------------------------------
(* Memory and the CPU's cache.                                             *)
Write(m, data) ==  \* data: a function from rows to contents
  [m EXCEPT !.cache = [r \in Rows |-> IF r \in DOMAIN data THEN data[r] ELSE @[r]],
            !.dirty = @ \union DOMAIN data]
Flush(m, b) ==
  [m EXCEPT !.dram  = [r \in Rows |-> IF r \in m.dirty \intersect RowsOf(b)
                                        THEN m.cache[r] ELSE @[r]],
            !.dirty = @ \ RowsOf(b)]
Invalidate(m, b) ==
  [m EXCEPT !.cache = [r \in Rows |-> IF r \in RowsOf(b) THEN Uncached ELSE @[r]],
            !.dirty = @ \ RowsOf(b)]
Load(m, r) == IF m.cache[r] = Uncached THEN m.dram[r] ELSE m.cache[r]

(* The cache may write a dirty row back, or fetch a row, at any time.       *)
Evict ==
  \E r \in mem.dirty :
    /\ mem' = [mem EXCEPT !.dram[r] = mem.cache[r], !.cache[r] = Uncached,
                          !.dirty = @ \ {r}]
    /\ UNCHANGED <<hostVars, heapVars, dmaVars>>
Fetch ==
  \E b \in held : \E r \in RowsOf(b) :
    /\ mem.cache[r] = Uncached
    /\ mem' = [mem EXCEPT !.cache[r] = mem.dram[r]]
    /\ UNCHANGED <<hostVars, heapVars, dmaVars>>

-----------------------------------------------------------------------------
(* Endings of main().                                                      *)
Goto(label) == pc' = label /\ UNCHANGED outcome
Raise       == pc' = "finally" /\ outcome' = "raised"

Init ==
  /\ pc = "profile" /\ outcome = "none"
  /\ requested \in Modes \union {"auto"} /\ mode = requested
  /\ heap \in Heaps /\ held = {} /\ misplaced = {} /\ named = {}
  /\ index = 0 /\ runs = 0 /\ rows = <<>>
  /\ mem = [dram  |-> [r \in Rows |-> Junk],
            cache |-> [r \in Rows |-> Uncached], dirty |-> {}]
  /\ mm2s = <<>> /\ s2mm = [row |-> 0, left |-> 0] /\ errors = 0
  /\ device = [consumed |-> <<>>, sent |-> 0]

-----------------------------------------------------------------------------
(* The profile table.                                                      *)
AllocateProfile ==
  /\ pc = "profile"
  /\ \/ Granted(Table) /\ held' = held \union {Table} /\ Goto("fillTable")
     \/ Misplaced(Table) /\ held' = held \union {Table} /\ Raise
     \/ Refused(Table) /\ pc' = "ended" /\ outcome' = "raised" /\ UNCHANGED held
  /\ UNCHANGED <<requested, mode, named, index, runs, rows, heap, mem, dmaVars>>

FillTable ==
  /\ pc = "fillTable" /\ Goto("sendTable")
  /\ mem' = Write(mem, [r \in RowsOf(Table) |-> TableFrame])
  /\ UNCHANGED <<requested, mode, named, index, runs, rows, heapVars, dmaVars>>

SendTable ==
  /\ pc = "sendTable" /\ mm2s = <<>> /\ Goto("awaitTable")
  /\ mem' = Flush(mem, Table) /\ mm2s' = <<Table, 0>>
  /\ UNCHANGED <<requested, mode, named, index, runs, rows, heapVars,
                 s2mm, errors, device>>

AwaitTable ==
  /\ pc = "awaitTable" /\ mm2s = <<>>
  /\ Goto(CASE mode \in {"auto", "arena-cma"} -> "arena"
            [] mode = "all-cma"               -> "frames"
            [] mode = "reuse-copy"            -> "reusable")
  /\ UNCHANGED <<requested, mode, named, index, runs, rows, heapVars, mem, dmaVars>>

-----------------------------------------------------------------------------
(* The send storage.  A helper frees what it allocated before it re-raises; *)
(* main() frees what it has been handed.                                   *)
Filled(b, data) == mem' = Flush(Write(mem, data), b)

AllocateArena ==
  /\ pc = "arena"
  /\ \/ /\ Granted(Arena) /\ Goto("arenaReceive")
        /\ held' = held \union {Arena} /\ named' = named \union {Arena}
        /\ Filled(Arena, [r \in RowsOf(Arena) |-> PairFrame(r[2])])
     \/ /\ Misplaced(Arena) \/ Refused(Arena)
        /\ Goto("arenaFailed") /\ UNCHANGED <<held, named, mem>>
  /\ UNCHANGED <<requested, mode, index, runs, rows, heap, dmaVars>>

(* A slip: the helper re-raises without freeing the frames it has.         *)
AllocateFrame_keeps ==
  /\ pc = "frames"
  /\ \/ /\ Granted(Frame(index))
        /\ held' = held \union {Frame(index)}
        /\ Filled(Frame(index), [r \in RowsOf(Frame(index)) |-> PairFrame(index)])
        /\ IF index + 1 = PairCount
             THEN Goto("framesReceive") /\ index' = 0 /\ named' = named \union Frames
             ELSE Goto("frames") /\ index' = index + 1 /\ UNCHANGED named
     \/ /\ Misplaced(Frame(index)) \/ Refused(Frame(index))
        /\ Goto("framesFailed") /\ index' = 0 /\ UNCHANGED <<held, named, mem>>
  /\ UNCHANGED <<requested, mode, runs, rows, heap, dmaVars>>
AllocateFrame ==
  /\ pc = "frames"
  /\ \/ /\ Granted(Frame(index))
        /\ held' = held \union {Frame(index)}
        /\ Filled(Frame(index), [r \in RowsOf(Frame(index)) |-> PairFrame(index)])
        /\ IF index + 1 = PairCount
             THEN Goto("framesReceive") /\ index' = 0 /\ named' = named \union Frames
             ELSE Goto("frames") /\ index' = index + 1 /\ UNCHANGED named
     \/ /\ Misplaced(Frame(index)) \/ Refused(Frame(index))
        /\ held' = held \ Frames
        /\ Goto("framesFailed") /\ index' = 0 /\ UNCHANGED <<named, mem>>
  /\ UNCHANGED <<requested, mode, runs, rows, heap, dmaVars>>

(* A misaligned reusable buffer raises before send_buffers refers to it.   *)
AllocateReusable ==
  /\ pc = "reusable"
  /\ \/ /\ Granted(Reusable) /\ Goto("reusableReceive")
        /\ held' = held \union {Reusable} /\ named' = named \union {Reusable}
     \/ /\ Misplaced(Reusable) /\ Raise
        /\ held' = held \union {Reusable} /\ UNCHANGED named
     \/ Refused(Reusable) /\ Raise /\ UNCHANGED <<held, named>>
  /\ UNCHANGED <<requested, mode, index, runs, rows, heap, mem, dmaVars>>

(* The receive buffer, after the storage of mode m.                        *)
AllocateReceive(m, storage, Failed) ==
  /\ pc = storage
  /\ \/ Granted(Receive) /\ Goto("zero") /\ mode' = m
     \/ (Misplaced(Receive) \/ Refused(Receive)) /\ Failed /\ UNCHANGED mode
  /\ LET got == IF Fits(Receive) THEN {Receive} ELSE {}
     IN held' = held \union got /\ named' = named \union got
  /\ UNCHANGED <<requested, index, runs, rows, heap, mem, dmaVars>>

ReceiveBuffer ==
  \/ AllocateReceive("arena-cma", "arenaReceive", Goto("arenaFailed"))
  \/ AllocateReceive("all-cma", "framesReceive", Goto("framesFailed"))
  \/ AllocateReceive("reuse-copy", "reusableReceive", Raise)

(* The two except clauses: free, and fall back unless asked for this mode. *)
Abandon(buffers) == held' = held \ (named \intersect buffers)
                    /\ named' = named \ buffers
(* A slip: the requested mode is not looked at.                            *)
ArenaFallback_always ==
  /\ pc = "arenaFailed"
  /\ Abandon({Receive, Arena})
  /\ Goto("frames") /\ mode' = "auto"
  /\ UNCHANGED <<requested, index, runs, rows, heap, misplaced, mem, dmaVars>>
ArenaFallback ==
  /\ pc = "arenaFailed"
  /\ Abandon({Receive, Arena})
  /\ IF requested = "arena-cma"
       THEN Raise /\ UNCHANGED mode
       ELSE Goto("frames") /\ mode' = "auto"
  /\ UNCHANGED <<requested, index, runs, rows, heap, misplaced, mem, dmaVars>>
FramesFallback ==
  /\ pc = "framesFailed"
  /\ Abandon({Receive} \union Frames)
  /\ IF requested = "all-cma"
       THEN Raise /\ UNCHANGED mode
       ELSE Goto("reusable") /\ mode' = "reuse-copy"
  /\ UNCHANGED <<requested, index, runs, rows, heap, misplaced, mem, dmaVars>>

-----------------------------------------------------------------------------
(* run_multi_pair_session.                                                 *)
ZeroReceive ==
  /\ pc = "zero" /\ Goto("arm")
  /\ mem' = Write(mem, [r \in RowsOf(Receive) |-> Zero])
  /\ UNCHANGED <<requested, mode, named, index, runs, rows, heapVars, dmaVars>>

(* Slips: only the warm-up session is armed; the zeroes are not flushed.   *)
ArmReceive_once ==
  /\ pc = "arm" /\ s2mm.left = 0 /\ Goto("send")
  /\ mem' = Flush(mem, Receive)
  /\ s2mm' = [row |-> 0, left |-> IF runs = 0 THEN PairCount ELSE 0]
  /\ UNCHANGED <<requested, mode, named, index, runs, rows, heapVars,
                 mm2s, errors, device>>
ArmReceive_unflushed ==
  /\ pc = "arm" /\ s2mm.left = 0 /\ Goto("send")
  /\ s2mm' = [row |-> 0, left |-> PairCount]
  /\ UNCHANGED <<requested, mode, named, index, runs, rows, heapVars,
                 mem, mm2s, errors, device>>
ArmReceive ==
  /\ pc = "arm" /\ s2mm.left = 0 /\ Goto("send")
  /\ mem' = Flush(mem, Receive)
  /\ s2mm' = [row |-> 0, left |-> PairCount]
  /\ UNCHANGED <<requested, mode, named, index, runs, rows, heapVars,
                 mm2s, errors, device>>

CopyFrame ==
  /\ pc = "send" /\ mode = "reuse-copy" /\ Goto("copied")
  /\ mem' = Write(mem, [r \in RowsOf(Reusable) |-> PairFrame(index)])
  /\ UNCHANGED <<requested, mode, named, index, runs, rows, heapVars, dmaVars>>

(* A slip: the copied frame is sent without a flush.                       *)
SendCopy_unflushed ==
  /\ pc = "copied" /\ mm2s = <<>> /\ Goto("awaitSend")
  /\ mm2s' = <<Reusable, 0>>
  /\ UNCHANGED <<requested, mode, named, index, runs, rows, heapVars, mem,
                 s2mm, errors, device>>
SendCopy ==
  /\ pc = "copied" /\ mm2s = <<>> /\ Goto("awaitSend")
  /\ mem' = Flush(mem, Reusable) /\ mm2s' = <<Reusable, 0>>
  /\ UNCHANGED <<requested, mode, named, index, runs, rows, heapVars,
                 s2mm, errors, device>>

SendPrefilled ==
  /\ pc = "send" /\ mode # "reuse-copy" /\ mm2s = <<>> /\ Goto("awaitSend")
  /\ mm2s' = IF mode = "arena-cma" THEN <<Arena, index>> ELSE <<Frame(index), 0>>
  /\ UNCHANGED <<requested, mode, named, index, runs, rows, heapVars, mem,
                 s2mm, errors, device>>

AwaitSend ==
  /\ pc = "awaitSend" /\ mm2s = <<>>
  /\ IF index + 1 = PairCount
       THEN Goto("awaitReceive") /\ index' = 0
       ELSE Goto("send") /\ index' = index + 1
  /\ UNCHANGED <<requested, mode, named, runs, rows, heapVars, mem, dmaVars>>

(* A slip: the receive is not waited for.                                  *)
AwaitReceive_returns ==
  /\ pc = "awaitReceive" /\ Goto("validate")
  /\ UNCHANGED <<requested, mode, named, index, runs, rows, heapVars, mem, dmaVars>>
AwaitReceive ==
  /\ pc = "awaitReceive" /\ s2mm.left = 0 /\ Goto("validate")
  /\ UNCHANGED <<requested, mode, named, index, runs, rows, heapVars, mem, dmaVars>>

Matches(row, p) == row.is = "result" /\ row.pair = p

Validate ==
  /\ pc = "validate"
  /\ mem' = Invalidate(mem, Receive)
  /\ rows' = [p \in Pairs |-> Load(mem', <<Receive, p>>)]
  /\ IF \A p \in Pairs : Matches(rows'[p], p)
       THEN /\ runs' = runs + 1
            /\ Goto(IF runs = TimedRuns THEN "finally" ELSE "zero")
       ELSE Raise /\ UNCHANGED runs
  /\ UNCHANGED <<requested, mode, named, index, heapVars, dmaVars>>

(* The two finally clauses.                                                *)
Release ==
  /\ pc = "finally" /\ pc' = "ended"
  /\ outcome' = IF outcome = "raised" THEN "raised" ELSE "ok"
  /\ held' = held \ (named \union {Table}) /\ named' = {}
  /\ UNCHANGED <<requested, mode, index, runs, rows, heap, misplaced, mem, dmaVars>>

-----------------------------------------------------------------------------
(* The other parties: a wait that raises on a channel error, and the device. *)
WaitRaises ==
  /\ errors < MaxErrors /\ errors' = errors + 1 /\ Raise
  /\ \/ /\ pc \in {"awaitTable", "awaitSend"} /\ mm2s # <<>>
        /\ mm2s' = <<>> /\ UNCHANGED s2mm
     \/ /\ pc = "awaitReceive" /\ s2mm.left > 0
        /\ s2mm' = [s2mm EXCEPT !.left = 0] /\ UNCHANGED mm2s
  /\ UNCHANGED <<requested, mode, named, index, runs, rows, heapVars, mem, device>>

PairsTaken == Len(device.consumed) - 1
Answer(n) ==
  LET frame == device.consumed[n + 2]
  IN IF frame.is = "pair" THEN Result(n \div PairCount, frame.pair) ELSE Junk

(* A pair frame is taken once the rows of the earlier ones are out.        *)
Consume ==
  /\ mm2s # <<>>
  /\ device.sent >= PairsTaken
  /\ device' = [device EXCEPT !.consumed = Append(@, mem.dram[mm2s])]
  /\ mm2s' = <<>>
  /\ UNCHANGED <<hostVars, heapVars, mem, s2mm, errors>>

Deliver ==
  /\ device.sent < PairsTaken /\ s2mm.left > 0
  /\ mem' = [mem EXCEPT !.dram[<<Receive, s2mm.row>>] = Answer(device.sent)]
  /\ s2mm' = [row |-> s2mm.row + 1, left |-> s2mm.left - 1]
  /\ device' = [device EXCEPT !.sent = @ + 1]
  /\ UNCHANGED <<hostVars, heapVars, mm2s, errors>>

-----------------------------------------------------------------------------
Host ==
  \/ AllocateProfile \/ FillTable \/ SendTable \/ AwaitTable
  \/ AllocateArena \/ AllocateFrame \/ AllocateReusable \/ ReceiveBuffer
  \/ ArenaFallback \/ FramesFallback
  \/ ZeroReceive \/ ArmReceive \/ CopyFrame \/ SendCopy \/ SendPrefilled
  \/ AwaitSend \/ AwaitReceive \/ Validate \/ Release

Next == Host \/ WaitRaises \/ Consume \/ Deliver \/ Evict \/ Fetch

Spec     == Init /\ [][Next]_vars
FairSpec == Spec /\ WF_vars(Host) /\ WF_vars(Consume \/ Deliver)

-----------------------------------------------------------------------------
Labels ==
  {"profile", "fillTable", "sendTable", "awaitTable", "arena", "arenaReceive",
   "arenaFailed", "frames", "framesReceive", "framesFailed", "reusable",
   "reusableReceive", "zero", "arm", "send", "copied", "awaitSend",
   "awaitReceive", "validate", "finally", "ended"}

InSession == {"zero", "arm", "send", "copied", "awaitSend", "awaitReceive", "validate"}

(* The device gets the table and then, session after session, frame by      *)
(* frame, exactly what the host built, whichever storage it came from: no   *)
(* copy overtakes a transfer and none is still in the cache.                *)
ExpectedFrame(n) == IF n = 1 THEN TableFrame ELSE PairFrame((n - 2) % PairCount)
SentIsBuilt ==
  \A n \in 1..Len(device.consumed) : device.consumed[n] = ExpectedFrame(n)

(* What validate_session compares are the rows the device delivered in this *)
(* very session: never the zeroes, an earlier session's rows, or a stale    *)
(* cached copy of either.                                                   *)
ValidatedIsDelivered ==
  rows # <<>> => rows = [p \in Pairs |-> Result(runs - 1, p)]

(* Only live buffers are referred to, so none is freed twice; and when      *)
(* main() ends it holds no buffer, but for a reusable send buffer that came *)
(* back misaligned, which the code drops before it refers to it.            *)
NothingLeaked ==
  /\ named \subseteq held
  /\ pc = "ended" => held \subseteq {Reusable} \intersect misplaced

(* A session runs on the storage of its mode alone, and a mode asked for by *)
(* name is never replaced by another.                                       *)
Storage(m) ==
  CASE m = "arena-cma"  -> {Arena}
    [] m = "all-cma"    -> Frames
    [] m = "reuse-copy" -> {Reusable}
StorageMatchesMode ==
  pc \in InSession =>
    /\ mode \in Modes /\ (requested # "auto" => mode = requested)
    /\ named = Storage(mode) \union {Receive}
    /\ held = named \union {Table}

(* "auto" ends with the first mode of arena, frames, copy that would have   *)
(* fitted had it been asked for alone, and raises only if none would: what  *)
(* a failed attempt took is all back before the next one.                   *)
FitsAlone(m) ==
  LET send == Cardinality(Storage(m)) IN
  /\ TableSize + PairCount * ResultSize
       + FrameSize * (IF m = "reuse-copy" THEN 1 ELSE PairCount) <= heap.capacity
  /\ \A b \in Storage(m) \union {Table, Receive} : Size(b) <= heap.contiguous
  /\ send + 2 <= heap.handles
AutoTakesFirstThatFits ==
  (pc = "ended" /\ requested = "auto" /\ misplaced = {} /\ errors = 0) =>
    CASE FitsAlone("arena-cma")  -> outcome = "ok" /\ mode = "arena-cma"
      [] ~FitsAlone("arena-cma") /\ FitsAlone("all-cma") ->
                                    outcome = "ok" /\ mode = "all-cma"
      [] ~FitsAlone("arena-cma") /\ ~FitsAlone("all-cma") /\ FitsAlone("reuse-copy") ->
                                    outcome = "ok" /\ mode = "reuse-copy"
      [] OTHER                   -> outcome = "raised"

(* While no wait has raised, a buffer a channel works on is not freed.      *)
ChannelBuffersHeld ==
  errors = 0 =>
    /\ mm2s # <<>> => mm2s[1] \in held
    /\ s2mm.left > 0 => Receive \in held

(* The runner ends: no send waits for a receive that is not armed, and no   *)
(* receive for rows that no frame asked for.                                *)
HostEnds == <>(pc = "ended")
=============================================================================
