----------------------------- MODULE HostProofs -----------------------------
(***************************************************************************)
(* For any number of pairs and timed runs, any sizes, allocator limits and *)
(* numbers of misaligned buffers and channel errors: which buffers the     *)
(* host runner holds at each point, that it gives them back, that no       *)
(* channel works on a buffer that is gone (IInv); that, whatever the cache *)
(* does, the device gets the frames the host built and validation compares *)
(* what the device delivered (DataInv); and which storage "auto" ends with *)
(* (ChoiceInv).                                                            *)
(***************************************************************************)
EXTENDS HostSession, FiniteSetTheorems, FunctionTheorems, TLAPS

-----------------------------------------------------------------------------
(* What is held at each point of main().                                   *)
HeldInv ==
  /\ pc \in Labels
  /\ pc = "profile" => held = {} /\ named = {}
  /\ pc \in {"fillTable", "sendTable", "awaitTable", "arena", "reusable"} =>
       held = {Table} /\ named = {}
  /\ pc \in {"profile", "fillTable", "sendTable", "awaitTable", "arena",
             "arenaReceive", "arenaFailed"} => index = 0
  /\ pc = "frames" =>
       named = {} /\ Table \in held /\ held \subseteq {Table} \union Frames
       /\ index \in Pairs /\ \A p \in Pairs : p < index => Frame(p) \in held
  /\ pc \in {"arenaReceive", "arenaFailed", "framesReceive", "framesFailed",
             "reusableReceive"} \union InSession => held = named \union {Table}
  /\ pc = "arenaReceive" => named = {Arena}
  /\ pc = "arenaFailed" => named \subseteq {Arena, Receive}
  /\ pc = "framesReceive" => named = Frames
  /\ pc = "framesFailed" => named \subseteq Frames \union {Receive}
  /\ pc = "reusableReceive" => named = {Reusable}
  /\ pc \in InSession => named = Storage(mode) \union {Receive}
  /\ pc = "finally" =>
       held \subseteq named \union {Table} \union ({Reusable} \intersect misplaced)
  /\ pc \in {"finally", "ended"} => named \subseteq held
  /\ pc = "ended" => held \subseteq {Reusable} \intersect misplaced

(* Which mode is being tried at each point.                                *)
ModeInv ==
  /\ requested \in Modes \union {"auto"}
  /\ pc \in {"profile", "fillTable", "sendTable", "awaitTable"} => mode = requested
  /\ pc \in {"arena", "arenaReceive", "arenaFailed"} =>
       requested \in {"auto", "arena-cma"}
  /\ pc \in {"frames", "framesReceive", "framesFailed"} =>
       requested \in {"auto", "all-cma"}
  /\ pc \in {"reusable", "reusableReceive"} => requested \in {"auto", "reuse-copy"}
  /\ pc \in InSession => mode \in Modes /\ (requested # "auto" => mode = requested)
  /\ pc = "copied" => mode = "reuse-copy"

(* Where a transfer can be under way, and on which buffer.                 *)
ChannelInv ==
  /\ index \in Pairs
  /\ mm2s # <<>> =>
       \/ pc = "awaitTable" /\ mm2s[1] = Table
       \/ pc = "awaitSend" /\ mm2s[1] \in Storage(mode)
  /\ (errors = 0 /\ s2mm.left > 0) =>
       pc \in {"send", "copied", "awaitSend", "awaitReceive"}
  /\ errors \in Nat /\ s2mm \in [row: Int, left: Int]

IInv == HeldInv /\ ModeInv /\ ChannelInv

-----------------------------------------------------------------------------
(* The table's buffer is none of those a fallback gives back.              *)
LEMMA TableApart == Table \notin Frames /\ Table # Arena /\ Table # Receive
BY DEF Frames, Table, Frame, Arena, Receive

(* Every action keeps what is held in step with the point main() is at.    *)
LEMMA HeldStep ==
  ASSUME HeldInv, ModeInv, index \in Pairs, Next
  PROVE  HeldInv'
<1>1. CASE AllocateProfile
  BY <1>1 DEF HeldInv, Labels, InSession, AllocateProfile, Goto, Raise
<1>2. CASE FillTable
  BY <1>2 DEF HeldInv, Labels, InSession, FillTable, Goto, heapVars
<1>3. CASE SendTable
  BY <1>3 DEF HeldInv, Labels, InSession, SendTable, Goto, heapVars
<1>4. CASE AwaitTable
  <2>1. mode \in Modes \union {"auto"} /\ pc = "awaitTable"
    BY <1>4 DEF AwaitTable, ModeInv
  <2>2. pc' \in {"arena", "frames", "reusable"} /\ UNCHANGED <<held, named, index>>
    BY <2>1, <1>4 DEF AwaitTable, Goto, Modes, heapVars
  <2>3. held = {Table} /\ named = {} /\ index = 0
    BY <2>1 DEF HeldInv
  <2>4. QED BY <2>2, <2>3, HostAssumption DEF HeldInv, Labels, InSession, Pairs
<1>5. CASE AllocateArena
  BY <1>5 DEF HeldInv, Labels, InSession, AllocateArena, Goto
<1>6. CASE AllocateFrame
  BY <1>6, TableApart, HostAssumption DEF HeldInv, Labels, InSession, Pairs,
     Frames, AllocateFrame, Goto
<1>7. CASE AllocateReusable
  BY <1>7 DEF HeldInv, Labels, InSession, AllocateReusable, Goto, Raise, Misplaced
<1>8. CASE ReceiveBuffer
  BY <1>8 DEF HeldInv, Labels, InSession, Storage, ReceiveBuffer,
     AllocateReceive, Goto, Raise, Granted
<1>9. CASE ArenaFallback
  <2>1. /\ held' = held \ (named \intersect {Receive, Arena})
        /\ named' = named \ {Receive, Arena}
        /\ pc' \in {"finally", "frames"} /\ UNCHANGED index /\ pc = "arenaFailed"
    BY <1>9 DEF ArenaFallback, Abandon, Goto, Raise
  <2>2. held = named \union {Table} /\ named \subseteq {Arena, Receive} /\ index = 0
    BY <2>1 DEF HeldInv
  <2>3. held' = {Table} /\ named' = {}
    BY <2>1, <2>2, TableApart
  <2>4. QED BY <2>1, <2>2, <2>3, HostAssumption DEF HeldInv, Labels, InSession, Pairs
<1>10. CASE FramesFallback
  BY <1>10, TableApart DEF HeldInv, Labels, InSession, FramesFallback, Abandon,
     Goto, Raise
<1>11. CASE ZeroReceive
  BY <1>11 DEF HeldInv, Labels, InSession, ZeroReceive, Goto, heapVars
<1>12. CASE ArmReceive
  BY <1>12 DEF HeldInv, Labels, InSession, ArmReceive, Goto, heapVars
<1>13. CASE CopyFrame
  BY <1>13 DEF HeldInv, Labels, InSession, CopyFrame, Goto, heapVars
<1>14. CASE SendCopy
  BY <1>14 DEF HeldInv, Labels, InSession, SendCopy, Goto, heapVars
<1>15. CASE SendPrefilled
  BY <1>15 DEF HeldInv, Labels, InSession, SendPrefilled, Goto, heapVars
<1>16. CASE AwaitSend
  BY <1>16 DEF HeldInv, Labels, InSession, AwaitSend, Goto, heapVars
<1>17. CASE AwaitReceive
  BY <1>17 DEF HeldInv, Labels, InSession, AwaitReceive, Goto, heapVars
<1>18. CASE Validate
  BY <1>18 DEF HeldInv, Labels, InSession, Validate, Goto, Raise, heapVars
<1>19. CASE Release
  BY <1>19 DEF HeldInv, Labels, InSession, Release
<1>20. CASE WaitRaises
  BY <1>20 DEF HeldInv, Labels, InSession, WaitRaises, Raise, heapVars
<1>21. CASE Consume
  BY <1>21 DEF HeldInv, Consume, hostVars, heapVars
<1>22. CASE Deliver
  BY <1>22 DEF HeldInv, Deliver, hostVars, heapVars
<1>23. CASE Evict
  BY <1>23 DEF HeldInv, Evict, hostVars, heapVars
<1>24. CASE Fetch
  BY <1>24 DEF HeldInv, Fetch, hostVars, heapVars
<1>25. QED
  BY <1>1, <1>2, <1>3, <1>4, <1>5, <1>6, <1>7, <1>8, <1>9, <1>10, <1>11, <1>12,
     <1>13, <1>14, <1>15, <1>16, <1>17, <1>18, <1>19, <1>20, <1>21, <1>22,
     <1>23, <1>24 DEF Next, Host

(* Every action keeps the mode in step with the point main() is at.        *)
LEMMA ModeStep ==
  ASSUME ModeInv, HeldInv, Next
  PROVE  ModeInv'
<1>1. CASE AllocateProfile
  BY <1>1 DEF ModeInv, InSession, AllocateProfile, Goto, Raise
<1>2. CASE FillTable
  BY <1>2 DEF ModeInv, InSession, FillTable, Goto
<1>3. CASE SendTable
  BY <1>3 DEF ModeInv, InSession, SendTable, Goto
<1>4. CASE AwaitTable
  BY <1>4 DEF ModeInv, InSession, Modes, AwaitTable, Goto
<1>5. CASE AllocateArena
  BY <1>5 DEF ModeInv, InSession, AllocateArena, Goto
<1>6. CASE AllocateFrame
  BY <1>6 DEF ModeInv, InSession, AllocateFrame, Goto
<1>7. CASE AllocateReusable
  BY <1>7 DEF ModeInv, InSession, AllocateReusable, Goto, Raise
<1>8. CASE ReceiveBuffer
  BY <1>8 DEF ModeInv, InSession, Modes, ReceiveBuffer, AllocateReceive, Goto, Raise
<1>9. CASE ArenaFallback
  BY <1>9 DEF ModeInv, InSession, ArenaFallback, Abandon, Goto, Raise
<1>10. CASE FramesFallback
  BY <1>10 DEF ModeInv, InSession, FramesFallback, Abandon, Goto, Raise
<1>11. CASE ZeroReceive
  BY <1>11 DEF ModeInv, InSession, ZeroReceive, Goto
<1>12. CASE ArmReceive
  BY <1>12 DEF ModeInv, InSession, ArmReceive, Goto
<1>13. CASE CopyFrame
  BY <1>13 DEF ModeInv, InSession, CopyFrame, Goto
<1>14. CASE SendCopy
  BY <1>14 DEF ModeInv, InSession, SendCopy, Goto
<1>15. CASE SendPrefilled
  BY <1>15 DEF ModeInv, InSession, SendPrefilled, Goto
<1>16. CASE AwaitSend
  BY <1>16 DEF ModeInv, InSession, AwaitSend, Goto
<1>17. CASE AwaitReceive
  BY <1>17 DEF ModeInv, InSession, AwaitReceive, Goto
<1>18. CASE Validate
  BY <1>18 DEF ModeInv, InSession, Validate, Goto, Raise
<1>19. CASE Release
  BY <1>19 DEF ModeInv, InSession, Release
<1>20. CASE WaitRaises
  BY <1>20 DEF ModeInv, InSession, WaitRaises, Raise
<1>21. CASE Consume
  BY <1>21 DEF ModeInv, Consume, hostVars
<1>22. CASE Deliver
  BY <1>22 DEF ModeInv, Deliver, hostVars
<1>23. CASE Evict
  BY <1>23 DEF ModeInv, Evict, hostVars
<1>24. CASE Fetch
  BY <1>24 DEF ModeInv, Fetch, hostVars
<1>25. QED
  BY <1>1, <1>2, <1>3, <1>4, <1>5, <1>6, <1>7, <1>8, <1>9, <1>10, <1>11, <1>12,
     <1>13, <1>14, <1>15, <1>16, <1>17, <1>18, <1>19, <1>20, <1>21, <1>22,
     <1>23, <1>24 DEF Next, Host

(* Every action keeps the channels on buffers of the point main() is at.   *)
LEMMA ChannelStep ==
  ASSUME ChannelInv, HeldInv, ModeInv, Next
  PROVE  ChannelInv'
<1>1. CASE AllocateProfile
  BY <1>1 DEF ChannelInv, AllocateProfile, dmaVars
<1>2. CASE FillTable
  BY <1>2 DEF ChannelInv, FillTable, dmaVars
<1>3. CASE SendTable
  BY <1>3 DEF ChannelInv, SendTable, Goto
<1>4. CASE AwaitTable
  BY <1>4 DEF ChannelInv, AwaitTable, dmaVars
<1>5. CASE AllocateArena
  BY <1>5 DEF ChannelInv, AllocateArena, dmaVars
<1>6. CASE AllocateFrame
  BY <1>6, HostAssumption DEF ChannelInv, Pairs, AllocateFrame, dmaVars
<1>7. CASE AllocateReusable
  BY <1>7 DEF ChannelInv, AllocateReusable, dmaVars
<1>8. CASE ReceiveBuffer
  BY <1>8 DEF ChannelInv, ReceiveBuffer, AllocateReceive, dmaVars
<1>9. CASE ArenaFallback
  BY <1>9 DEF ChannelInv, ArenaFallback, Abandon, dmaVars
<1>10. CASE FramesFallback
  BY <1>10 DEF ChannelInv, FramesFallback, Abandon, dmaVars
<1>11. CASE ZeroReceive
  BY <1>11 DEF ChannelInv, ZeroReceive, dmaVars
<1>12. CASE ArmReceive
  BY <1>12, HostAssumption DEF ChannelInv, ArmReceive, Goto
<1>13. CASE CopyFrame
  BY <1>13 DEF ChannelInv, CopyFrame, Goto, dmaVars
<1>14. CASE SendCopy
  <2>1. /\ pc = "copied" /\ pc' = "awaitSend" /\ mm2s' = <<Reusable, 0>>
        /\ UNCHANGED <<mode, index, s2mm, errors>>
    BY <1>14 DEF SendCopy, Goto
  <2>2. mm2s'[1] = Reusable
    BY <2>1
  <2>3. mode = "reuse-copy"
    BY <2>1 DEF ModeInv
  <2>4. QED BY <2>1, <2>2, <2>3 DEF ChannelInv, Storage
<1>15. CASE SendPrefilled
  <2>1. /\ pc = "send" /\ pc' = "awaitSend" /\ mode # "reuse-copy"
        /\ mm2s' = IF mode = "arena-cma" THEN <<Arena, index>> ELSE <<Frame(index), 0>>
        /\ UNCHANGED <<mode, index, s2mm, errors>>
    BY <1>15 DEF SendPrefilled, Goto
  <2>2. mode \in {"arena-cma", "all-cma"}
    BY <2>1 DEF ModeInv, InSession, Modes
  <2>3. mm2s'[1] \in Storage(mode)
    BY <2>1, <2>2 DEF Storage, Frames, ChannelInv
  <2>4. QED BY <2>1, <2>3 DEF ChannelInv, Storage
<1>16. CASE AwaitSend
  BY <1>16, HostAssumption DEF ChannelInv, Pairs, AwaitSend, Goto, dmaVars
<1>17. CASE AwaitReceive
  BY <1>17 DEF ChannelInv, AwaitReceive, dmaVars
<1>18. CASE Validate
  BY <1>18 DEF ChannelInv, Validate, dmaVars
<1>19. CASE Release
  BY <1>19 DEF ChannelInv, Release, dmaVars
<1>20. CASE WaitRaises
  <2>1. /\ errors' = errors + 1 /\ pc' = "finally" /\ mm2s' = <<>> /\ UNCHANGED index
        /\ UNCHANGED s2mm \/ s2mm' = [s2mm EXCEPT !.left = 0]
    BY <1>20 DEF WaitRaises, Raise, ChannelInv
  <2>2. QED BY <2>1 DEF ChannelInv
<1>21. CASE Consume
  BY <1>21 DEF ChannelInv, Consume, hostVars
<1>22. CASE Deliver
  <2>1. /\ s2mm.left > 0 /\ s2mm' = [row |-> s2mm.row + 1, left |-> s2mm.left - 1]
        /\ UNCHANGED <<pc, mode, index, mm2s, errors>>
    BY <1>22 DEF Deliver, hostVars
  <2>2. s2mm' \in [row: Int, left: Int]
    BY <2>1 DEF ChannelInv
  <2>3. Storage(mode)' = Storage(mode)
    BY <2>1 DEF Storage
  <2>4. QED BY <2>1, <2>2, <2>3 DEF ChannelInv
<1>23. CASE Evict
  BY <1>23 DEF ChannelInv, Evict, hostVars, dmaVars
<1>24. CASE Fetch
  BY <1>24 DEF ChannelInv, Fetch, hostVars, dmaVars
<1>25. QED
  BY <1>1, <1>2, <1>3, <1>4, <1>5, <1>6, <1>7, <1>8, <1>9, <1>10, <1>11, <1>12,
     <1>13, <1>14, <1>15, <1>16, <1>17, <1>18, <1>19, <1>20, <1>21, <1>22,
     <1>23, <1>24 DEF Next, Host

-----------------------------------------------------------------------------
(* It holds where main() begins.                                          *)
LEMMA InitIInv == Init => IInv
<1> SUFFICES ASSUME Init PROVE IInv
  OBVIOUS
<1>1. HeldInv
  BY DEF Init, HeldInv, Labels, InSession
<1>2. ModeInv
  BY DEF Init, ModeInv, InSession
<1>3. ChannelInv
  BY HostAssumption DEF Init, ChannelInv, Pairs
<1>4. QED BY <1>1, <1>2, <1>3 DEF IInv

(* No step breaks it.                                                      *)
LEMMA Inductive == IInv /\ [Next]_vars => IInv'
<1> SUFFICES ASSUME IInv, [Next]_vars PROVE IInv'
  OBVIOUS
<1>1. CASE Next
  BY <1>1, HeldStep, ModeStep, ChannelStep DEF IInv, ChannelInv
<1>2. CASE UNCHANGED vars
  <2>1. UNCHANGED <<pc, requested, mode, named, index, held, misplaced, mm2s, s2mm, errors>>
    BY <1>2 DEF vars, hostVars, heapVars, dmaVars
  <2>2. Storage(mode)' = Storage(mode)
    BY <2>1 DEF Storage
  <2>3. HeldInv'
    BY <2>1, <2>2 DEF IInv, HeldInv
  <2>4. ModeInv'
    BY <2>1 DEF IInv, ModeInv
  <2>5. ChannelInv'
    BY <2>1, <2>2 DEF IInv, ChannelInv
  <2>6. QED BY <2>3, <2>4, <2>5 DEF IInv
<1>3. QED BY <1>1, <1>2

(* Hence at every point of every run.                                      *)
LEMMA Invariant == Spec => []IInv
<1>1. QED BY InitIInv, Inductive, PTL DEF Spec

(* At its end the runner holds no buffer, but for a misaligned reusable    *)
(* one, whichever allocation, alignment or wait failed on the way.         *)
THEOREM HostNothingLeaked == Spec => []NothingLeaked
<1>1. HeldInv => named \subseteq held
  BY DEF HeldInv, Labels, InSession
<1>2. IInv => NothingLeaked
  BY <1>1 DEF IInv, HeldInv, NothingLeaked
<1>3. QED BY <1>2, Invariant, PTL

(* A session runs on the storage of its mode alone, and a mode asked for   *)
(* by name is never replaced by another.                                   *)
THEOREM HostStorageMatchesMode == Spec => []StorageMatchesMode
<1>1. IInv => StorageMatchesMode
  BY DEF IInv, HeldInv, ModeInv, StorageMatchesMode, InSession
<1>2. QED BY <1>1, Invariant, PTL

(* While no wait has raised, no channel works on a buffer that is freed.   *)
THEOREM HostChannelBuffersHeld == Spec => []ChannelBuffersHeld
<1>1. IInv => ChannelBuffersHeld
  <2> SUFFICES ASSUME IInv, errors = 0
               PROVE  /\ mm2s # <<>> => mm2s[1] \in held
                      /\ s2mm.left > 0 => Receive \in held
    BY DEF ChannelBuffersHeld
  <2>1. pc \in InSession => Storage(mode) \union {Receive} \subseteq held
    BY DEF IInv, HeldInv
  <2>2. pc = "awaitTable" => Table \in held
    BY DEF IInv, HeldInv
  <2>3. mm2s # <<>> => mm2s[1] \in held
    BY <2>1, <2>2 DEF IInv, ChannelInv, InSession
  <2>4. s2mm.left > 0 => Receive \in held
    BY <2>1 DEF IInv, ChannelInv, InSession
  <2>5. QED BY <2>3, <2>4
<1>2. QED BY <1>1, Invariant, PTL

-----------------------------------------------------------------------------
(* What memory holds of the frames and the results, and how far the device *)
(* is, at each point of main().                                            *)
Loading   == {"profile", "fillTable", "sendTable"}
Settled   == {"arena", "arenaReceive", "arenaFailed", "frames", "framesReceive",
              "framesFailed", "reusable", "reusableReceive", "zero", "arm"}
Receiving == {"send", "copied", "awaitSend", "awaitReceive", "validate"}

(* What was written to a row last, and a row whose memory holds it.        *)
Current(r)     == IF r \in mem.dirty THEN mem.cache[r] ELSE mem.dram[r]
Holds(r, data) == r \notin mem.dirty /\ mem.dram[r] = data

MemInv ==
  /\ mem = [dram |-> mem.dram, cache |-> mem.cache, dirty |-> mem.dirty]
  /\ DOMAIN mem.dram = Rows /\ DOMAIN mem.cache = Rows
  /\ mem.dirty \subseteq Rows /\ \A r \in mem.dirty : mem.cache[r] # Uncached

(* Where the frame at index is sent from.                                  *)
SendRow ==
  CASE mode = "arena-cma"  -> <<Arena, index>>
    [] mode = "all-cma"    -> <<Frame(index), 0>>
    [] mode = "reuse-copy" -> <<Reusable, 0>>

(* Frames are written back before they can be sent.                        *)
StorageInv ==
  /\ pc = "sendTable" => Current(<<Table, 0>>) = TableFrame
  /\ pc = "awaitTable" => Holds(<<Table, 0>>, TableFrame)
  /\ pc = "arenaReceive" \/ (pc \in InSession /\ mode = "arena-cma") =>
       \A p \in Pairs : Holds(<<Arena, p>>, PairFrame(p))
  /\ pc = "frames" =>
       \A p \in Pairs : p < index => Holds(<<Frame(p), 0>>, PairFrame(p))
  /\ pc = "framesReceive" \/ (pc \in InSession /\ mode = "all-cma") =>
       \A p \in Pairs : Holds(<<Frame(p), 0>>, PairFrame(p))
  /\ pc = "copied" => Current(<<Reusable, 0>>) = PairFrame(index)
  /\ pc = "awaitSend" /\ mode = "reuse-copy" => Holds(<<Reusable, 0>>, PairFrame(index))

(* The channels and the device follow runs and index frame by frame.       *)
TakenSoFar ==
  runs * PairCount +
    CASE pc \in {"send", "copied"} -> index
      [] pc = "awaitSend" -> IF mm2s = <<>> THEN index + 1 ELSE index
      [] pc \in {"awaitReceive", "validate"} -> PairCount
      [] OTHER -> 0
DeviceInv ==
  /\ runs \in Nat
  /\ device \in [consumed: Seq({TableFrame} \union {PairFrame(p) : p \in Pairs}), sent: Nat]
  /\ SentIsBuilt
  /\ pc \in Loading => device.consumed = <<>>
  /\ pc = "awaitTable" => Len(device.consumed) = IF mm2s = <<>> THEN 1 ELSE 0
  /\ pc = "awaitTable" /\ mm2s # <<>> => mm2s = <<Table, 0>>
  /\ pc \in Loading \union {"awaitTable"} \union Settled =>
       s2mm.left = 0 /\ device.sent = runs * PairCount
  /\ pc \in Loading \union {"awaitTable"} \union (Settled \ InSession) => runs = 0
  /\ pc \in Settled \union Receiving => PairsTaken = TakenSoFar
  /\ pc \in (Settled \ {"frames"}) \union {"awaitReceive", "validate"} => index = 0
  /\ pc = "awaitSend" /\ mm2s # <<>> => mm2s = SendRow

(* The rows of this session that have come are in memory, and nothing in   *)
(* the cache can overwrite one.                                            *)
ReceiveInv ==
  pc \in Receiving =>
    /\ s2mm.row \in 0..PairCount /\ s2mm.left = PairCount - s2mm.row
    /\ device.sent = runs * PairCount + s2mm.row
    /\ \A p \in Pairs : <<Receive, p>> \notin mem.dirty
    /\ \A p \in Pairs : p < s2mm.row => mem.dram[<<Receive, p>>] = Result(runs, p)
    /\ pc = "validate" => s2mm.left = 0

DataInv == MemInv /\ StorageInv /\ DeviceInv /\ ReceiveInv /\ ValidatedIsDelivered

-----------------------------------------------------------------------------
(* No two buffers share a row.                                             *)
LEMMA RowsApart ==
  /\ RowsOf(Table) = {<<Table, 0>>} /\ RowsOf(Reusable) = {<<Reusable, 0>>}
  /\ \A p : RowsOf(Frame(p)) = {<<Frame(p), 0>>}
  /\ RowsOf(Arena) = {<<Arena, p>> : p \in Pairs}
  /\ RowsOf(Receive) = {<<Receive, p>> : p \in Pairs}
  /\ \A b \in Buffers : RowsOf(b) \subseteq Rows
  /\ {Table, Reusable, Arena, Receive} \subseteq Buffers
  /\ \A p \in Pairs : Frame(p) \in Buffers
  /\ \A p, q : Frame(p) = Frame(q) => p = q
  /\ \A p : Frame(p) \notin {Table, Reusable, Arena, Receive}
  /\ Table # Reusable /\ Table # Arena /\ Table # Receive
  /\ Reusable # Arena /\ Reusable # Receive /\ Arena # Receive
<1>1. /\ Table # Reusable /\ Table # Arena /\ Table # Receive
      /\ Reusable # Arena /\ Reusable # Receive /\ Arena # Receive
      /\ \A p : Frame(p) \notin {Table, Reusable, Arena, Receive}
  BY DEF Table, Reusable, Arena, Receive, Frame
<1>2. \A p, q : Frame(p) = Frame(q) => p = q
  BY DEF Frame
<1>3. \A b \in Buffers : RowsOf(b) \subseteq Rows
  BY DEF Rows
<1>4. {Table, Reusable, Arena, Receive} \subseteq Buffers /\ \A p \in Pairs : Frame(p) \in Buffers
  BY DEF Buffers, Frames
<1>5. /\ RowsOf(Table) = {<<Table, 0>>} /\ RowsOf(Reusable) = {<<Reusable, 0>>}
      /\ \A p : RowsOf(Frame(p)) = {<<Frame(p), 0>>}
  BY <1>1 DEF RowsOf
<1>6. /\ RowsOf(Arena) = {<<Arena, p>> : p \in Pairs}
      /\ RowsOf(Receive) = {<<Receive, p>> : p \in Pairs}
  BY DEF RowsOf
<1> QED BY <1>1, <1>2, <1>3, <1>4, <1>5, <1>6

(* What the host writes is data: not the mark of an uncached row.          *)
LEMMA DataCached ==
  /\ TableFrame # Uncached /\ Zero # Uncached /\ \A p : PairFrame(p) # Uncached
<1>1. TableFrame.is # Uncached.is /\ Zero.is # Uncached.is
  BY DEF TableFrame, Zero, Uncached
<1>2. ASSUME NEW p PROVE PairFrame(p).is # Uncached.is
  BY DEF PairFrame, Uncached
<1> QED BY <1>1, <1>2

(* A write dirties its rows and changes no memory.                         *)
LEMMA WriteFacts ==
  ASSUME MemInv, NEW data, DOMAIN data \subseteq Rows,
         \A r \in DOMAIN data : data[r] # Uncached, mem' = Write(mem, data)
  PROVE  /\ MemInv' /\ mem'.dirty = mem.dirty \union DOMAIN data
         /\ mem'.dram = mem.dram
         /\ \A r \in Rows : mem'.cache[r] = IF r \in DOMAIN data THEN data[r] ELSE mem.cache[r]
<1>1. mem' = [dram  |-> mem.dram,
              cache |-> [r \in Rows |-> IF r \in DOMAIN data THEN data[r] ELSE mem.cache[r]],
              dirty |-> mem.dirty \union DOMAIN data]
  BY DEF MemInv, Write
<1> QED BY <1>1 DEF MemInv

(* A flush writes a buffer's dirty rows back.                              *)
LEMMA FlushFacts ==
  ASSUME MemInv, NEW b, mem' = Flush(mem, b)
  PROVE  /\ MemInv' /\ mem'.dirty = mem.dirty \ RowsOf(b)
         /\ \A r \in Rows : mem'.dram[r] = IF r \in mem.dirty \intersect RowsOf(b)
                                             THEN mem.cache[r] ELSE mem.dram[r]
<1>1. mem' = [dram  |-> [r \in Rows |-> IF r \in mem.dirty \intersect RowsOf(b)
                                          THEN mem.cache[r] ELSE mem.dram[r]],
              cache |-> mem.cache, dirty |-> mem.dirty \ RowsOf(b)]
  BY DEF MemInv, Flush
<1> QED BY <1>1 DEF MemInv

(* A buffer that is filled and flushed is in memory.                       *)
LEMMA FilledFacts ==
  ASSUME MemInv, NEW b \in Buffers, NEW data, DOMAIN data = RowsOf(b),
         \A r \in DOMAIN data : data[r] # Uncached, Filled(b, data)
  PROVE  /\ MemInv' /\ mem'.dirty = mem.dirty \ RowsOf(b)
         /\ \A r \in RowsOf(b) : mem'.dram[r] = data[r]
         /\ \A r \in Rows \ RowsOf(b) : mem'.dram[r] = mem.dram[r]
<1>0. PICK w : w = Write(mem, data)
  OBVIOUS
<1>1. w = [dram  |-> mem.dram,
           cache |-> [r \in Rows |-> IF r \in DOMAIN data THEN data[r] ELSE mem.cache[r]],
           dirty |-> mem.dirty \union DOMAIN data]
  BY <1>0 DEF MemInv, Write
<1>2. RowsOf(b) \subseteq Rows
  BY RowsApart
<1>3. /\ w = [dram |-> w.dram, cache |-> w.cache, dirty |-> w.dirty]
      /\ w.dram = mem.dram /\ w.dirty = mem.dirty \union RowsOf(b)
      /\ DOMAIN w.dram = Rows /\ DOMAIN w.cache = Rows
      /\ \A r \in w.dirty : w.cache[r] # Uncached
      /\ \A r \in RowsOf(b) : w.cache[r] = data[r]
  BY <1>1, <1>2 DEF MemInv
<1>4. mem' = Flush(w, b)
  BY <1>0 DEF Filled
<1>5. mem' = [dram  |-> [r \in Rows |-> IF r \in w.dirty \intersect RowsOf(b)
                                          THEN w.cache[r] ELSE w.dram[r]],
              cache |-> w.cache, dirty |-> w.dirty \ RowsOf(b)]
  BY <1>3, <1>4 DEF Flush
<1>6. mem'.dirty = mem.dirty \ RowsOf(b) /\ mem'.cache = w.cache
  BY <1>3, <1>5
<1>7. /\ \A r \in RowsOf(b) : mem'.dram[r] = data[r]
      /\ \A r \in Rows \ RowsOf(b) : mem'.dram[r] = mem.dram[r]
  BY <1>2, <1>3, <1>5
<1>8. mem' = [dram |-> mem'.dram, cache |-> mem'.cache, dirty |-> mem'.dirty]
      /\ DOMAIN mem'.dram = Rows
  BY <1>5
<1>9. MemInv'
  BY <1>3, <1>6, <1>8 DEF MemInv
<1> QED BY <1>6, <1>7, <1>9

(* Whatever the cache does on its own, no row loses what was written last. *)
LEMMA CacheFacts ==
  ASSUME MemInv, Evict \/ Fetch
  PROVE  /\ MemInv' /\ mem'.dirty \subseteq mem.dirty
         /\ UNCHANGED <<hostVars, heapVars, dmaVars>>
         /\ \A r \in Rows : Current(r)' = Current(r)
         /\ \A r \in Rows \ mem.dirty : mem'.dram[r] = mem.dram[r]
<1>1. CASE Evict
  <2>1. PICK r \in mem.dirty :
          mem' = [mem EXCEPT !.dram[r] = mem.cache[r], !.cache[r] = Uncached,
                             !.dirty = @ \ {r}]
    BY <1>1 DEF Evict
  <2>2. mem' = [dram |-> [mem.dram EXCEPT ![r] = mem.cache[r]],
                cache |-> [mem.cache EXCEPT ![r] = Uncached], dirty |-> mem.dirty \ {r}]
    BY <2>1 DEF MemInv
  <2>3. UNCHANGED <<hostVars, heapVars, dmaVars>>
    BY <1>1 DEF Evict
  <2> QED BY <2>2, <2>3 DEF MemInv, Current
<1>2. CASE Fetch
  <2>1. PICK b \in held : \E r \in RowsOf(b) :
          mem.cache[r] = Uncached /\ mem' = [mem EXCEPT !.cache[r] = mem.dram[r]]
    BY <1>2 DEF Fetch
  <2>2. PICK r \in RowsOf(b) :
          mem.cache[r] = Uncached /\ mem' = [mem EXCEPT !.cache[r] = mem.dram[r]]
    BY <2>1
  <2>3. mem' = [dram |-> mem.dram, cache |-> [mem.cache EXCEPT ![r] = mem.dram[r]],
                dirty |-> mem.dirty]
    BY <2>2 DEF MemInv
  <2>4. r \notin mem.dirty
    BY <2>2 DEF MemInv
  <2>5. UNCHANGED <<hostVars, heapVars, dmaVars>>
    BY <1>2 DEF Fetch
  <2>6. \A x \in Rows : x \in mem.dirty => mem'.cache[x] = mem.cache[x]
    BY <2>3, <2>4 DEF MemInv
  <2> QED BY <2>3, <2>4, <2>5, <2>6 DEF MemInv, Current
<1> QED BY <1>1, <1>2

(* Division with a rest.                                                   *)
LEMMA QuotientAndRest ==
  ASSUME NEW x \in Nat, NEW d \in Nat \ {0}
  PROVE  /\ x \div d \in Int /\ x % d \in 0..(d - 1)
         /\ x = d * (x \div d) + (x % d)
OBVIOUS

(* What a delivered row is: the result of the pair whose turn it is.       *)
LEMMA TurnOfFrame ==
  ASSUME NEW r \in Nat, NEW k \in Pairs
  PROVE  (r * PairCount + k) \div PairCount = r /\ (r * PairCount + k) % PairCount = k
<1>1. PairCount \in Nat \ {0} /\ k \in 0..(PairCount - 1) /\ r * PairCount + k \in Nat
  BY HostAssumption DEF Pairs
<1>2. PICK q, rest : /\ q = (r * PairCount + k) \div PairCount
                     /\ rest = (r * PairCount + k) % PairCount
  OBVIOUS
<1>3. q \in Int /\ rest \in 0..(PairCount - 1) /\ r * PairCount + k = PairCount * q + rest
  BY <1>1, <1>2, QuotientAndRest
<1>4. \A d \in Int : d < r => PairCount * d + PairCount <= r * PairCount
  BY <1>1
<1>5. \A d \in Int : r < d => r * PairCount + PairCount <= PairCount * d
  BY <1>1
<1>6. PairCount * q \in Int /\ r * PairCount \in Int
  BY <1>1, <1>3
<1>7. q = r
  BY <1>1, <1>3, <1>4, <1>5, <1>6
<1>8. rest = k
  BY <1>1, <1>3, <1>6, <1>7
<1> QED BY <1>2, <1>7, <1>8

-----------------------------------------------------------------------------
(* Filling a buffer dirties its rows.                                      *)
LEMMA WriteBuffer ==
  ASSUME MemInv, NEW b \in {Table, Reusable, Receive}, NEW content, content # Uncached,
         mem' = Write(mem, [r \in RowsOf(b) |-> content])
  PROVE  /\ MemInv' /\ mem'.dirty = mem.dirty \union RowsOf(b) /\ mem'.dram = mem.dram
         /\ \A r \in RowsOf(b) : mem'.cache[r] = content
<1> DEFINE data == [r \in RowsOf(b) |-> content]
<1>1. RowsOf(b) \subseteq Rows
  BY RowsApart
<1>2. /\ DOMAIN data = RowsOf(b) /\ \A r \in RowsOf(b) : data[r] = content
      /\ \A r \in DOMAIN data : data[r] # Uncached
  OBVIOUS
<1>3. mem' = Write(mem, data)
  OBVIOUS
<1> HIDE DEF data
<1>4. /\ MemInv' /\ mem'.dirty = mem.dirty \union DOMAIN data /\ mem'.dram = mem.dram
      /\ \A r \in Rows : mem'.cache[r] = IF r \in DOMAIN data THEN data[r] ELSE mem.cache[r]
  BY <1>1, <1>2, <1>3, WriteFacts
<1> QED BY <1>1, <1>2, <1>4

(* Memory keeps its shape.                                                 *)
LEMMA MemStep ==
  ASSUME MemInv, index \in Pairs, Next
  PROVE  MemInv'
<1>1. CASE UNCHANGED mem
  BY <1>1 DEF MemInv
<1>2. CASE Evict \/ Fetch
  BY <1>2, CacheFacts
<1>3. CASE FillTable
  <2>1. mem' = Write(mem, [r \in RowsOf(Table) |-> TableFrame])
    BY <1>3 DEF FillTable
  <2> QED BY <2>1, DataCached, WriteBuffer
<1>4. CASE ZeroReceive
  <2>1. mem' = Write(mem, [r \in RowsOf(Receive) |-> Zero])
    BY <1>4 DEF ZeroReceive
  <2> QED BY <2>1, DataCached, WriteBuffer
<1>5. CASE CopyFrame
  <2>1. mem' = Write(mem, [r \in RowsOf(Reusable) |-> PairFrame(index)])
    BY <1>5 DEF CopyFrame
  <2> QED BY <2>1, DataCached, WriteBuffer
<1>6. CASE SendTable \/ ArmReceive \/ SendCopy
  BY <1>6, FlushFacts DEF SendTable, ArmReceive, SendCopy
<1>7. CASE AllocateArena
  <2>1. CASE Filled(Arena, [r \in RowsOf(Arena) |-> PairFrame(r[2])])
    BY <2>1, RowsApart, DataCached, FilledFacts
  <2>2. CASE UNCHANGED mem
    BY <2>2 DEF MemInv
  <2> QED BY <1>7, <2>1, <2>2 DEF AllocateArena
<1>8. CASE AllocateFrame
  <2>1. CASE Filled(Frame(index), [r \in RowsOf(Frame(index)) |-> PairFrame(index)])
    BY <2>1, RowsApart, DataCached, FilledFacts
  <2>2. CASE UNCHANGED mem
    BY <2>2 DEF MemInv
  <2> QED BY <1>8, <2>1, <2>2 DEF AllocateFrame
<1>9. CASE Validate
  <2>1. mem' = [dram  |-> mem.dram,
                cache |-> [r \in Rows |-> IF r \in RowsOf(Receive) THEN Uncached
                                          ELSE mem.cache[r]],
                dirty |-> mem.dirty \ RowsOf(Receive)]
    BY <1>9 DEF Validate, Invalidate, MemInv
  <2> QED BY <2>1 DEF MemInv
<1>10. CASE Deliver
  <2>1. mem' = [mem EXCEPT !.dram[<<Receive, s2mm.row>>] = Answer(device.sent)]
    BY <1>10 DEF Deliver
  <2>2. mem' = [dram |-> [mem.dram EXCEPT ![<<Receive, s2mm.row>>] = Answer(device.sent)],
                cache |-> mem.cache, dirty |-> mem.dirty]
    BY <2>1 DEF MemInv
  <2> QED BY <2>2 DEF MemInv
<1>11. \/ UNCHANGED mem \/ Evict \/ Fetch \/ FillTable \/ ZeroReceive \/ CopyFrame
       \/ SendTable \/ ArmReceive \/ SendCopy \/ AllocateArena \/ AllocateFrame
       \/ Validate \/ Deliver
  BY DEF Next, Host, AllocateProfile, AwaitTable, AllocateReusable, ReceiveBuffer,
     AllocateReceive, ArenaFallback, FramesFallback, SendPrefilled, AwaitSend,
     AwaitReceive, Release, WaitRaises, Consume
<1> QED BY <1>1, <1>2, <1>3, <1>4, <1>5, <1>6, <1>7, <1>8, <1>9, <1>10, <1>11

(* The rows the host sends its frames from.                                *)
LEMMA SendRows ==
  /\ <<Table, 0>> \in Rows /\ <<Reusable, 0>> \in Rows
  /\ \A p \in Pairs : /\ <<Arena, p>> \in Rows \ RowsOf(Receive)
                      /\ <<Frame(p), 0>> \in Rows \ RowsOf(Receive)
                      /\ <<Arena, p>>[2] = p
                      /\ <<Receive, p>> \in RowsOf(Receive)
  /\ <<Reusable, 0>> \notin RowsOf(Receive) /\ <<Table, 0>> \notin RowsOf(Receive)
BY RowsApart

(* Frames are in memory when they are sent, from whichever storage.        *)
LEMMA StorageStep ==
  ASSUME MemInv, StorageInv, HeldInv, ModeInv, index \in Pairs,
         pc \in Receiving => s2mm.row \in Pairs \/ s2mm.left = 0,
         pc \notin Receiving \union {"finally", "ended"} => s2mm.left = 0, Next
  PROVE  StorageInv'
<1>1. CASE AllocateProfile
  BY <1>1 DEF StorageInv, InSession, AllocateProfile, Goto, Raise
<1>2. CASE FillTable
  <2>0. <<Table, 0>> \in RowsOf(Table)
    BY RowsApart
  <2>1. /\ pc' = "sendTable" /\ mem' = Write(mem, [r \in RowsOf(Table) |-> TableFrame])
    BY <1>2 DEF FillTable, Goto
  <2>2. mem'.dirty = mem.dirty \union RowsOf(Table) /\ mem'.cache[<<Table, 0>>] = TableFrame
    BY <2>1, <2>0, DataCached, WriteBuffer
  <2>3. Current(<<Table, 0>>)' = TableFrame
    BY <2>2, RowsApart DEF Current
  <2> QED BY <2>1, <2>3 DEF StorageInv, InSession
<1>3. CASE SendTable
  <2>1. pc = "sendTable" /\ pc' = "awaitTable" /\ mem' = Flush(mem, Table)
    BY <1>3 DEF SendTable, Goto
  <2>2. Holds(<<Table, 0>>, TableFrame)'
    BY <2>1, RowsApart, SendRows, FlushFacts DEF StorageInv, Holds, Current
  <2> QED BY <2>1, <2>2 DEF StorageInv, InSession
<1>4. CASE AwaitTable
  <2>1. pc' \in {"arena", "frames", "reusable"} /\ index' = 0
    BY <1>4 DEF AwaitTable, ModeInv, Modes, HeldInv, Goto
  <2> QED BY <2>1 DEF StorageInv, InSession, Pairs
<1>5. CASE AllocateArena
  <2>1. CASE /\ Goto("arenaReceive")
             /\ Filled(Arena, [r \in RowsOf(Arena) |-> PairFrame(r[2])])
    <3>1. ASSUME NEW p \in Pairs PROVE Holds(<<Arena, p>>, PairFrame(p))'
      <4>1. /\ mem'.dirty = mem.dirty \ RowsOf(Arena)
            /\ \A r \in RowsOf(Arena) : mem'.dram[r] = PairFrame(r[2])
        <5> DEFINE data == [r \in RowsOf(Arena) |-> PairFrame(r[2])]
        <5>1. DOMAIN data = RowsOf(Arena) /\ \A r \in DOMAIN data : data[r] # Uncached
          BY DataCached
        <5>2. Arena \in Buffers /\ Filled(Arena, data)
          BY <2>1, RowsApart
        <5>3. \A r \in RowsOf(Arena) : data[r] = PairFrame(r[2])
          OBVIOUS
        <5> HIDE DEF data
        <5> QED BY <5>1, <5>2, <5>3, FilledFacts
      <4>2. <<Arena, p>> \in RowsOf(Arena) /\ <<Arena, p>>[2] = p
        BY RowsApart
      <4> QED BY <4>1, <4>2 DEF Holds
    <3> QED BY <2>1, <3>1 DEF StorageInv, InSession, Goto
  <2>2. CASE Goto("arenaFailed")
    BY <2>2 DEF StorageInv, InSession, Goto
  <2> QED BY <1>5, <2>1, <2>2 DEF AllocateArena
<1>6. CASE AllocateFrame
  <2>1. pc = "frames"
    BY <1>6 DEF AllocateFrame
  <2>2. CASE /\ Filled(Frame(index), [r \in RowsOf(Frame(index)) |-> PairFrame(index)])
             /\ IF index + 1 = PairCount
                  THEN Goto("framesReceive") /\ index' = 0
                  ELSE Goto("frames") /\ index' = index + 1
    <3>1. /\ mem'.dirty = mem.dirty \ RowsOf(Frame(index))
          /\ \A r \in RowsOf(Frame(index)) : mem'.dram[r] = PairFrame(index)
          /\ \A r \in Rows \ RowsOf(Frame(index)) : mem'.dram[r] = mem.dram[r]
      BY <2>2, RowsApart, DataCached, FilledFacts
    <3>2. ASSUME NEW p \in Pairs, p = index PROVE Holds(<<Frame(p), 0>>, PairFrame(p))'
      <4>1. <<Frame(p), 0>> \in RowsOf(Frame(p))
        BY RowsApart
      <4> QED BY <3>1, <3>2, <4>1 DEF Holds
    <3>3. ASSUME NEW p \in Pairs, p < index PROVE Holds(<<Frame(p), 0>>, PairFrame(p))'
      <4>1. Holds(<<Frame(p), 0>>, PairFrame(p))
        BY <2>1, <3>3 DEF StorageInv
      <4>2. <<Frame(p), 0>> \in Rows \ RowsOf(Frame(index))
        <5>1. p # index
          BY <3>3 DEF Pairs
        <5> QED BY <5>1, RowsApart
      <4> QED BY <3>1, <4>1, <4>2 DEF Holds
    <3>4. \A p \in Pairs : p < index + 1 => p < index \/ p = index
      BY DEF Pairs
    <3>5. ASSUME NEW p \in Pairs, p < index + 1 PROVE Holds(<<Frame(p), 0>>, PairFrame(p))'
      <4>1. CASE p < index
        BY <3>3, <4>1
      <4>2. CASE p = index
        BY <3>2, <4>2
      <4> QED BY <3>4, <3>5, <4>1, <4>2
    <3>6. index + 1 = PairCount => \A p \in Pairs : p < index + 1
      BY DEF Pairs
    <3> QED BY <2>2, <3>5, <3>6 DEF StorageInv, InSession, Goto
  <2>3. CASE Goto("framesFailed")
    BY <2>3 DEF StorageInv, InSession, Goto
  <2> QED BY <1>6, <2>2, <2>3 DEF AllocateFrame
<1>7. CASE AllocateReusable
  BY <1>7 DEF StorageInv, InSession, AllocateReusable, Goto, Raise
<1>8. CASE ReceiveBuffer
  <2>1. UNCHANGED mem
    BY <1>8 DEF ReceiveBuffer, AllocateReceive
  <2>2. \/ pc' \in {"arenaFailed", "framesFailed", "finally"}
        \/ pc' = "zero" /\ pc = "arenaReceive" /\ mode' = "arena-cma"
        \/ pc' = "zero" /\ pc = "framesReceive" /\ mode' = "all-cma"
        \/ pc' = "zero" /\ pc = "reusableReceive" /\ mode' = "reuse-copy"
    BY <1>8 DEF ReceiveBuffer, AllocateReceive, Goto, Raise
  <2> QED BY <2>1, <2>2 DEF StorageInv, InSession, Holds
<1>9. CASE ArenaFallback
  <2>1. pc' \in {"finally", "frames"} /\ index' = 0
    BY <1>9 DEF ArenaFallback, HeldInv, Goto, Raise
  <2> QED BY <2>1 DEF StorageInv, InSession, Pairs
<1>10. CASE FramesFallback
  BY <1>10 DEF StorageInv, InSession, FramesFallback, Goto, Raise
<1>11. CASE ZeroReceive
  <2>1. /\ pc = "zero" /\ pc' = "arm" /\ mode' = mode
        /\ mem' = Write(mem, [r \in RowsOf(Receive) |-> Zero])
    BY <1>11 DEF ZeroReceive, Goto
  <2>2. mem'.dirty = mem.dirty \union RowsOf(Receive) /\ mem'.dram = mem.dram
    BY <2>1, DataCached, WriteBuffer
  <2>3. \A r \in Rows \ RowsOf(Receive) : \A data : Holds(r, data) => Holds(r, data)'
    BY <2>2 DEF Holds
  <2> QED BY <2>1, <2>3, SendRows DEF StorageInv, InSession
<1>12. CASE ArmReceive
  <2>1. pc = "arm" /\ pc' = "send" /\ mode' = mode /\ mem' = Flush(mem, Receive)
    BY <1>12 DEF ArmReceive, Goto
  <2>2. /\ mem'.dirty = mem.dirty \ RowsOf(Receive)
        /\ \A r \in Rows \ RowsOf(Receive) : mem'.dram[r] = mem.dram[r]
    BY <2>1, FlushFacts
  <2>3. \A r \in Rows \ RowsOf(Receive) : \A data : Holds(r, data) => Holds(r, data)'
    BY <2>2 DEF Holds
  <2> QED BY <2>1, <2>3, SendRows DEF StorageInv, InSession
<1>13. CASE CopyFrame
  <2>0. <<Reusable, 0>> \in RowsOf(Reusable)
    BY RowsApart
  <2>1. /\ pc' = "copied" /\ mode' = "reuse-copy" /\ index' = index
        /\ mem' = Write(mem, [r \in RowsOf(Reusable) |-> PairFrame(index)])
    BY <1>13 DEF CopyFrame, Goto
  <2>2. /\ mem'.dirty = mem.dirty \union RowsOf(Reusable)
        /\ mem'.cache[<<Reusable, 0>>] = PairFrame(index)
    BY <2>1, <2>0, DataCached, WriteBuffer
  <2>3. Current(<<Reusable, 0>>)' = PairFrame(index)
    BY <2>2, RowsApart DEF Current
  <2> QED BY <2>1, <2>3 DEF StorageInv, InSession
<1>14. CASE SendCopy
  <2>1. /\ pc = "copied" /\ pc' = "awaitSend" /\ mode' = mode /\ index' = index
        /\ mem' = Flush(mem, Reusable)
    BY <1>14 DEF SendCopy, Goto
  <2>2. mode = "reuse-copy"
    BY <2>1 DEF ModeInv
  <2>3. Holds(<<Reusable, 0>>, PairFrame(index))'
    BY <2>1, RowsApart, SendRows, FlushFacts DEF StorageInv, Holds, Current
  <2> QED BY <2>1, <2>2, <2>3 DEF StorageInv, InSession
<1>15. CASE SendPrefilled
  <2>1. /\ pc = "send" /\ mode # "reuse-copy" /\ pc' = "awaitSend"
        /\ UNCHANGED <<mode, index, mem>>
    BY <1>15 DEF SendPrefilled, Goto
  <2> QED BY <2>1 DEF StorageInv, InSession, Holds
<1>16. CASE AwaitSend
  <2>1. pc = "awaitSend" /\ pc' \in {"awaitReceive", "send"} /\ UNCHANGED <<mode, mem>>
    BY <1>16 DEF AwaitSend, Goto
  <2> QED BY <2>1 DEF StorageInv, InSession, Holds
<1>17. CASE AwaitReceive
  <2>1. pc = "awaitReceive" /\ pc' = "validate" /\ UNCHANGED <<mode, mem>>
    BY <1>17 DEF AwaitReceive, Goto
  <2> QED BY <2>1 DEF StorageInv, InSession, Holds
<1>18. CASE Validate
  <2>1. pc = "validate" /\ pc' \in {"zero", "finally"} /\ mode' = mode
    BY <1>18 DEF Validate, Goto, Raise
  <2>2. mem'.dram = mem.dram /\ mem'.dirty \subseteq mem.dirty
    BY <1>18 DEF Validate, Invalidate, MemInv
  <2>3. \A r, data : Holds(r, data) => Holds(r, data)'
    BY <2>2 DEF Holds
  <2> QED BY <2>1, <2>3 DEF StorageInv, InSession
<1>19. CASE Release
  BY <1>19 DEF StorageInv, InSession, Release
<1>20. CASE WaitRaises
  BY <1>20 DEF StorageInv, InSession, WaitRaises, Raise
<1>21. CASE Consume
  <2>1. UNCHANGED <<pc, mode, index, mem>>
    BY <1>21 DEF Consume, hostVars
  <2> QED BY <2>1 DEF StorageInv, Holds, Current
<1>22. CASE Deliver
  <2>1. UNCHANGED <<pc, mode, index>> /\ s2mm.left > 0
    BY <1>22 DEF Deliver, hostVars
  <2>2. CASE pc \in {"finally", "ended"}
    BY <2>1, <2>2 DEF StorageInv, InSession
  <2>3. CASE pc \in Receiving
    <3>1. s2mm.row \in Pairs
      BY <2>1, <2>3
    <3>2. mem' = [mem EXCEPT !.dram[<<Receive, s2mm.row>>] = Answer(device.sent)]
      BY <1>22 DEF Deliver
    <3>3. mem'.dirty = mem.dirty /\ mem'.cache = mem.cache
      BY <3>2 DEF MemInv
    <3>4. \A r \in Rows \ RowsOf(Receive) : mem'.dram[r] = mem.dram[r]
      <4>1. mem'.dram = [mem.dram EXCEPT ![<<Receive, s2mm.row>>] = Answer(device.sent)]
        BY <3>2 DEF MemInv
      <4>2. <<Receive, s2mm.row>> \in RowsOf(Receive)
        BY <3>1, SendRows
      <4>3. DOMAIN mem.dram = Rows
        BY DEF MemInv
      <4> QED BY <4>1, <4>2, <4>3
    <3>5. /\ \A r \in Rows \ RowsOf(Receive) : \A data : Holds(r, data) => Holds(r, data)'
          /\ \A r \in Rows \ RowsOf(Receive) : Current(r)' = Current(r)
      BY <3>3, <3>4 DEF Holds, Current
    <3> QED BY <2>1, <2>3, <3>5, SendRows DEF StorageInv, InSession, Receiving
  <2> QED BY <2>1, <2>2, <2>3
<1>23. CASE Evict \/ Fetch
  <2>1. UNCHANGED <<pc, mode, index>>
    BY <1>23, CacheFacts DEF hostVars
  <2>2. /\ \A r \in Rows : Current(r)' = Current(r)
        /\ \A r \in Rows : \A data : Holds(r, data) => Holds(r, data)'
    BY <1>23, CacheFacts DEF Holds
  <2> QED BY <2>1, <2>2, SendRows DEF StorageInv
<1> QED
  BY <1>1, <1>2, <1>3, <1>4, <1>5, <1>6, <1>7, <1>8, <1>9, <1>10, <1>11, <1>12,
     <1>13, <1>14, <1>15, <1>16, <1>17, <1>18, <1>19, <1>20, <1>21, <1>22,
     <1>23 DEF Next, Host

-----------------------------------------------------------------------------
(* The frame due at an index of a session.                                 *)
LEMMA DueFrame ==
  ASSUME NEW s \in Nat, NEW p \in Pairs
  PROVE  ExpectedFrame(s * PairCount + p + 2) = PairFrame(p)
<1>1. (s * PairCount + p) % PairCount = p
  BY TurnOfFrame
<1>2. s * PairCount \in Nat /\ p \in Nat
  BY HostAssumption DEF Pairs
<1>3. s * PairCount + p + 2 - 2 = s * PairCount + p /\ s * PairCount + p + 2 # 1
  BY <1>2
<1> QED BY <1>1, <1>2, <1>3 DEF ExpectedFrame

(* The device takes the frame that is due.                                 *)
LEMMA ConsumeStep ==
  ASSUME MemInv, StorageInv, DeviceInv, ChannelInv, ModeInv, Consume
  PROVE  DeviceInv'
<1> DEFINE taken == Len(device.consumed)
           Built == {TableFrame} \union {PairFrame(p) : p \in Pairs}
<1>1. /\ UNCHANGED <<pc, mode, index, runs, s2mm>> /\ mm2s # <<>> /\ mm2s' = <<>>
      /\ device' = [device EXCEPT !.consumed = Append(@, mem.dram[mm2s])]
  BY DEF Consume, hostVars
<1>2. device.consumed \in Seq(Built) /\ device.sent \in Nat /\ taken \in Nat
  BY DEF DeviceInv
<1>3. \/ pc = "awaitTable" /\ mm2s = <<Table, 0>> /\ taken = 0
      \/ /\ pc = "awaitSend" /\ mm2s = SendRow /\ index \in Pairs /\ runs \in Nat
         /\ taken - 1 = runs * PairCount + index
  BY <1>1 DEF DeviceInv, ChannelInv, PairsTaken, TakenSoFar, Receiving
<1>4. mem.dram[mm2s] = ExpectedFrame(taken + 1) /\ mem.dram[mm2s] \in Built
  <2>1. CASE pc = "awaitTable"
    <3>1. mem.dram[mm2s] = TableFrame /\ taken + 1 = 1
      BY <1>3, <2>1 DEF StorageInv, Holds
    <3> QED BY <3>1 DEF ExpectedFrame
  <2>2. CASE pc = "awaitSend"
    <3>1. mode \in Modes
      BY <2>2 DEF ModeInv, InSession
    <3>2. mem.dram[SendRow] = PairFrame(index)
      BY <1>3, <2>2, <3>1 DEF StorageInv, Holds, SendRow, Modes, InSession
    <3>3. taken + 1 = runs * PairCount + index + 2
      <4>1. runs * PairCount \in Int /\ index \in Int
        BY <1>3, <2>2, HostAssumption DEF Pairs
      <4> QED BY <1>2, <1>3, <2>2, <4>1
    <3> QED BY <1>3, <2>2, <3>2, <3>3, DueFrame
  <2> QED BY <1>3, <2>1, <2>2
<1>5. /\ device'.consumed = Append(device.consumed, mem.dram[mm2s])
      /\ device'.sent = device.sent
      /\ device' \in [consumed : Seq(Built), sent : Nat]
  <2>1. Append(device.consumed, mem.dram[mm2s]) \in Seq(Built)
    <3> HIDE DEF Built
    <3> QED BY <1>2, <1>4
  <2>2. device = [consumed |-> device.consumed, sent |-> device.sent]
    BY DEF DeviceInv
  <2> HIDE DEF Built
  <2> QED BY <1>1, <1>2, <2>1, <2>2
<1>6. Len(device'.consumed) = taken + 1
  BY <1>2, <1>5
<1>7. SentIsBuilt'
  <2>1. \A n \in 1..taken : device'.consumed[n] = device.consumed[n]
    BY <1>2, <1>5
  <2>2. device'.consumed[taken + 1] = mem.dram[mm2s]
    BY <1>2, <1>5
  <2>3. \A n \in 1..taken : device.consumed[n] = ExpectedFrame(n)
    BY DEF DeviceInv, SentIsBuilt
  <2>4. \A n \in 1..(taken + 1) : n \in 1..taken \/ n = taken + 1
    BY <1>2
  <2> HIDE DEF taken
  <2> QED BY <1>4, <1>6, <2>1, <2>2, <2>3, <2>4 DEF SentIsBuilt, ExpectedFrame
<1>8. CASE pc = "awaitTable"
  BY <1>1, <1>3, <1>5, <1>6, <1>7, <1>8 DEF DeviceInv, Loading, Settled, Receiving
<1>9. CASE pc = "awaitSend"
  <2>1. PairsTaken' = runs * PairCount + (index + 1)
    <3>1. runs * PairCount \in Int /\ index \in Int
      BY <1>3, <1>9, HostAssumption DEF Pairs
    <3> QED BY <1>2, <1>3, <1>6, <1>9, <3>1 DEF PairsTaken
  <2>2. TakenSoFar' = runs * PairCount + (index + 1)
    BY <1>1, <1>9 DEF TakenSoFar
  <2> QED BY <1>1, <1>5, <1>7, <1>9, <2>1, <2>2 DEF DeviceInv, Loading, Settled, Receiving
<1> QED BY <1>3, <1>8, <1>9

(* Runs, index, channels and device move together.                         *)
LEMMA DeviceStep ==
  ASSUME DataInv, HeldInv, ModeInv, ChannelInv, Next
  PROVE  DeviceInv'
<1> USE DEF Loading, Settled, Receiving, InSession
<1>0. /\ DeviceInv /\ runs \in Nat /\ index \in Pairs /\ index \in Int
      /\ runs * PairCount \in Int /\ PairCount \in Nat \ {0}
  BY HostAssumption DEF DataInv, DeviceInv, ChannelInv, Pairs
<1>1. ASSUME device' = device, runs' = runs
      PROVE  /\ runs' \in Nat /\ SentIsBuilt' /\ PairsTaken' = PairsTaken
             /\ device' \in [consumed: Seq({TableFrame} \union {PairFrame(p) : p \in Pairs}),
                             sent: Nat]
  BY <1>0, <1>1 DEF DeviceInv, SentIsBuilt, PairsTaken
<1>2. CASE AllocateProfile
  BY <1>0, <1>1, <1>2 DEF DeviceInv, AllocateProfile, Goto, Raise, dmaVars
<1>3. CASE FillTable
  BY <1>0, <1>1, <1>3 DEF DeviceInv, FillTable, Goto, dmaVars
<1>4. CASE SendTable
  <2>1. /\ pc = "sendTable" /\ pc' = "awaitTable" /\ mm2s' = <<Table, 0>>
        /\ UNCHANGED <<runs, s2mm, device>>
    BY <1>4 DEF SendTable, Goto
  <2>2. mm2s' # <<>> /\ Len(device'.consumed) = 0
    BY <1>0, <2>1 DEF DeviceInv
  <2> QED BY <1>0, <1>1, <2>1, <2>2 DEF DeviceInv
<1>5. CASE AwaitTable
  <2>1. /\ pc = "awaitTable" /\ pc' \in {"arena", "frames", "reusable"} /\ mm2s = <<>>
        /\ UNCHANGED <<runs, index, device, s2mm, mm2s>>
    BY <1>5 DEF AwaitTable, ModeInv, Modes, Goto, dmaVars
  <2>2. index = 0 /\ Len(device.consumed) = 1 /\ runs = 0
    BY <1>0, <2>1 DEF HeldInv, DeviceInv
  <2>3. PairsTaken' = TakenSoFar'
    BY <1>0, <2>1, <2>2 DEF PairsTaken, TakenSoFar
  <2> QED BY <1>0, <1>1, <2>1, <2>2, <2>3 DEF DeviceInv
<1>6. CASE AllocateArena
  <2>1. /\ pc = "arena" /\ pc' \in {"arenaReceive", "arenaFailed"}
        /\ UNCHANGED <<runs, index, device, s2mm, mm2s>>
    BY <1>6 DEF AllocateArena, Goto, dmaVars
  <2>2. TakenSoFar' = TakenSoFar
    BY <2>1 DEF TakenSoFar
  <2> QED BY <1>0, <1>1, <2>1, <2>2 DEF DeviceInv
<1>7. CASE AllocateFrame
  <2>1. /\ pc = "frames" /\ pc' \in {"frames", "framesReceive", "framesFailed"}
        /\ pc' # "frames" => index' = 0
        /\ UNCHANGED <<runs, device, s2mm, mm2s>>
    BY <1>7 DEF AllocateFrame, Goto, dmaVars
  <2>2. TakenSoFar' = TakenSoFar
    BY <2>1 DEF TakenSoFar
  <2> QED BY <1>0, <1>1, <2>1, <2>2 DEF DeviceInv
<1>8. CASE AllocateReusable
  <2>1. /\ pc = "reusable" /\ pc' \in {"reusableReceive", "finally"}
        /\ UNCHANGED <<runs, index, device, s2mm, mm2s>>
    BY <1>8 DEF AllocateReusable, Goto, Raise, dmaVars
  <2>2. TakenSoFar' = TakenSoFar
    BY <2>1 DEF TakenSoFar
  <2> QED BY <1>0, <1>1, <2>1, <2>2 DEF DeviceInv
<1>9. CASE ReceiveBuffer
  <2>1. /\ pc \in {"arenaReceive", "framesReceive", "reusableReceive"}
        /\ pc' \in {"zero", "arenaFailed", "framesFailed", "finally"}
        /\ UNCHANGED <<runs, index, device, s2mm, mm2s>>
    BY <1>9 DEF ReceiveBuffer, AllocateReceive, Goto, Raise, dmaVars
  <2>2. TakenSoFar' = TakenSoFar
    BY <2>1 DEF TakenSoFar
  <2> QED BY <1>0, <1>1, <2>1, <2>2 DEF DeviceInv
<1>10. CASE ArenaFallback \/ FramesFallback
  <2>1. /\ pc \in {"arenaFailed", "framesFailed"} /\ pc' \in {"frames", "reusable", "finally"}
        /\ UNCHANGED <<runs, index, device, s2mm, mm2s>>
    BY <1>10 DEF ArenaFallback, FramesFallback, Goto, Raise, dmaVars
  <2>2. TakenSoFar' = TakenSoFar
    BY <2>1 DEF TakenSoFar
  <2> QED BY <1>0, <1>1, <2>1, <2>2 DEF DeviceInv
<1>11. CASE ZeroReceive
  <2>1. /\ pc = "zero" /\ pc' = "arm" /\ UNCHANGED <<runs, index, device, s2mm, mm2s>>
    BY <1>11 DEF ZeroReceive, Goto, dmaVars
  <2>2. TakenSoFar' = TakenSoFar
    BY <2>1 DEF TakenSoFar
  <2> QED BY <1>0, <1>1, <2>1, <2>2 DEF DeviceInv
<1>12. CASE ArmReceive
  <2>1. /\ pc = "arm" /\ pc' = "send" /\ UNCHANGED <<runs, index, device, mm2s>>
    BY <1>12 DEF ArmReceive, Goto
  <2>2. index = 0 /\ TakenSoFar = runs * PairCount /\ TakenSoFar' = runs * PairCount
    BY <1>0, <2>1 DEF DeviceInv, TakenSoFar
  <2> QED BY <1>0, <1>1, <2>1, <2>2 DEF DeviceInv
<1>13. CASE CopyFrame
  <2>1. /\ pc = "send" /\ pc' = "copied" /\ UNCHANGED <<runs, index, device, s2mm, mm2s>>
    BY <1>13 DEF CopyFrame, Goto, dmaVars
  <2>2. TakenSoFar' = TakenSoFar
    BY <2>1 DEF TakenSoFar
  <2> QED BY <1>0, <1>1, <2>1, <2>2 DEF DeviceInv
<1>14. CASE SendCopy
  <2>1. /\ pc = "copied" /\ pc' = "awaitSend" /\ mm2s' = <<Reusable, 0>>
        /\ UNCHANGED <<runs, index, mode, device, s2mm>> /\ mode = "reuse-copy"
    BY <1>14 DEF SendCopy, Goto, ModeInv
  <2>2. mm2s' # <<>> /\ mm2s' = SendRow'
    BY <2>1 DEF SendRow
  <2>3. TakenSoFar' = TakenSoFar
    BY <2>1, <2>2 DEF TakenSoFar
  <2> QED BY <1>0, <1>1, <2>1, <2>2, <2>3 DEF DeviceInv
<1>15. CASE SendPrefilled
  <2>1. /\ pc = "send" /\ pc' = "awaitSend" /\ mode # "reuse-copy"
        /\ mm2s' = IF mode = "arena-cma" THEN <<Arena, index>> ELSE <<Frame(index), 0>>
        /\ UNCHANGED <<runs, index, mode, device, s2mm>>
    BY <1>15 DEF SendPrefilled, Goto
  <2>2. mode \in {"arena-cma", "all-cma"}
    BY <2>1 DEF ModeInv, Modes
  <2>3. mm2s' # <<>> /\ mm2s' = SendRow'
    BY <2>1, <2>2 DEF SendRow
  <2>4. TakenSoFar' = TakenSoFar
    BY <2>1, <2>3 DEF TakenSoFar
  <2> QED BY <1>0, <1>1, <2>1, <2>3, <2>4 DEF DeviceInv
<1>16. CASE AwaitSend
  <2>1. /\ pc = "awaitSend" /\ mm2s = <<>> /\ UNCHANGED <<runs, device, s2mm, mm2s>>
        /\ \/ index + 1 = PairCount /\ pc' = "awaitReceive" /\ index' = 0
           \/ pc' = "send" /\ index' = index + 1
    BY <1>16 DEF AwaitSend, Goto, dmaVars
  <2>2. TakenSoFar' = TakenSoFar
    BY <1>0, <2>1 DEF TakenSoFar
  <2> QED BY <1>0, <1>1, <2>1, <2>2 DEF DeviceInv
<1>17. CASE AwaitReceive
  <2>1. /\ pc = "awaitReceive" /\ pc' = "validate" /\ UNCHANGED <<runs, index, device, s2mm, mm2s>>
    BY <1>17 DEF AwaitReceive, Goto, dmaVars
  <2>2. TakenSoFar' = TakenSoFar
    BY <2>1 DEF TakenSoFar
  <2> QED BY <1>0, <1>1, <2>1, <2>2 DEF DeviceInv
<1>18. CASE Validate
  <2>1. /\ pc = "validate" /\ UNCHANGED <<index, device, s2mm, mm2s>>
        /\ \/ pc' \in {"zero", "finally"} /\ runs' = runs + 1
           \/ pc' = "finally" /\ runs' = runs
    BY <1>18 DEF Validate, Goto, Raise, dmaVars
  <2>2. runs' \in Nat /\ SentIsBuilt' /\ PairsTaken' = PairsTaken
    BY <1>0, <2>1 DEF DeviceInv, SentIsBuilt, PairsTaken
  <2>3. CASE pc' = "finally"
    BY <1>0, <2>1, <2>2, <2>3 DEF DeviceInv
  <2>4. CASE pc' = "zero"
    <3>1. (runs + 1) * PairCount = runs * PairCount + PairCount
      BY <1>0
    <3>2. runs' = runs + 1
      BY <2>1, <2>4
    <3>3. PairsTaken = runs * PairCount + PairCount
      BY <1>0, <2>1 DEF DeviceInv, TakenSoFar
    <3>4. TakenSoFar' = runs * PairCount + PairCount
      BY <1>0, <2>4, <3>1, <3>2 DEF TakenSoFar
    <3>5. device.sent = runs * PairCount + PairCount /\ s2mm.left = 0
      BY <1>0, <2>1 DEF DataInv, ReceiveInv, ChannelInv
    <3> QED BY <1>0, <2>1, <2>2, <2>4, <3>1, <3>2, <3>3, <3>4, <3>5 DEF DeviceInv
  <2> QED BY <2>1, <2>3, <2>4
<1>19. CASE Release
  BY <1>0, <1>1, <1>19 DEF DeviceInv, Release, dmaVars
<1>20. CASE WaitRaises
  BY <1>0, <1>1, <1>20 DEF DeviceInv, WaitRaises, Raise
<1>21. CASE Consume
  BY <1>21, ConsumeStep DEF DataInv
<1>22. CASE Deliver
  <2>1. /\ UNCHANGED <<pc, mode, index, runs, mm2s>> /\ s2mm.left > 0
        /\ device' = [device EXCEPT !.sent = @ + 1]
    BY <1>22 DEF Deliver, hostVars
  <2>2. /\ device'.consumed = device.consumed /\ device'.sent \in Nat
        /\ device' \in [consumed: Seq({TableFrame} \union {PairFrame(p) : p \in Pairs}),
                        sent: Nat]
    BY <1>0, <2>1 DEF DeviceInv
  <2>3. SentIsBuilt' /\ PairsTaken' = PairsTaken /\ TakenSoFar' = TakenSoFar /\ SendRow' = SendRow
    BY <1>0, <2>1, <2>2 DEF DeviceInv, SentIsBuilt, PairsTaken, TakenSoFar, SendRow
  <2>4. pc \notin Loading \union {"awaitTable"} \union Settled
    BY <1>0, <2>1 DEF DeviceInv
  <2> QED BY <1>0, <2>1, <2>2, <2>3, <2>4 DEF DeviceInv
<1>23. CASE Evict \/ Fetch
  <2>1. UNCHANGED <<pc, mode, index, runs, mm2s, s2mm, device>>
    BY <1>23, CacheFacts DEF DataInv, hostVars, dmaVars
  <2>2. TakenSoFar' = TakenSoFar /\ SendRow' = SendRow
    BY <2>1 DEF TakenSoFar, SendRow
  <2> QED BY <1>0, <1>1, <2>1, <2>2 DEF DeviceInv
<1> QED
  BY <1>2, <1>3, <1>4, <1>5, <1>6, <1>7, <1>8, <1>9, <1>10, <1>11, <1>12, <1>13,
     <1>14, <1>15, <1>16, <1>17, <1>18, <1>19, <1>20, <1>21, <1>22, <1>23
  DEF Next, Host

(* The rows of the session arrive in order and stay in memory.             *)
LEMMA ReceiveStep ==
  ASSUME DataInv, HeldInv, ModeInv, ChannelInv, Next
  PROVE  ReceiveInv'
<1> USE DEF Receiving
<1>0. /\ DeviceInv /\ ReceiveInv /\ MemInv /\ runs \in Nat /\ index \in Pairs
      /\ runs * PairCount \in Int /\ PairCount \in Nat \ {0} /\ device.sent \in Nat
      /\ s2mm.row \in Int /\ s2mm.left \in Int
  BY HostAssumption DEF DataInv, DeviceInv, ChannelInv, Pairs
<1>1. ASSUME pc \in Receiving, pc' \in Receiving, UNCHANGED <<runs, device, s2mm>>,
             pc' = "validate" => s2mm.left = 0,
             mem'.dirty \intersect RowsOf(Receive) \subseteq mem.dirty,
             \A p \in Pairs : mem'.dram[<<Receive, p>>] = mem.dram[<<Receive, p>>]
      PROVE  ReceiveInv'
  BY <1>0, <1>1, RowsApart DEF ReceiveInv
<1>2. CASE ArmReceive
  <2>1. /\ pc = "arm" /\ pc' = "send" /\ mem' = Flush(mem, Receive)
        /\ s2mm' = [row |-> 0, left |-> PairCount] /\ UNCHANGED <<runs, device>>
    BY <1>2 DEF ArmReceive, Goto
  <2>2. mem'.dirty = mem.dirty \ RowsOf(Receive)
    BY <1>0, <2>1, FlushFacts
  <2>3. device.sent = runs * PairCount
    BY <1>0, <2>1 DEF DeviceInv, Settled
  <2>4. \A p \in Pairs : ~(p < 0)
    BY DEF Pairs
  <2>5. \A p \in Pairs : <<Receive, p>> \notin mem'.dirty
    BY <2>2, SendRows
  <2>6. s2mm'.row = 0 /\ s2mm'.left = PairCount /\ device'.sent = runs' * PairCount + 0
    BY <1>0, <2>1, <2>3
  <2>7. 0 \in 0..PairCount /\ PairCount = PairCount - 0
    BY <1>0
  <2> QED BY <2>1, <2>4, <2>5, <2>6, <2>7 DEF ReceiveInv
<1>3. CASE CopyFrame
  <2>1. /\ pc = "send" /\ pc' = "copied" /\ UNCHANGED <<runs, device, s2mm>>
        /\ mem' = Write(mem, [r \in RowsOf(Reusable) |-> PairFrame(index)])
    BY <1>3 DEF CopyFrame, Goto, dmaVars
  <2>2. mem'.dirty = mem.dirty \union RowsOf(Reusable) /\ mem'.dram = mem.dram
    BY <1>0, <2>1, DataCached, WriteBuffer
  <2>3. RowsOf(Reusable) \intersect RowsOf(Receive) = {}
    BY RowsApart
  <2> QED BY <1>1, <2>1, <2>2, <2>3
<1>4. CASE SendCopy
  <2>1. /\ pc = "copied" /\ pc' = "awaitSend" /\ UNCHANGED <<runs, device, s2mm>>
        /\ mem' = Flush(mem, Reusable)
    BY <1>4 DEF SendCopy, Goto
  <2>2. \A p \in Pairs : /\ <<Receive, p>> \in Rows /\ <<Receive, p>> \notin RowsOf(Reusable)
    BY RowsApart
  <2>3. mem'.dirty = mem.dirty \ RowsOf(Reusable)
        /\ \A p \in Pairs : mem'.dram[<<Receive, p>>] = mem.dram[<<Receive, p>>]
    BY <1>0, <2>1, <2>2, FlushFacts
  <2> QED BY <1>1, <2>1, <2>3
<1>5. CASE SendPrefilled
  BY <1>1, <1>5 DEF SendPrefilled, Goto
<1>6. CASE AwaitSend
  <2>1. /\ pc = "awaitSend" /\ pc' \in {"send", "awaitReceive"}
        /\ UNCHANGED <<runs, device, s2mm, mem>>
    BY <1>6 DEF AwaitSend, Goto, dmaVars
  <2> QED BY <1>1, <2>1
<1>7. CASE AwaitReceive
  <2>1. /\ pc = "awaitReceive" /\ pc' = "validate" /\ s2mm.left = 0
        /\ UNCHANGED <<runs, device, s2mm, mem>>
    BY <1>7 DEF AwaitReceive, Goto, dmaVars
  <2> QED BY <1>1, <2>1
<1>8. CASE Consume
  <2>1. UNCHANGED <<pc, index, runs, s2mm, mem>> /\ device'.sent = device.sent
    BY <1>0, <1>8 DEF Consume, hostVars, DeviceInv
  <2> QED BY <1>0, <2>1 DEF ReceiveInv
<1>9. CASE Deliver
  <2>1. /\ UNCHANGED <<pc, index, runs>> /\ s2mm.left > 0 /\ device.sent < PairsTaken
        /\ mem' = [mem EXCEPT !.dram[<<Receive, s2mm.row>>] = Answer(device.sent)]
        /\ s2mm' = [row |-> s2mm.row + 1, left |-> s2mm.left - 1]
        /\ device' = [device EXCEPT !.sent = @ + 1]
    BY <1>9 DEF Deliver, hostVars
  <2> SUFFICES ASSUME pc \in Receiving PROVE ReceiveInv'
    BY <2>1 DEF ReceiveInv
  <2>2. /\ s2mm.row \in 0..PairCount /\ s2mm.left = PairCount - s2mm.row
        /\ device.sent = runs * PairCount + s2mm.row /\ pc # "validate"
    BY <1>0, <2>1 DEF ReceiveInv
  <2>3. s2mm.row \in Pairs
    BY <1>0, <2>1, <2>2 DEF Pairs
  <2>4. Answer(device.sent) = Result(runs, s2mm.row)
    <3>1. device.sent + 2 \in 1..Len(device.consumed)
      BY <1>0, <2>1 DEF PairsTaken, DeviceInv
    <3>3. device.sent \div PairCount = runs
      BY <1>0, <2>2, <2>3, TurnOfFrame
    <3>4. device.consumed[device.sent + 2] = PairFrame(s2mm.row)
      <4>1. device.consumed[device.sent + 2] = ExpectedFrame(device.sent + 2)
        BY <1>0, <3>1 DEF DeviceInv, SentIsBuilt
      <4>2. ExpectedFrame(device.sent + 2) = PairFrame(s2mm.row)
        BY <1>0, <2>2, <2>3, DueFrame
      <4> QED BY <4>1, <4>2
    <3> QED BY <3>3, <3>4 DEF Answer, PairFrame
  <2>5. /\ mem'.dirty = mem.dirty
        /\ mem'.dram = [mem.dram EXCEPT ![<<Receive, s2mm.row>>] = Answer(device.sent)]
    BY <1>0, <2>1 DEF MemInv
  <2>6. <<Receive, s2mm.row>> \in DOMAIN mem.dram
    BY <1>0, <2>3, RowsApart DEF MemInv
  <2>7. ASSUME NEW p \in Pairs, p < s2mm.row + 1
        PROVE  mem'.dram[<<Receive, p>>] = Result(runs, p)
    <3>1. CASE p = s2mm.row
      BY <2>4, <2>5, <2>6, <3>1
    <3>2. CASE p # s2mm.row
      <4>1. p < s2mm.row
        BY <1>0, <2>7, <3>2 DEF Pairs
      <4>2. mem.dram[<<Receive, p>>] = Result(runs, p)
        BY <1>0, <4>1 DEF ReceiveInv
      <4>3. <<Receive, p>> # <<Receive, s2mm.row>>
        BY <3>2
      <4>4. <<Receive, p>> \in DOMAIN mem.dram
        BY <1>0, RowsApart DEF MemInv
      <4> QED BY <2>5, <4>2, <4>3, <4>4
    <3> QED BY <3>1, <3>2
  <2>8. /\ s2mm'.row = s2mm.row + 1 /\ s2mm'.left = s2mm.left - 1
        /\ device'.sent = device.sent + 1
    BY <1>0, <2>1 DEF DeviceInv
  <2> QED BY <1>0, <2>1, <2>2, <2>3, <2>5, <2>7, <2>8 DEF ReceiveInv, Pairs
<1>10. CASE Evict \/ Fetch
  <2>1. UNCHANGED <<pc, runs, device, s2mm>>
    BY <1>0, <1>10, CacheFacts DEF hostVars, dmaVars
  <2>2. /\ mem'.dirty \subseteq mem.dirty
        /\ \A r \in Rows \ mem.dirty : mem'.dram[r] = mem.dram[r]
    BY <1>0, <1>10, CacheFacts
  <2>3. \A p \in Pairs : <<Receive, p>> \in Rows
    BY RowsApart
  <2> QED BY <1>0, <2>1, <2>2, <2>3 DEF ReceiveInv
<1>11. CASE /\ pc' \notin Receiving
  BY <1>11 DEF ReceiveInv
<1>12. \/ pc' \notin Receiving \/ ArmReceive \/ CopyFrame \/ SendCopy \/ SendPrefilled
       \/ AwaitSend \/ AwaitReceive \/ Consume \/ Deliver \/ Evict \/ Fetch
  <2>1. CASE \/ AllocateProfile \/ FillTable \/ SendTable \/ AllocateArena \/ AllocateFrame
             \/ AllocateReusable \/ ReceiveBuffer \/ ArenaFallback \/ FramesFallback
             \/ ZeroReceive \/ Validate \/ Release \/ WaitRaises
    BY <2>1 DEF AllocateProfile, FillTable, SendTable, AllocateArena, AllocateFrame,
       AllocateReusable, ReceiveBuffer, AllocateReceive, ArenaFallback, FramesFallback,
       ZeroReceive, Validate, Release, WaitRaises, Goto, Raise
  <2>2. CASE AwaitTable
    BY <2>2 DEF AwaitTable, ModeInv, Modes, Goto
  <2> QED BY <2>1, <2>2 DEF Next, Host
<1> QED BY <1>2, <1>3, <1>4, <1>5, <1>6, <1>7, <1>8, <1>9, <1>10, <1>11, <1>12

(* What a validation compares is what this session delivered, and it never *)
(* fails.                                                                  *)
LEMMA ValidationPasses ==
  ASSUME DataInv, Validate
  PROVE  /\ rows' = [p \in Pairs |-> Result(runs, p)] /\ runs' = runs + 1
         /\ pc' \in {"zero", "finally"} /\ outcome' = outcome
<1>1. /\ pc = "validate" /\ mem' = Invalidate(mem, Receive)
      /\ rows' = [p \in Pairs |-> Load(mem', <<Receive, p>>)]
      /\ IF \A p \in Pairs : Matches(rows'[p], p)
           THEN /\ runs' = runs + 1
                /\ Goto(IF runs = TimedRuns THEN "finally" ELSE "zero")
           ELSE Raise /\ UNCHANGED runs
  BY DEF Validate
<1>2. /\ mem'.dram = mem.dram
      /\ \A r \in RowsOf(Receive) : mem'.cache[r] = Uncached
  BY <1>1, RowsApart DEF DataInv, MemInv, Invalidate
<1>3. \A p \in Pairs : mem.dram[<<Receive, p>>] = Result(runs, p)
  <2>1. s2mm.row \in 0..PairCount /\ s2mm.left = PairCount - s2mm.row /\ s2mm.left = 0
    BY <1>1 DEF DataInv, ReceiveInv, Receiving
  <2>2. \A p \in Pairs : p < s2mm.row
    BY <2>1, HostAssumption DEF Pairs
  <2> QED BY <1>1, <2>2 DEF DataInv, ReceiveInv, Receiving
<1>4. rows' = [p \in Pairs |-> Result(runs, p)]
  BY <1>1, <1>2, <1>3, RowsApart DEF Load
<1>5. \A p \in Pairs : Matches(rows'[p], p)
  BY <1>4 DEF Matches, Result
<1> QED BY <1>1, <1>4, <1>5 DEF Goto

(* Only a validation changes what was compared last.                       *)
LEMMA ValidatedStep ==
  ASSUME DataInv, Next
  PROVE  ValidatedIsDelivered'
<1>1. CASE Validate
  <2>1. rows' = [p \in Pairs |-> Result(runs, p)] /\ runs' - 1 = runs
    BY <1>1, ValidationPasses DEF DataInv, DeviceInv
  <2> QED BY <2>1 DEF ValidatedIsDelivered
<1>2. CASE UNCHANGED <<rows, runs>>
  BY <1>2 DEF DataInv, ValidatedIsDelivered
<1>3. Validate \/ UNCHANGED <<rows, runs>>
  BY DEF Next, Host, AllocateProfile, FillTable, SendTable, AwaitTable, AllocateArena,
     AllocateFrame, AllocateReusable, ReceiveBuffer, AllocateReceive, ArenaFallback,
     FramesFallback, ZeroReceive, ArmReceive, CopyFrame, SendCopy, SendPrefilled, AwaitSend,
     AwaitReceive, Release, WaitRaises, Consume, Deliver, Evict, Fetch, hostVars
<1> QED BY <1>1, <1>2, <1>3

(* Memory, device and results are right at every point of every run.       *)
LEMMA DataInvariant == Spec => []DataInv
<1>1. Init => DataInv
  <2> SUFFICES ASSUME Init PROVE DataInv
    OBVIOUS
  <2>1. /\ pc = "profile" /\ runs = 0 /\ rows = <<>> /\ device.consumed = <<>> /\ device.sent = 0
        /\ device \in [consumed: Seq({TableFrame} \union {PairFrame(p) : p \in Pairs}), sent: Nat]
        /\ s2mm.left = 0
    BY DEF Init
  <2>2. MemInv
    BY DEF Init, MemInv
  <2>3. StorageInv /\ ReceiveInv /\ ValidatedIsDelivered
    BY <2>1 DEF StorageInv, ReceiveInv, Receiving, InSession, ValidatedIsDelivered
  <2>4. DeviceInv
    BY <2>1, HostAssumption DEF DeviceInv, SentIsBuilt, Loading, Settled, Receiving, InSession
  <2> QED BY <2>2, <2>3, <2>4 DEF DataInv
<1>2. IInv /\ DataInv /\ [Next]_vars => DataInv'
  <2> SUFFICES ASSUME IInv, DataInv, [Next]_vars PROVE DataInv'
    OBVIOUS
  <2>1. CASE Next
    <3>1. /\ pc \in Receiving => s2mm.row \in Pairs \/ s2mm.left = 0
          /\ pc \notin Receiving \union {"finally", "ended"} => s2mm.left = 0
      <4>1. pc \in Loading \union {"awaitTable"} \union Settled \union Receiving
                    \union {"finally", "ended"}
        BY DEF IInv, HeldInv, Labels, Loading, Settled, Receiving
      <4>2. pc \in Receiving => s2mm.row \in 0..PairCount /\ s2mm.left = PairCount - s2mm.row
        BY DEF DataInv, ReceiveInv
      <4>3. s2mm.row \in 0..PairCount /\ s2mm.left = PairCount - s2mm.row
              => s2mm.row \in Pairs \/ s2mm.left = 0
        BY HostAssumption DEF Pairs
      <4>4. pc \in Loading \union {"awaitTable"} \union Settled => s2mm.left = 0
        BY DEF DataInv, DeviceInv
      <4> QED BY <4>1, <4>2, <4>3, <4>4
    <3> QED BY <2>1, <3>1, MemStep, StorageStep, DeviceStep, ReceiveStep, ValidatedStep
            DEF IInv, DataInv, ChannelInv
  <2>2. CASE UNCHANGED vars
    <3>1. UNCHANGED <<pc, mode, index, runs, rows, mem, device, s2mm, mm2s>>
      BY <2>2 DEF vars, hostVars, dmaVars
    <3>2. TakenSoFar' = TakenSoFar /\ SendRow' = SendRow
      BY <3>1 DEF TakenSoFar, SendRow
    <3> QED BY <3>1, <3>2 DEF DataInv, MemInv, StorageInv, DeviceInv, ReceiveInv, Holds, Current,
            ValidatedIsDelivered, SentIsBuilt, PairsTaken
  <2> QED BY <2>1, <2>2
<1> QED BY <1>1, <1>2, Invariant, PTL DEF Spec

(* Whichever storage the frames come from, whatever the cache evicts and   *)
(* however many sessions run, the device gets what the host built.         *)
THEOREM HostSentIsBuilt == Spec => []SentIsBuilt
<1>1. DataInv => SentIsBuilt
  BY DEF DataInv, DeviceInv
<1> QED BY <1>1, DataInvariant, PTL

(* No validation ever compares a stale or zeroed row.                      *)
THEOREM HostValidatedIsDelivered == Spec => []ValidatedIsDelivered
<1>1. DataInv => ValidatedIsDelivered
  BY DEF DataInv
<1> QED BY <1>1, DataInvariant, PTL

-----------------------------------------------------------------------------
(* The choice of a send storage, while no buffer comes back misaligned and *)
(* no wait raises: which modes have been tried and found not to fit.       *)
ArenaTried  == {"frames", "framesReceive", "framesFailed"}
FramesTried == {"reusable", "reusableReceive"}
Calm        == requested = "auto" /\ misplaced = {} /\ errors = 0

Chosen(m) ==
  /\ m \in Modes /\ FitsAlone(m)
  /\ m \in {"all-cma", "reuse-copy"} => ~FitsAlone("arena-cma")
  /\ m = "reuse-copy" => ~FitsAlone("all-cma")

ChoiceInv ==
  /\ heap \in Heaps
  /\ pc = "frames" => held = {Table} \union {Frame(p) : p \in 0..(index - 1)}
  /\ pc \notin {"finally", "ended"} => outcome = "none"
  /\ pc \in {"finally", "ended"} => outcome \in {"none", "ok", "raised"}
  /\ Calm =>
       /\ pc \notin {"profile", "finally", "ended"} => TableSize <= heap.contiguous
       /\ pc = "arenaReceive" => Size(Arena) <= heap.contiguous
       /\ (pc = "frames" /\ index > 0) \/ pc \in {"framesReceive", "reusableReceive"} =>
            FrameSize <= heap.contiguous
       /\ pc \in {"arenaFailed"} \union ArenaTried \union FramesTried => ~FitsAlone("arena-cma")
       /\ pc \in {"framesFailed"} \union FramesTried => ~FitsAlone("all-cma")
       /\ pc \in InSession => Chosen(mode)
       /\ pc = "finally" => IF outcome = "none" THEN Chosen(mode)
                            ELSE outcome = "raised" /\ \A m \in Modes : ~FitsAlone(m)
  /\ AutoTakesFirstThatFits

(* Each frame is a buffer of its own.                                      *)
LEMMA CountFrames ==
  ASSUME NEW n \in Nat
  PROVE  LET some == {Frame(p) : p \in 0..(n - 1)}
         IN  IsFiniteSet(some) /\ Cardinality(some) = n
<1> DEFINE S == 0..(n - 1)
           T == {Frame(p) : p \in S}
           f == [p \in S |-> Frame(p)]
<1>1. f \in Bijection(S, T)
  <2>1. \A x, y \in S : f[x] = f[y] => x = y
    BY RowsApart
  <2>2. f \in [S -> T] /\ \A t \in T : \E s \in S : f[s] = t
    OBVIOUS
  <2> HIDE DEF f, S, T
  <2> QED BY <2>1, <2>2, Fun_IsBij
<1>2. ExistsBijection(S, T)
  BY <1>1 DEF ExistsBijection
<1>3. IsFiniteSet(S) /\ Cardinality(S) = n
  BY FS_Interval
<1> HIDE DEF S
<1>4. IsFiniteSet(T) /\ Cardinality(T) = n
  BY <1>2, <1>3, FS_Bijection
<1> QED BY <1>4 DEF S

(* What the allocator has given out at each point where it is asked again. *)
LEMMA SpaceTaken ==
  /\ held = {} => Used = 0 /\ Cardinality(held) = 0
  /\ held = {Table, Arena} => Used = TableSize + Size(Arena) /\ Cardinality(held) = 2
  /\ held = {Table, Reusable} => Used = TableSize + FrameSize /\ Cardinality(held) = 2
  /\ \A n \in Nat : held = {Table} \union {Frame(p) : p \in 0..(n - 1)} =>
       Used = TableSize + FrameSize * n /\ Cardinality(held) = n + 1
<1>0. /\ TableSize \in Nat /\ FrameSize \in Nat /\ Size(Arena) \in Nat
      /\ FrameSize * 0 = 0 /\ FrameSize * 1 = FrameSize
  BY HostAssumption, RowsApart DEF Size
<1>1. ASSUME held = {} PROVE Used = 0 /\ Cardinality(held) = 0
  <2>1. held \ {Table, Arena, Receive} = {} /\ Cardinality({}) = 0
    BY <1>1, FS_EmptySet
  <2> QED BY <1>0, <1>1, <2>1 DEF Used
<1>2. ASSUME held = {Table, Arena}
      PROVE Used = TableSize + Size(Arena) /\ Cardinality(held) = 2
  <2>1. held \ {Table, Arena, Receive} = {} /\ Cardinality({}) = 0
    BY <1>2, FS_EmptySet
  <2>2. Receive \notin held /\ Table \in held /\ Arena \in held
    BY <1>2, RowsApart
  <2>3. Used = TableSize + Size(Arena)
    BY <1>0, <2>1, <2>2 DEF Used
  <2>4. held = {Table} \union {Arena} /\ Arena \notin {Table}
    BY <1>2, RowsApart
  <2>5. IsFiniteSet({Table}) /\ Cardinality({Table}) = 1
    BY FS_Singleton
  <2>6. Cardinality(held) = Cardinality({Table}) + 1
    BY <2>4, <2>5, FS_AddElement
  <2> QED BY <2>3, <2>5, <2>6
<1>3. ASSUME held = {Table, Reusable}
      PROVE Used = TableSize + FrameSize /\ Cardinality(held) = 2
  <2>1. held \ {Table, Arena, Receive} = {Reusable} /\ Cardinality({Reusable}) = 1
    BY <1>3, FS_Singleton, RowsApart
  <2>2. Receive \notin held /\ Table \in held /\ Arena \notin held
    BY <1>3, RowsApart
  <2>3. Used = TableSize + FrameSize
    BY <1>0, <2>1, <2>2 DEF Used
  <2>4. held = {Table} \union {Reusable} /\ Reusable \notin {Table}
    BY <1>3, RowsApart
  <2>5. IsFiniteSet({Table}) /\ Cardinality({Table}) = 1
    BY FS_Singleton
  <2>6. Cardinality(held) = Cardinality({Table}) + 1
    BY <2>4, <2>5, FS_AddElement
  <2> QED BY <2>3, <2>5, <2>6
<1>4. ASSUME NEW n \in Nat, held = {Table} \union {Frame(p) : p \in 0..(n - 1)}
      PROVE Used = TableSize + FrameSize * n /\ Cardinality(held) = n + 1
  <2> DEFINE T == {Frame(p) : p \in 0..(n - 1)}
  <2>1. IsFiniteSet(T) /\ Cardinality(T) = n
    BY CountFrames
  <2>2. held \ {Table, Arena, Receive} = T /\ Table \notin T
    BY <1>4, RowsApart
  <2>3. Receive \notin held /\ Table \in held /\ Arena \notin held
    BY <1>4, RowsApart
  <2>4. held = T \union {Table}
    BY <1>4
  <2> HIDE DEF T
  <2>5. Cardinality(held) = n + 1
    BY <2>1, <2>2, <2>4, FS_AddElement
  <2>6. FrameSize * n \in Nat
    BY <1>0
  <2>7. FrameSize * Cardinality(held \ {Table, Arena, Receive}) = FrameSize * n
    BY <2>1, <2>2
  <2>8. Used = TableSize + FrameSize * Cardinality(held \ {Table, Arena, Receive})
    <3>1. FrameSize * Cardinality(held \ {Table, Arena, Receive}) \in Nat
      BY <2>6, <2>7
    <3>2. Used = TableSize + 0 + 0 + FrameSize * Cardinality(held \ {Table, Arena, Receive})
      BY <2>3 DEF Used
    <3> QED BY <1>0, <3>1, <3>2
  <2> QED BY <2>5, <2>7, <2>8
<1> QED BY <1>1, <1>2, <1>3, <1>4

(* What each mode needs beside the profile table, all at once.             *)
LEMMA NeedsOfModes ==
  /\ FitsAlone("arena-cma") <=>
       /\ TableSize + PairCount * ResultSize + FrameSize * PairCount <= heap.capacity
       /\ {TableSize, Size(Arena), Size(Receive)} \subseteq {s \in Nat : s <= heap.contiguous}
       /\ 3 <= heap.handles
  /\ FitsAlone("all-cma") <=>
       /\ TableSize + PairCount * ResultSize + FrameSize * PairCount <= heap.capacity
       /\ {TableSize, FrameSize, Size(Receive)} \subseteq {s \in Nat : s <= heap.contiguous}
       /\ PairCount + 2 <= heap.handles
  /\ FitsAlone("reuse-copy") <=>
       /\ TableSize + PairCount * ResultSize + FrameSize <= heap.capacity
       /\ {TableSize, FrameSize, Size(Receive)} \subseteq {s \in Nat : s <= heap.contiguous}
       /\ 3 <= heap.handles
  /\ Size(Table) = TableSize /\ Size(Arena) = FrameSize * PairCount
  /\ Size(Reusable) = FrameSize /\ Size(Receive) = PairCount * ResultSize
  /\ \A p : Size(Frame(p)) = FrameSize
  /\ Size(Arena) \in Nat /\ Size(Receive) \in Nat
<1>1. /\ Size(Table) = TableSize /\ Size(Arena) = PairCount * FrameSize
      /\ Size(Reusable) = FrameSize /\ Size(Receive) = PairCount * ResultSize
      /\ \A p : Size(Frame(p)) = FrameSize
  BY RowsApart DEF Size
<1>2. PairCount * FrameSize = FrameSize * PairCount /\ PairCount * FrameSize \in Nat
      /\ PairCount * ResultSize \in Nat /\ FrameSize * 1 = FrameSize
      /\ TableSize \in Nat /\ FrameSize \in Nat /\ PairCount \in Nat \ {0}
  BY HostAssumption
<1>3. FitsAlone("arena-cma") <=>
       /\ TableSize + PairCount * ResultSize + FrameSize * PairCount <= heap.capacity
       /\ {TableSize, Size(Arena), Size(Receive)} \subseteq {s \in Nat : s <= heap.contiguous}
       /\ 3 <= heap.handles
  <2>1. Storage("arena-cma") = {Arena} /\ Cardinality({Arena}) = 1
    BY FS_Singleton DEF Storage
  <2>2. (\A b \in {Arena} \union {Table, Receive} : Size(b) <= heap.contiguous) <=>
          {TableSize, Size(Arena), Size(Receive)} \subseteq {s \in Nat : s <= heap.contiguous}
    BY <1>1, <1>2
  <2>3. FitsAlone("arena-cma") <=>
          /\ TableSize + PairCount * ResultSize + FrameSize * PairCount <= heap.capacity
          /\ \A b \in {Arena} \union {Table, Receive} : Size(b) <= heap.contiguous
          /\ 1 + 2 <= heap.handles
    BY <2>1 DEF FitsAlone
  <2> QED BY <2>2, <2>3
<1>4. FitsAlone("all-cma") <=>
       /\ TableSize + PairCount * ResultSize + FrameSize * PairCount <= heap.capacity
       /\ {TableSize, FrameSize, Size(Receive)} \subseteq {s \in Nat : s <= heap.contiguous}
       /\ PairCount + 2 <= heap.handles
  <2>1. Storage("all-cma") = Frames /\ Cardinality(Frames) = PairCount
    BY <1>2, CountFrames DEF Storage, Frames, Pairs
  <2>2. Frame(0) \in Frames
    BY <1>2 DEF Frames, Pairs
  <2>3. \A b \in Frames : Size(b) = FrameSize
    BY <1>1 DEF Frames
  <2> QED BY <1>1, <1>2, <2>1, <2>2, <2>3 DEF FitsAlone
<1>5. FitsAlone("reuse-copy") <=>
       /\ TableSize + PairCount * ResultSize + FrameSize <= heap.capacity
       /\ {TableSize, FrameSize, Size(Receive)} \subseteq {s \in Nat : s <= heap.contiguous}
       /\ 3 <= heap.handles
  <2>1. Storage("reuse-copy") = {Reusable} /\ Cardinality({Reusable}) = 1
    BY FS_Singleton DEF Storage
  <2>2. (\A b \in {Reusable} \union {Table, Receive} : Size(b) <= heap.contiguous) <=>
          {TableSize, FrameSize, Size(Receive)} \subseteq {s \in Nat : s <= heap.contiguous}
    BY <1>1, <1>2
  <2>3. FitsAlone("reuse-copy") <=>
          /\ TableSize + PairCount * ResultSize + FrameSize * 1 <= heap.capacity
          /\ \A b \in {Reusable} \union {Table, Receive} : Size(b) <= heap.contiguous
          /\ 1 + 2 <= heap.handles
    BY <2>1 DEF FitsAlone
  <2> QED BY <1>2, <2>2, <2>3
<1> QED BY <1>1, <1>2, <1>3, <1>4, <1>5

(* No step changes what fits, and every refusal or grant along the way     *)
(* says something about it.                                                *)
LEMMA ChoiceStep ==
  ASSUME ChoiceInv, DataInv, IInv, Next
  PROVE  ChoiceInv'
<1> USE DEF InSession, ArenaTried, FramesTried
<1>0. /\ heap' = heap /\ requested' = requested
      /\ heap' \in Heaps /\ \A m : FitsAlone(m)' <=> FitsAlone(m)
  <2>1. heap' = heap /\ requested' = requested
    BY DEF Next, Host, AllocateProfile, FillTable, SendTable, AwaitTable, AllocateArena,
       AllocateFrame, AllocateReusable, ReceiveBuffer, AllocateReceive, ArenaFallback,
       FramesFallback, ZeroReceive, ArmReceive, CopyFrame, SendCopy, SendPrefilled, AwaitSend,
       AwaitReceive, Validate, Release, WaitRaises, Consume, Deliver, Evict, Fetch, hostVars,
       heapVars
  <2> QED BY <2>1 DEF ChoiceInv, FitsAlone
<1>1. \A m : Chosen(m)' <=> Chosen(m)
  BY <1>0 DEF Chosen
<1>2. /\ heap.capacity \in Nat /\ heap.contiguous \in Nat /\ heap.handles \in Nat
      /\ TableSize \in Nat /\ FrameSize \in Nat /\ PairCount \in Nat \ {0}
      /\ index \in Pairs /\ index \in Nat /\ FrameSize * PairCount \in Nat
      /\ PairCount * ResultSize \in Nat /\ FrameSize * index \in Nat
      /\ FrameSize * index + FrameSize <= FrameSize * PairCount
  <2>1. /\ heap.capacity \in Nat /\ heap.contiguous \in Nat /\ heap.handles \in Nat
        /\ TableSize \in Nat /\ FrameSize \in Nat /\ PairCount \in Nat \ {0}
        /\ ResultSize \in Nat
    BY HostAssumption DEF ChoiceInv, Heaps
  <2>2. index \in Pairs
    BY DEF IInv, ChannelInv
  <2>3. index \in Nat /\ index + 1 <= PairCount
    BY <2>1, <2>2 DEF Pairs
  <2>4. FrameSize * (index + 1) <= FrameSize * PairCount
    BY <2>1, <2>3
  <2>5. FrameSize * (index + 1) = FrameSize * index + FrameSize
    BY <2>1, <2>3
  <2> QED BY <2>1, <2>2, <2>3, <2>4, <2>5
<1>3. ASSUME UNCHANGED <<misplaced, mode, outcome, errors>>, pc' # "ended",
             pc \in InSession, pc' \in InSession
      PROVE  ChoiceInv'
  BY <1>0, <1>1, <1>3 DEF ChoiceInv, Calm, AutoTakesFirstThatFits
<1>4. CASE AllocateProfile
  <2>1. pc = "profile" /\ held = {}
    BY <1>4 DEF AllocateProfile, IInv, HeldInv
  <2>2. Used = 0 /\ Cardinality(held) = 0
    BY <2>1, SpaceTaken
  <2>3. CASE Granted(Table) /\ Goto("fillTable")
    <3>1. TableSize <= heap.contiguous
      BY <2>3, NeedsOfModes DEF Granted, Fits
    <3> QED BY <1>0, <2>1, <2>3, <3>1 DEF ChoiceInv, Goto, AutoTakesFirstThatFits
  <2>4. CASE Misplaced(Table) /\ Raise
    BY <1>0, <2>4 DEF ChoiceInv, Misplaced, Raise, Calm, AutoTakesFirstThatFits
  <2>5. CASE Refused(Table) /\ pc' = "ended" /\ outcome' = "raised"
    <3>1. \A m \in Modes : ~FitsAlone(m)
      BY <1>2, <2>2, <2>5, NeedsOfModes DEF Refused, Fits, Modes
    <3>2. ~FitsAlone("arena-cma") /\ ~FitsAlone("all-cma") /\ ~FitsAlone("reuse-copy")
      BY <3>1 DEF Modes
    <3> QED BY <1>0, <2>5, <3>2 DEF ChoiceInv, Calm, AutoTakesFirstThatFits
  <2> QED BY <1>4, <2>3, <2>4, <2>5 DEF AllocateProfile
<1>5. CASE FillTable \/ SendTable
  <2>1. /\ pc \in {"fillTable", "sendTable"} /\ pc' \in {"sendTable", "awaitTable"}
        /\ UNCHANGED <<outcome, misplaced, errors>>
    BY <1>5 DEF FillTable, SendTable, Goto, heapVars, dmaVars
  <2> QED BY <1>0, <2>1 DEF ChoiceInv, Calm, AutoTakesFirstThatFits
<1>6. CASE AwaitTable
  <2>1. /\ pc = "awaitTable" /\ mode = requested
        /\ UNCHANGED <<outcome, misplaced, errors, index, held>>
        /\ pc' = CASE mode \in {"auto", "arena-cma"} -> "arena"
                   [] mode = "all-cma"               -> "frames"
                   [] mode = "reuse-copy"            -> "reusable"
    BY <1>6 DEF AwaitTable, Goto, heapVars, dmaVars, IInv, ModeInv
  <2>2. requested \in Modes \union {"auto"} /\ index = 0 /\ held = {Table}
    BY <2>1 DEF IInv, ModeInv, HeldInv
  <2>3. pc' \in {"arena", "frames", "reusable"} /\ (requested = "auto" => pc' = "arena")
    BY <2>1, <2>2 DEF Modes
  <2>4. held' = {Table} \union {Frame(p) : p \in 0..(index' - 1)}
    BY <2>1, <2>2
  <2> QED BY <1>0, <2>1, <2>3, <2>4 DEF ChoiceInv, Calm, AutoTakesFirstThatFits
<1>7. CASE AllocateArena
  <2>1. pc = "arena" /\ held = {Table} /\ UNCHANGED errors
    BY <1>7 DEF AllocateArena, IInv, HeldInv, dmaVars
  <2>2. Used = TableSize /\ Cardinality(held) = 1
    <3>1. held = {Table} \union {Frame(p) : p \in 0..(0 - 1)} /\ FrameSize * 0 = 0
      BY <1>2, <2>1
    <3> QED BY <1>2, <3>1, SpaceTaken
  <2>3. CASE Granted(Arena) /\ Goto("arenaReceive")
    <3>1. Size(Arena) <= heap.contiguous
      BY <2>3 DEF Granted, Fits
    <3> QED BY <1>0, <2>1, <2>3, <3>1, NeedsOfModes
            DEF ChoiceInv, Goto, Granted, Calm, AutoTakesFirstThatFits, Size
  <2>4. CASE Misplaced(Arena) /\ Goto("arenaFailed")
    BY <1>0, <2>1, <2>4 DEF ChoiceInv, Misplaced, Goto, Calm, AutoTakesFirstThatFits
  <2>5. CASE Refused(Arena) /\ Goto("arenaFailed")
    <3>1. ~FitsAlone("arena-cma")
      BY <1>2, <2>2, <2>5, NeedsOfModes DEF Refused, Fits
    <3> QED BY <1>0, <2>1, <2>5, <3>1 DEF ChoiceInv, Goto, Refused, Calm, AutoTakesFirstThatFits
  <2> QED BY <1>7, <2>3, <2>4, <2>5 DEF AllocateArena
<1>8. CASE AllocateFrame
  <2>1. /\ pc = "frames" /\ held = {Table} \union {Frame(p) : p \in 0..(index - 1)}
        /\ UNCHANGED errors
    BY <1>8 DEF AllocateFrame, ChoiceInv, dmaVars
  <2>2. Used = TableSize + FrameSize * index /\ Cardinality(held) = index + 1
    BY <1>2, <2>1, SpaceTaken
  <2>3. CASE /\ Granted(Frame(index)) /\ held' = held \union {Frame(index)}
             /\ \/ Goto("framesReceive")
                \/ Goto("frames") /\ index' = index + 1
    <3>1. FrameSize <= heap.contiguous
      BY <2>3, NeedsOfModes DEF Granted, Fits
    <3>2. held' = {Table} \union {Frame(p) : p \in 0..((index + 1) - 1)}
      <4>1. 0..((index + 1) - 1) = 0..(index - 1) \union {index}
        BY <1>2
      <4> QED BY <2>1, <2>3, <4>1
    <3> QED BY <1>0, <2>1, <2>3, <3>1, <3>2
            DEF ChoiceInv, Goto, Granted, Calm, AutoTakesFirstThatFits
  <2>4. CASE Misplaced(Frame(index)) /\ Goto("framesFailed")
    BY <1>0, <2>1, <2>4 DEF ChoiceInv, Misplaced, Goto, Calm, AutoTakesFirstThatFits
  <2>5. CASE Refused(Frame(index)) /\ Goto("framesFailed")
    <3>1. ~FitsAlone("all-cma")
      BY <1>2, <2>2, <2>5, NeedsOfModes DEF Refused, Fits, Pairs
    <3> QED BY <1>0, <2>1, <2>5, <3>1 DEF ChoiceInv, Goto, Refused, Calm, AutoTakesFirstThatFits
  <2> QED BY <1>8, <2>3, <2>4, <2>5 DEF AllocateFrame
<1>9. CASE AllocateReusable
  <2>1. pc = "reusable" /\ held = {Table} /\ UNCHANGED errors
    BY <1>9 DEF AllocateReusable, IInv, HeldInv, dmaVars
  <2>2. Used = TableSize /\ Cardinality(held) = 1
    <3>1. held = {Table} \union {Frame(p) : p \in 0..(0 - 1)} /\ FrameSize * 0 = 0
      BY <1>2, <2>1
    <3> QED BY <1>2, <3>1, SpaceTaken
  <2>3. CASE Granted(Reusable) /\ Goto("reusableReceive")
    <3>1. FrameSize <= heap.contiguous
      BY <2>3, NeedsOfModes DEF Granted, Fits
    <3> QED BY <1>0, <2>1, <2>3, <3>1 DEF ChoiceInv, Goto, Granted, Calm, AutoTakesFirstThatFits
  <2>4. CASE Misplaced(Reusable) /\ Raise
    BY <1>0, <2>1, <2>4 DEF ChoiceInv, Misplaced, Raise, Calm, AutoTakesFirstThatFits
  <2>5. CASE Refused(Reusable) /\ Raise
    <3>1. ~FitsAlone("reuse-copy")
      BY <1>2, <2>2, <2>5, NeedsOfModes DEF Refused, Fits
    <3> QED BY <1>0, <2>1, <2>5, <3>1
            DEF ChoiceInv, Raise, Refused, Calm, AutoTakesFirstThatFits, Modes
  <2> QED BY <1>9, <2>3, <2>4, <2>5 DEF AllocateReusable
<1>10. CASE ReceiveBuffer
  <2>2. CASE pc = "arenaReceive"
    <3>1. /\ \/ Granted(Receive) /\ Goto("zero") /\ mode' = "arena-cma"
             \/ (Misplaced(Receive) \/ Refused(Receive)) /\ Goto("arenaFailed")
          /\ UNCHANGED errors
      BY <1>10, <2>2 DEF ReceiveBuffer, AllocateReceive, dmaVars
    <3>2. held = {Table, Arena}
      BY <2>2 DEF IInv, HeldInv
    <3>3. Used = TableSize + Size(Arena) /\ Cardinality(held) = 2
      BY <3>2, SpaceTaken
    <3>4. CASE Granted(Receive) /\ Goto("zero") /\ mode' = "arena-cma"
      <4>1. Calm => FitsAlone("arena-cma")
        BY <1>2, <2>2, <3>3, <3>4, NeedsOfModes DEF ChoiceInv, Granted, Fits
      <4>2. Calm => Chosen("arena-cma")
        BY <4>1 DEF Chosen, Modes
      <4> QED BY <1>0, <1>1, <2>2, <3>1, <3>4, <4>2
              DEF ChoiceInv, Goto, Granted, Calm, AutoTakesFirstThatFits
    <3>5. CASE Misplaced(Receive) /\ Goto("arenaFailed")
      BY <1>0, <2>2, <3>1, <3>5 DEF ChoiceInv, Misplaced, Goto, Calm, AutoTakesFirstThatFits
    <3>6. CASE Refused(Receive) /\ Goto("arenaFailed")
      <4>1. ~FitsAlone("arena-cma")
        BY <1>2, <3>3, <3>6, NeedsOfModes DEF Refused, Fits
      <4> QED BY <1>0, <2>2, <3>1, <3>6, <4>1
              DEF ChoiceInv, Goto, Refused, Calm, AutoTakesFirstThatFits
    <3> QED BY <3>1, <3>4, <3>5, <3>6
  <2>3. CASE pc = "framesReceive"
    <3>1. /\ \/ Granted(Receive) /\ Goto("zero") /\ mode' = "all-cma"
             \/ (Misplaced(Receive) \/ Refused(Receive)) /\ Goto("framesFailed")
          /\ UNCHANGED errors
      BY <1>10, <2>3 DEF ReceiveBuffer, AllocateReceive, dmaVars
    <3>2. held = {Table} \union {Frame(p) : p \in 0..(PairCount - 1)}
      BY <2>3 DEF IInv, HeldInv, Frames, Pairs
    <3>3. Used = TableSize + FrameSize * PairCount /\ Cardinality(held) = PairCount + 1
      BY <1>2, <3>2, SpaceTaken
    <3>4. CASE Granted(Receive) /\ Goto("zero") /\ mode' = "all-cma"
      <4>1. Calm => FitsAlone("all-cma") /\ ~FitsAlone("arena-cma")
        BY <1>2, <2>3, <3>3, <3>4, NeedsOfModes DEF ChoiceInv, Granted, Fits
      <4>2. Calm => Chosen("all-cma")
        BY <4>1 DEF Chosen, Modes
      <4> QED BY <1>0, <1>1, <2>3, <3>1, <3>4, <4>2
              DEF ChoiceInv, Goto, Granted, Calm, AutoTakesFirstThatFits
    <3>5. CASE Misplaced(Receive) /\ Goto("framesFailed")
      BY <1>0, <2>3, <3>1, <3>5 DEF ChoiceInv, Misplaced, Goto, Calm, AutoTakesFirstThatFits
    <3>6. CASE Refused(Receive) /\ Goto("framesFailed")
      <4>1. ~FitsAlone("all-cma")
        BY <1>2, <3>3, <3>6, NeedsOfModes DEF Refused, Fits
      <4> QED BY <1>0, <2>3, <3>1, <3>6, <4>1
              DEF ChoiceInv, Goto, Refused, Calm, AutoTakesFirstThatFits
    <3> QED BY <3>1, <3>4, <3>5, <3>6
  <2>4. CASE pc = "reusableReceive"
    <3>1. /\ \/ Granted(Receive) /\ Goto("zero") /\ mode' = "reuse-copy"
             \/ (Misplaced(Receive) \/ Refused(Receive)) /\ Raise
          /\ UNCHANGED errors
      BY <1>10, <2>4 DEF ReceiveBuffer, AllocateReceive, dmaVars
    <3>2. held = {Table, Reusable}
      BY <2>4 DEF IInv, HeldInv
    <3>3. Used = TableSize + FrameSize /\ Cardinality(held) = 2
      BY <3>2, SpaceTaken
    <3>4. CASE Granted(Receive) /\ Goto("zero") /\ mode' = "reuse-copy"
      <4>1. Calm => FitsAlone("reuse-copy") /\ ~FitsAlone("arena-cma") /\ ~FitsAlone("all-cma")
        BY <1>2, <2>4, <3>3, <3>4, NeedsOfModes DEF ChoiceInv, Granted, Fits
      <4>2. Calm => Chosen("reuse-copy")
        BY <4>1 DEF Chosen, Modes
      <4> QED BY <1>0, <1>1, <2>4, <3>1, <3>4, <4>2
              DEF ChoiceInv, Goto, Granted, Calm, AutoTakesFirstThatFits
    <3>5. CASE Misplaced(Receive) /\ Raise
      BY <1>0, <2>4, <3>1, <3>5 DEF ChoiceInv, Misplaced, Raise, Calm, AutoTakesFirstThatFits
    <3>6. CASE Refused(Receive) /\ Raise
      <4>1. ~FitsAlone("reuse-copy")
        BY <1>2, <3>3, <3>6, NeedsOfModes DEF Refused, Fits
      <4> QED BY <1>0, <2>4, <3>1, <3>6, <4>1
              DEF ChoiceInv, Raise, Refused, Calm, AutoTakesFirstThatFits, Modes
    <3> QED BY <3>1, <3>4, <3>5, <3>6
  <2>5. pc \in {"arenaReceive", "framesReceive", "reusableReceive"}
    BY <1>10 DEF ReceiveBuffer, AllocateReceive
  <2> QED BY <2>2, <2>3, <2>4, <2>5
<1>11. CASE ArenaFallback
  <2>1. /\ pc = "arenaFailed" /\ held' = held \ (named \intersect {Receive, Arena})
        /\ UNCHANGED <<misplaced, errors, index>>
        /\ \/ requested = "arena-cma" /\ Raise
           \/ Goto("frames")
    BY <1>11 DEF ArenaFallback, Abandon, dmaVars
  <2>2. held = named \union {Table} /\ named \subseteq {Arena, Receive} /\ index = 0
    BY <2>1 DEF IInv, HeldInv
  <2>3. held' = {Table} /\ index' = 0
    BY <2>1, <2>2, RowsApart
  <2>4. held' = {Table} \union {Frame(p) : p \in 0..(index' - 1)}
    BY <2>3
  <2> QED BY <1>0, <2>1, <2>3, <2>4 DEF ChoiceInv, Raise, Goto, Calm, AutoTakesFirstThatFits
<1>12. CASE FramesFallback
  <2>1. /\ pc = "framesFailed" /\ UNCHANGED <<misplaced, errors>>
        /\ \/ requested = "all-cma" /\ Raise
           \/ Goto("reusable")
    BY <1>12 DEF FramesFallback, dmaVars
  <2> QED BY <1>0, <2>1 DEF ChoiceInv, Raise, Goto, Calm, AutoTakesFirstThatFits
<1>13. CASE ZeroReceive \/ ArmReceive \/ CopyFrame \/ SendCopy \/ SendPrefilled \/ AwaitSend
            \/ AwaitReceive
  BY <1>3, <1>13 DEF ZeroReceive, ArmReceive, CopyFrame, SendCopy, SendPrefilled, AwaitSend,
     AwaitReceive, Goto, heapVars, dmaVars
<1>14. CASE Validate
  <2>1. /\ pc = "validate" /\ pc' \in {"zero", "finally"} /\ outcome' = outcome
        /\ UNCHANGED <<mode, misplaced, errors>>
    BY <1>14, ValidationPasses DEF Validate, heapVars, dmaVars
  <2> QED BY <1>0, <1>1, <2>1 DEF ChoiceInv, Calm, AutoTakesFirstThatFits
<1>15. CASE Release
  <2>1. /\ pc = "finally" /\ pc' = "ended" /\ UNCHANGED <<mode, misplaced, errors>>
        /\ outcome' = IF outcome = "raised" THEN "raised" ELSE "ok"
    BY <1>15 DEF Release, dmaVars
  <2>2. outcome' \in {"none", "ok", "raised"}
    BY <2>1
  <2>3. AutoTakesFirstThatFits'
    <3> SUFFICES ASSUME Calm PROVE AutoTakesFirstThatFits'
      BY <1>0, <2>1 DEF Calm, AutoTakesFirstThatFits
    <3>1. CASE outcome = "none"
      <4>1. Chosen(mode) /\ outcome' = "ok"
        BY <2>1, <3>1 DEF ChoiceInv
      <4> QED BY <1>0, <2>1, <4>1 DEF Chosen, Modes, AutoTakesFirstThatFits
    <3>2. CASE outcome # "none"
      <4>1. outcome' = "raised" /\ ~FitsAlone("arena-cma") /\ ~FitsAlone("all-cma")
            /\ ~FitsAlone("reuse-copy")
        BY <2>1, <3>2 DEF ChoiceInv, Modes
      <4> QED BY <1>0, <2>1, <4>1 DEF AutoTakesFirstThatFits
    <3> QED BY <3>1, <3>2
  <2> QED BY <1>0, <2>1, <2>2, <2>3 DEF ChoiceInv, Calm
<1>16. CASE WaitRaises
  <2>1. pc' = "finally" /\ outcome' = "raised" /\ errors' # 0
    BY <1>16 DEF WaitRaises, Raise, IInv, ChannelInv
  <2> QED BY <1>0, <2>1 DEF ChoiceInv, Calm, AutoTakesFirstThatFits
<1>17. CASE Consume \/ Deliver \/ Evict \/ Fetch
  <2>1. UNCHANGED <<pc, mode, outcome, misplaced, errors, index, held>>
    BY <1>17 DEF Consume, Deliver, Evict, Fetch, hostVars, heapVars, dmaVars
  <2> QED BY <1>0, <1>1, <2>1 DEF ChoiceInv, Calm, AutoTakesFirstThatFits
<1> QED BY <1>4, <1>5, <1>6, <1>7, <1>8, <1>9, <1>10, <1>11, <1>12, <1>13, <1>14, <1>15, <1>16,
           <1>17 DEF Next, Host

(* While nothing is misaligned and no wait raises, "auto" ends with the    *)
(* first of arena, frames and copy that would have fitted had it been      *)
(* asked for alone, and raises only if none would.                         *)
THEOREM HostAutoTakesFirstThatFits == Spec => []AutoTakesFirstThatFits
<1>1. Init => ChoiceInv
  BY DEF Init, ChoiceInv, Calm, InSession, ArenaTried, FramesTried, AutoTakesFirstThatFits
<1>2. IInv /\ DataInv /\ ChoiceInv /\ [Next]_vars => ChoiceInv'
  <2> SUFFICES ASSUME IInv, DataInv, ChoiceInv, [Next]_vars PROVE ChoiceInv'
    OBVIOUS
  <2>1. CASE UNCHANGED vars
    <3>1. UNCHANGED <<pc, requested, mode, outcome, heap, misplaced, errors, index, held>>
      BY <2>1 DEF vars, hostVars, heapVars, dmaVars
    <3>2. \A m : FitsAlone(m)' <=> FitsAlone(m)
      BY <3>1 DEF FitsAlone
    <3>3. \A m : Chosen(m)' <=> Chosen(m)
      BY <3>2 DEF Chosen
    <3> QED BY <3>1, <3>2, <3>3 DEF ChoiceInv, Calm, AutoTakesFirstThatFits
  <2> QED BY <2>1, ChoiceStep
<1>3. ChoiceInv => AutoTakesFirstThatFits
  BY DEF ChoiceInv
<1> QED BY <1>1, <1>2, <1>3, Invariant, DataInvariant, PTL DEF Spec
=============================================================================
