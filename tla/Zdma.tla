-------------------------------- MODULE Zdma --------------------------------
(***************************************************************************)
(* The polled ZDMA driver of fpga_host.cpp: fpga_dma_copy moves a staging  *)
(* buffer in chunks, one descriptor at a time, over a channel whose DONE   *)
(* and error events are sticky and whose register writes are posted.       *)
(*                                                                         *)
(* The channel is external and modelled from what the driver's comments    *)
(* rely on: writes reach it in order but late; CTRL2.EN and the DONE event *)
(* of a finished transfer change in either order; a transfer reads its     *)
(* source and its descriptor while it runs, and may fail or never end.     *)
(***************************************************************************)
EXTENDS Naturals

CONSTANTS
    Chunks,      \* descriptors a copy is split into
    MaxCopies    \* bound: copies made

ASSUME ZdmaAssumption == Chunks \in Nat \ {0} /\ MaxCopies \in Nat \ {0}

VARIABLES
    pc,          \* where the caller of fpga_dma_copy is
    copy, chunk, \* the running copy and the chunk it is at
    hooked,      \* the copy has a poll hook (the lookahead's producer)
    hookFailed,  \* the hook gave up
    sampledEn,   \* the CTRL2.EN bit as last read by the completion loop
    expired,     \* the deadline of the running wait has passed
    src,         \* the copy whose bytes the source buffer holds
    clearPosted, startPosted,  \* register writes that have not arrived yet
    desc,        \* the copy and chunk the descriptor registers describe
    en, done, err,             \* CTRL2.EN; the sticky ISR events
    work,        \* what the channel is doing
    dst          \* per chunk, the copy whose bytes the destination holds

host    == <<copy, chunk, hooked, hookFailed, sampledEn, src>>
channel == <<en, done, err, work, dst>>
dmaVars == <<pc, host, expired, clearPosted, startPosted, desc, channel>>

ChunkIds == 1..Chunks
CopyIds  == 1..MaxCopies
Pc == {"idle", "gate", "clear", "ack", "desc", "start", "ctrl", "isr",
       "drain", "returned", "failed", "closing", "closed", "fatal"}
Waits == {"gate", "ack", "ctrl", "isr", "drain", "closing"}

\* Register and program state have their types; the driver numbers no chunk
\* beyond the last one of the copy.
DmaTypeOK ==
    /\ pc \in Pc /\ copy \in 0..MaxCopies /\ chunk \in ChunkIds
    /\ {hooked, hookFailed, sampledEn, expired} \subseteq BOOLEAN
    /\ {clearPosted, startPosted, en, done, err} \subseteq BOOLEAN
    /\ src \in 0..MaxCopies
    /\ desc \in [copy : 0..MaxCopies, chunk : ChunkIds]
    /\ work \in {"none", "copying", "copied"}
    /\ dst \in [ChunkIds -> 0..MaxCopies]

DmaInit ==
    /\ pc = "idle" /\ copy = 0 /\ chunk = 1
    /\ hooked = FALSE /\ hookFailed = FALSE /\ sampledEn = FALSE
    /\ expired = FALSE /\ src = 0
    /\ clearPosted = FALSE /\ startPosted = FALSE
    /\ desc = [copy |-> 0, chunk |-> 1]
    /\ en = FALSE /\ done = FALSE /\ err = FALSE
    /\ work = "none" /\ dst = [c \in ChunkIds |-> 0]

-----------------------------------------------------------------------------
(* The driver *)

Goto(next) == pc' = next /\ expired' = FALSE

\* The caller fills the staging buffer and calls fpga_dma_copy.
Begin ==
    /\ pc \in {"idle", "returned"} /\ copy < MaxCopies
    /\ copy' = copy + 1 /\ src' = copy + 1 /\ chunk' = 1
    /\ hooked' \in BOOLEAN /\ hookFailed' = FALSE /\ sampledEn' = FALSE
    /\ Goto("gate")
    /\ UNCHANGED <<clearPosted, startPosted, desc, channel>>

\* Mutant of Gate: the completion loop is trusted to have seen EN clear.
GateSkipped ==
    /\ pc = "gate" /\ Goto("clear")
    /\ UNCHANGED <<host, clearPosted, startPosted, desc, channel>>

\* zdma_wait_channel_disabled, then the byte counter and the source sync,
\* whose readback may fail.
Gate ==
    /\ pc = "gate"
    /\ \/ ~en /\ Goto("clear")
       \/ ~en /\ Goto("failed")
       \/ en /\ expired /\ Goto("failed")
    /\ UNCHANGED <<host, clearPosted, startPosted, desc, channel>>

\* zdma_clear_isr_for_new_transfer writes the W1C event bits ...
ClearIsr ==
    /\ pc = "clear" /\ clearPosted' = TRUE /\ Goto("ack")
    /\ UNCHANGED <<host, startPosted, desc, channel>>

\* Mutant of AckIsr: the fence is taken for an acknowledgement.
AckIsrUnread ==
    /\ pc = "ack" /\ Goto("desc")
    /\ UNCHANGED <<host, clearPosted, startPosted, desc, channel>>

\* ... and waits until it reads them back as clear.
AckIsr ==
    /\ pc = "ack"
    /\ \/ ~done /\ ~err /\ Goto("desc")
       \/ (done \/ err) /\ expired /\ Goto("failed")
    /\ UNCHANGED <<host, clearPosted, startPosted, desc, channel>>

\* The descriptor words, fenced and, in P2 mode, read back and compared.
WriteDescriptor ==
    /\ pc = "desc"
    /\ desc' = [copy |-> copy, chunk |-> chunk]
    /\ Goto("start") \/ Goto("failed")
    /\ UNCHANGED <<host, clearPosted, startPosted, channel>>

StartTransfer ==
    /\ pc = "start" /\ startPosted' = TRUE /\ Goto("ctrl")
    /\ UNCHANGED <<host, clearPosted, desc, channel>>

\* Mutant of PollCtrl: the deadline is counted from the last poll.
PollCtrlNewDeadline ==
    /\ pc = "ctrl" /\ sampledEn' = en /\ Goto("isr")
    /\ UNCHANGED <<copy, chunk, hooked, hookFailed, src, clearPosted,
                   startPosted, desc, channel>>

\* zdma_wait_transfer_complete reads CTRL2 first ...
PollCtrl ==
    /\ pc = "ctrl" /\ sampledEn' = en /\ pc' = "isr"
    /\ UNCHANGED <<copy, chunk, hooked, hookFailed, src, expired, clearPosted,
                   startPosted, desc, channel>>

\* A failed transfer with a hook first waits for EN; without, it returns.
TransferFailed == Goto(IF hooked THEN "drain" ELSE "failed")

\* The chunk is complete; the next one follows until the copy is.
ChunkComplete ==
    IF chunk < Chunks
    THEN chunk' = chunk + 1 /\ Goto("gate")
    ELSE Goto("returned") /\ UNCHANGED chunk

\* ... then ISR, and decides in this order: error, complete, deadline, hook.
PollIsr ==
    /\ pc = "isr"
    /\ \/ err /\ TransferFailed /\ UNCHANGED <<chunk, hookFailed>>
       \/ ~err /\ done /\ ~sampledEn /\ ChunkComplete /\ UNCHANGED hookFailed
       \/ /\ ~err /\ (~done \/ sampledEn)
          /\ UNCHANGED chunk
          /\ \/ expired /\ TransferFailed /\ UNCHANGED hookFailed
             \/ ~expired /\ pc' = "ctrl" /\ UNCHANGED <<expired, hookFailed>>
             \/ ~expired /\ hooked /\ hookFailed' = TRUE /\ TransferFailed
    /\ UNCHANGED <<copy, hooked, sampledEn, src, clearPosted, startPosted,
                   desc, channel>>

\* The wait for EN after a failure; if it fails too, fpga_fatal.
DrainChannel ==
    /\ pc = "drain"
    /\ \/ ~en /\ Goto("failed")
       \/ en /\ expired /\ Goto("fatal")
    /\ UNCHANGED <<host, clearPosted, startPosted, desc, channel>>

\* fpga_cleanup waits for EN before it invalidates and unmaps anything.
Close ==
    /\ pc \in {"idle", "returned"} /\ Goto("closing")
    /\ UNCHANGED <<host, clearPosted, startPosted, desc, channel>>

\* Mutant of Unmap: the mappings go without a look at the channel.
UnmapUnchecked ==
    /\ pc = "closing" /\ Goto("closed")
    /\ UNCHANGED <<host, clearPosted, startPosted, desc, channel>>

Unmap ==
    /\ pc = "closing"
    /\ \/ ~en /\ Goto("closed")
       \/ en /\ expired /\ Goto("fatal")
    /\ UNCHANGED <<host, clearPosted, startPosted, desc, channel>>

\* Time passes.
Expire ==
    /\ pc \in Waits /\ ~expired /\ expired' = TRUE
    /\ UNCHANGED <<pc, host, clearPosted, startPosted, desc, channel>>

-----------------------------------------------------------------------------
(* The channel *)

\* The posted writes arrive, the clear before the START.
ClearArrives ==
    /\ clearPosted /\ clearPosted' = FALSE
    /\ done' = FALSE /\ err' = FALSE
    /\ UNCHANGED <<pc, host, expired, startPosted, desc, en, work, dst>>

StartArrives ==
    /\ startPosted /\ ~clearPosted /\ startPosted' = FALSE
    /\ en' = TRUE /\ work' = "copying"
    /\ UNCHANGED <<pc, host, expired, clearPosted, desc, done, err, dst>>

\* The bytes are moved as the descriptor and the source say now.
MoveBytes ==
    /\ work = "copying" /\ work' = "copied"
    /\ dst' = [dst EXCEPT ![desc.chunk] = src]
    /\ UNCHANGED <<pc, host, expired, clearPosted, startPosted, desc, en,
                   done, err>>

\* The DONE event and the end of EN, in either order.
RaiseDone ==
    /\ work = "copied" /\ ~done /\ done' = TRUE
    /\ work' = IF en THEN "copied" ELSE "none"
    /\ UNCHANGED <<pc, host, expired, clearPosted, startPosted, desc, en, err,
                   dst>>

ClearEn ==
    /\ work = "copied" /\ en /\ en' = FALSE
    /\ work' = IF done THEN "none" ELSE "copied"
    /\ UNCHANGED <<pc, host, expired, clearPosted, startPosted, desc, done, err,
                   dst>>

\* A transfer that fails raises an error event instead.
RaiseError ==
    /\ work = "copying" /\ work' = "none" /\ err' = TRUE /\ en' = FALSE
    /\ UNCHANGED <<pc, host, expired, clearPosted, startPosted, desc, done, dst>>

HostStep == \/ Gate \/ ClearIsr \/ AckIsr \/ WriteDescriptor \/ StartTransfer
            \/ PollCtrl \/ PollIsr \/ DrainChannel \/ Unmap
ChannelStep == \/ ClearArrives \/ StartArrives \/ MoveBytes \/ RaiseDone
               \/ ClearEn \/ RaiseError

\* The process is gone (a failed copy is fatal to every caller), or the
\* channel was closed.
DmaEnded == pc \in {"failed", "closed", "fatal"}

DmaNext == \/ Begin \/ Close \/ HostStep \/ ChannelStep \/ Expire
           \/ DmaEnded /\ UNCHANGED dmaVars

\* The driver thread runs and the clock advances; the channel owes nothing.
DmaFairness == WF_dmaVars(HostStep) /\ WF_dmaVars(Expire)

DmaSpec == DmaInit /\ [][DmaNext]_dmaVars /\ DmaFairness

-----------------------------------------------------------------------------
(* Properties *)

\* A copy that reports success has moved every chunk of this copy: no sticky
\* DONE of the preceding transfer and no EN bit sampled before the START
\* arrived is taken for its completion.
SuccessMeansMoved ==
    pc = "returned" => \A c \in ChunkIds : dst[c] = copy

\* "Descriptor registers must remain stable while EN is set."
DescriptorStable == [][en => desc' = desc]_dmaVars

\* Nothing is unmapped under a running transfer, nor under one whose START is
\* still on its way: after a clean close the channel never touches memory.
ClosedChannelIdle == pc = "closed" => ~en /\ ~startPosted /\ work # "copying"

\* Every copy comes back: each wait has a deadline of its own, counted from
\* its beginning.
CopyReturns ==
    pc \in Waits ~> pc \in {"returned", "failed", "closed", "fatal"}

\* "A failed host hook must not return while the channel still owns its
\* descriptor.  Drain EN before the caller can reuse either staging slot."
FailedHookReleasesChannel ==
    pc = "failed" /\ hookFailed => ~en

=============================================================================
