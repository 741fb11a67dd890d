------------------------------ MODULE FtwLite ------------------------------
(* The FTW Lite driver (InsydeModulePkg/Universal/FirmwareVolume/            *)
(* FtwLiteRuntimeDxe): a write to the variable store is made power fail safe *)
(* with a journal of records (the work space) and a spare copy of the whole  *)
(* working block.                                                            *)
(*                                                                           *)
(* Flash is two images of the same shape.  The working block is the N blocks *)
(* of the variable store followed by one block, the work space, that holds a *)
(* header and the write records; the spare block has as many blocks.  A step *)
(* is one access that changes the flash, together with the code in memory    *)
(* that follows it up to the next such access, so that power can be lost     *)
(* between any two accesses.  The target of a write is in the working block. *)

EXTENDS Naturals, FiniteSets

CONSTANTS
  N,          \* number of data blocks: NumberOfSpareBlock - 1
  Slots,      \* records that fit, Offset + WRITE_TOTAL_SIZE < FtwWorkSpaceSize
  Values,     \* what a caller may write to a block
  Initial,    \* what every block holds at first
  Keep,       \* in a request: this block is not written
  NoRequest,  \* nobody is writing
  MaxWrites,  \* bound: calls of Write
  MaxCrashes, \* bound: losses of power
  MaxFaults,  \* bound: flash accesses that fail
  FaultKinds, \* how an access may fail: without a word, or with an error status
  Asserts,    \* whether ASSERT_EFI_ERROR stops the machine (a debug build)
  TornErase   \* whether power can be lost between two blocks of one erase

ASSUME FtwAssumption ==
  /\ N \in Nat \ {0}
  /\ Slots \in Nat \ {0}
  /\ Initial \in Values
  /\ Keep \notin Values
  /\ NoRequest \notin [1 .. N -> Values \cup {Keep}]
  /\ MaxWrites \in Nat /\ MaxCrashes \in Nat /\ MaxFaults \in Nat
  /\ FaultKinds \subseteq {"silent", "reported"}
  /\ Asserts \in BOOLEAN /\ TornErase \in BOOLEAN

(* FTW_MAX_TRY_ACCESS_FVB_TIMES.                                             *)
MaxTry == 2

Data == 1 .. N
WorkSpaceBlock == N + 1
AllBlocks == 1 .. WorkSpaceBlock

Erased == "erased"      \* 0xFF all over
Torn   == "torn"        \* a block that was being written when power failed
Content == Values \cup {Erased, Torn}

(* A record is the set of its bits that have been cleared in flash, and      *)
(* "body" once DevPath, Lba, Offset and NumBytes have been filled in.        *)
Bits == {"alloc", "spare", "done", "body"}
Records == 1 .. Slots

(* Header (signature and CRC good, WorkingBlockValid, WorkingBlockInvalid)   *)
(* and records of a work space.                                              *)
WorkSpace == [sig : BOOLEAN, valid : BOOLEAN, invalid : BOOLEAN,
              recs : [Records -> SUBSET Bits]]

(* "healthy" is the State byte of the VARIABLE_STORE_HEADER in block 1.      *)
Image == [data : [Data -> Content], healthy : BOOLEAN, ws : WorkSpace]

Requests == [Data -> Values \cup {Keep}] \ {[b \in Data |-> Keep]}

EmptyRecords == [r \in Records |-> {}]
ErasedWs == [sig |-> FALSE, valid |-> FALSE, invalid |-> FALSE,
             recs |-> EmptyRecords]
ErasedImage == [data |-> [b \in Data |-> Erased], healthy |-> FALSE,
                ws |-> ErasedWs]

VARIABLES
  work,       \* flash: the working block
  spare,      \* flash: the spare block
  pc,         \* the next access to flash, or "idle", or "dead"
  st,         \* status of the procedure that has just returned
  mws, last,  \* FtwWorkSpace and FtwLastRecord, in memory
  recovering, \* IsInReclaimProcess
  req,        \* the request of the caller of Write
  reply,      \* what the last call of Write returned
  saved,      \* SpareBuffer: the spare block before it was used
  wasHealthy, \* IsVariableState of FlushSpareBlockToWorkingBlock
  job,        \* WriteTargetBlock or FtwEraseBlock in progress
  retC, retF, retA, retW, \* callers of reclaim, flush, abort, write record
  writes, crashes, faults

flash  == <<work, spare>>
rets   == <<retC, retF, retA, retW>>
bounds == <<writes, crashes, faults>>
caller == <<req, reply>>
vars == <<work, spare, pc, st, mws, last, recovering, req, reply, saved,
          wasHealthy, job, retC, retF, retA, retW, writes, crashes, faults>>

-----------------------------------------------------------------------------
(* Work spaces.                                                              *)

IsValidWorkSpace(ws) == ws.sig /\ ws.valid

Least(S) == CHOOSE i \in S : \A j \in S : i =< j

GetLastRecord_pastEnd(ws) ==
  IF \A r \in Records : "done" \in ws.recs[r]
  THEN Slots + 2
  ELSE Least({r \in Records : "done" \notin ws.recs[r]})

(* FtwGetLastRecord: the first record that is not completed.                 *)
GetLastRecord(ws) ==
  Least({r \in Records : "done" \notin ws.recs[r]} \cup {Slots + 1})

(* Behind the last record the work space is blank.                           *)
RecordAt(ws, r) == IF r \in Records THEN ws.recs[r] ELSE {}

SetBit(ws, r, bit) == [ws EXCEPT !.recs[r] = @ \cup {bit}]

(* InitWorkSpaceHeader.                                                      *)
InitHeader(ws) == [ws EXCEPT !.sig = TRUE, !.valid = TRUE, !.invalid = FALSE]

(* CleanupWorkSpace: keep the header and the record of a write in progress.  *)
CleanupWorkSpace(ws, r) ==
  [ws EXCEPT !.recs =
     IF "alloc" \in RecordAt(ws, r) /\ "done" \notin RecordAt(ws, r)
     THEN [EmptyRecords EXCEPT ![1] = RecordAt(ws, r)]
     ELSE EmptyRecords]

FlushBuffer_keepsHealthy(img) ==
  [img EXCEPT !.ws = [InitHeader(@) EXCEPT !.valid = FALSE]]

(* FlushSpareBlockToWorkingBlock copies the spare block with a fresh header   *)
(* whose state bits, like the State of the variable store, are left erased.  *)
FlushBuffer(img) ==
  [img EXCEPT !.healthy = FALSE, !.ws = [InitHeader(@) EXCEPT !.valid = FALSE]]

NeedsRollback_ifAllocated(rec) == "alloc" \in rec
NeedsRestart_never(rec) == FALSE

(* The tests of InitializeFtwLite on the last record.                        *)
NeedsRollback(rec) == "alloc" \in rec /\ "spare" \notin rec
NeedsRestart(rec) == "spare" \in rec /\ "done" \notin rec

(* The dirty test of InitializeFtwLite: something is left behind the last    *)
(* record.                                                                   *)
Dirty(ws, r) == \E i \in Records : i > r /\ ws.recs[i] # {}

-----------------------------------------------------------------------------
(* Images.                                                                   *)

(* img with its block b as in src.                                           *)
PutBlock(img, src, b) ==
  IF b = WorkSpaceBlock
  THEN [img EXCEPT !.ws = src.ws]
  ELSE [img EXCEPT !.data[b] = src.data[b],
                   !.healthy = IF b = 1 THEN src.healthy ELSE @]

PutBlocks(img, src, B) ==
  [data    |-> [b \in Data |-> IF b \in B THEN src.data[b] ELSE img.data[b]],
   healthy |-> IF 1 \in B THEN src.healthy ELSE img.healthy,
   ws      |-> IF WorkSpaceBlock \in B THEN src.ws ELSE img.ws]

(* What block b may look like when power fails while src is written to it:   *)
(* garbage, or a work space with only its first k records.                   *)
TornBlock(src) ==
  {[data |-> [b \in Data |-> Torn], healthy |-> h, ws |-> w] :
     h \in {FALSE, src.healthy},
     w \in {ErasedWs} \cup
           {[src.ws EXCEPT !.recs = [r \in Records |->
               IF r =< k THEN src.ws.recs[r] ELSE {}]] : k \in 0 .. Slots}}

(* CopyMem (MyBuffer + Offset, Buffer, *NumBytes).                           *)
Overlay(c, r) == [b \in Data |-> IF r[b] = Keep THEN c[b] ELSE r[b]]

-----------------------------------------------------------------------------
(* Faults.  An access that fails silently has no effect: this is found when   *)
(* flash is read back, and the access is tried again, MaxTry times in all.    *)
(* One that reports an error ends the procedure at once, whatever has become  *)
(* of the flash.                                                             *)

NoFault == UNCHANGED faults

Fault(kind) ==
  /\ kind \in FaultKinds
  /\ faults < MaxFaults
  /\ faults' = faults + 1

(* FtwUpdateFvState, or the loop that writes a record, gives up; the bits may *)
(* have been cleared all the same if an access reported an error.            *)
UpdateFails(cleared) ==
  \/ /\ "silent" \in FaultKinds /\ ~cleared
     /\ faults + MaxTry =< MaxFaults /\ faults' = faults + MaxTry
  \/ Fault("reported")

(* ASSERT_EFI_ERROR (Status).                                                *)
AssertFails(status) == Asserts /\ status = "fail"

-----------------------------------------------------------------------------
(* WriteTargetBlock and FtwEraseBlock.  The job erases dst, writes buf to it *)
(* block by block, and compares.                                             *)

Labels == {"erase", "write", "reclaim", "reclaim_flush", "reclaim_restore",
           "flush", "flush_copy", "flush_healthy", "flush_valid",
           "record_spare", "record_done", "abort", "idle", "check", "body",
           "copy", "mark", "restore", "end", "boot", "validate", "recovered",
           "refresh", "rollback", "restart", "restarted", "dirty", "booted",
           "dead"}

NoJob == [dst |-> "none"]
Job == [dst : {"work", "spare"}, buf : Image, eraseOnly : BOOLEAN,
        idx : AllBlocks, etry : 0 .. MaxTry, wtry : 0 .. MaxTry,
        ret : Labels]

StartJob(dst, buf, eraseOnly, ret) ==
  /\ job' = [dst |-> dst, buf |-> buf, eraseOnly |-> eraseOnly, idx |-> 1,
             etry |-> 0, wtry |-> 0, ret |-> ret]
  /\ pc' = "erase"

WriteTargetBlock(dst, buf, ret) == StartJob(dst, buf, FALSE, ret)
FtwEraseSpareBlock(ret) == StartJob("spare", ErasedImage, TRUE, ret)

Target == IF job.dst = "work" THEN work ELSE spare
SetTarget(img) ==
  IF job.dst = "work" THEN work' = img /\ UNCHANGED spare
                      ELSE spare' = img /\ UNCHANGED work

JobReturns(status) == pc' = job.ret /\ st' = status /\ job' = NoJob

ErasedNow == IF TornErase THEN {job.idx} ELSE AllBlocks
EraseEnds == ~TornErase \/ job.idx = WorkSpaceBlock

(* The end of one round of the do-while of FtwEraseBlock, img being what is  *)
(* then read back.                                                           *)
EraseVerify(img) ==
  IF img = ErasedImage
  THEN IF job.eraseOnly
       THEN JobReturns("ok")
       ELSE job' = [job EXCEPT !.idx = 1, !.etry = 0] /\ pc' = "write"
            /\ UNCHANGED st
  ELSE IF job.etry + 1 < MaxTry
       THEN job' = [job EXCEPT !.idx = 1, !.etry = @ + 1] /\ UNCHANGED <<pc, st>>
       ELSE JobReturns("fail")

EraseStep ==
  /\ pc = "erase"
  /\ \E img \in {PutBlocks(Target, ErasedImage, ErasedNow), Target} :
       /\ IF img = PutBlocks(Target, ErasedImage, ErasedNow)
          THEN NoFault
          ELSE Fault("silent")
       /\ SetTarget(img)
       /\ IF EraseEnds
          THEN EraseVerify(img)
          ELSE job' = [job EXCEPT !.idx = @ + 1] /\ UNCHANGED <<pc, st>>
  /\ UNCHANGED <<mws, last, recovering, caller, saved, wasHealthy, rets,
                 writes, crashes>>

(* The erase, or what reads it back, reports an error: there is no retry.    *)
EraseReports ==
  /\ pc = "erase"
  /\ Fault("reported")
  /\ \E k \in 0 .. WorkSpaceBlock :
       SetTarget(PutBlocks(Target, ErasedImage, {b \in ErasedNow : b =< k}))
  /\ JobReturns("fail")
  /\ UNCHANGED <<mws, last, recovering, caller, saved, wasHealthy, rets,
                 writes, crashes>>

(* The end of one round of the do-while of WriteTargetBlock.                 *)
WriteVerify(img) ==
  IF img = job.buf
  THEN JobReturns("ok")
  ELSE IF job.wtry + 1 < MaxTry
       THEN job' = [job EXCEPT !.idx = 1, !.wtry = @ + 1] /\ pc' = "erase"
            /\ UNCHANGED st
       ELSE JobReturns("fail")

WriteStep ==
  /\ pc = "write"
  /\ \E img \in {PutBlock(Target, job.buf, job.idx), Target} :
       /\ IF img = PutBlock(Target, job.buf, job.idx)
          THEN NoFault
          ELSE Fault("silent")
       /\ SetTarget(img)
       /\ IF job.idx = WorkSpaceBlock
          THEN WriteVerify(img)
          ELSE job' = [job EXCEPT !.idx = @ + 1] /\ UNCHANGED <<pc, st>>
  /\ UNCHANGED <<mws, last, recovering, caller, saved, wasHealthy, rets,
                 writes, crashes>>

WriteReports_goesOn ==
  /\ pc = "write"
  /\ Fault("reported")
  /\ UNCHANGED flash
  /\ JobReturns("ok")
  /\ UNCHANGED <<mws, last, recovering, caller, saved, wasHealthy, rets,
                 writes, crashes>>

(* A write, or the reading back, reports an error: the block has been        *)
(* written, or not, or in part.                                              *)
WriteReports ==
  /\ pc = "write"
  /\ Fault("reported")
  /\ \/ UNCHANGED flash
     \/ \E src \in {job.buf} \cup TornBlock(job.buf) :
          SetTarget(PutBlock(Target, src, job.idx))
  /\ JobReturns("fail")
  /\ UNCHANGED <<mws, last, recovering, caller, saved, wasHealthy, rets,
                 writes, crashes>>

-----------------------------------------------------------------------------
(* Procedure calls: the caller's label is kept in the ret variable of the    *)
(* procedure.                                                                *)

Goto(label) == pc' = label /\ UNCHANGED st
Return(ret, status) == pc' = ret /\ st' = status

(* WorkSpaceRefresh: read the work space back from flash, find the last      *)
(* record, and reclaim when there is no room for another one.                *)
WorkSpaceRefresh(ret) ==
  /\ mws' = work.ws
  /\ last' = GetLastRecord(work.ws)
  /\ IF last' > Slots
     THEN pc' = "reclaim" /\ retC' = ret /\ UNCHANGED st
     ELSE Return(ret, "ok") /\ UNCHANGED retC

(* FtwReclaimWorkSpace.                                                      *)
ReclaimStart ==
  /\ pc = "reclaim"
  /\ LET clean == CleanupWorkSpace(mws, last)
     IN /\ mws' = clean
        /\ last' = GetLastRecord(clean)
        /\ WriteTargetBlock("spare",
             [work EXCEPT !.ws = [clean EXCEPT !.valid = FALSE,
                                               !.invalid = FALSE]],
             "reclaim_flush")
  /\ saved' = spare
  /\ UNCHANGED <<flash, st, recovering, caller, wasHealthy, rets, bounds>>

ReclaimFlush ==
  /\ pc = "reclaim_flush"
  /\ IF st = "fail"
     THEN pc' = retC /\ UNCHANGED retF
     ELSE pc' = "flush" /\ retF' = "reclaim_restore"
  /\ UNCHANGED <<flash, st, mws, last, recovering, caller, saved, wasHealthy,
                 job, retC, retA, retW, bounds>>

ReclaimRestore ==
  /\ pc = "reclaim_restore"
  /\ IF st = "fail"
     THEN pc' = retC /\ UNCHANGED job
     ELSE WriteTargetBlock("spare", saved, retC)
  /\ UNCHANGED <<flash, st, mws, last, recovering, caller, saved, wasHealthy,
                 rets, bounds>>

FlushSetSpareValid_skipped ==
  /\ pc = "flush"
  /\ Goto("flush_copy")
  /\ UNCHANGED <<flash, mws, last, recovering, caller, saved, wasHealthy, job,
                 rets, bounds>>

(* FlushSpareBlockToWorkingBlock.                                            *)
FlushSetSpareValid ==
  /\ pc = "flush"
  /\ \/ /\ spare' = [spare EXCEPT !.ws.valid = TRUE]
        /\ NoFault
        /\ Goto("flush_copy")
     \/ \E cleared \in BOOLEAN :
          /\ UpdateFails(cleared)
          /\ spare' = [spare EXCEPT !.ws.valid = @ \/ cleared]
          /\ Return(retF, "fail")
  /\ UNCHANGED <<work, mws, last, recovering, caller, saved, wasHealthy, job,
                 rets, writes, crashes>>

FlushCopy ==
  /\ pc = "flush_copy"
  /\ \/ /\ work' = [work EXCEPT !.ws.invalid = TRUE]
        /\ NoFault
        /\ mws' = [mws EXCEPT !.invalid = TRUE]
        /\ wasHealthy' = spare.healthy
        /\ WriteTargetBlock("work", FlushBuffer(spare), "flush_healthy")
        /\ UNCHANGED st
     \/ /\ \E cleared \in BOOLEAN :
             /\ UpdateFails(cleared)
             /\ work' = [work EXCEPT !.ws.invalid = @ \/ cleared]
        /\ Return(retF, "fail")
        /\ UNCHANGED <<mws, wasHealthy, job>>
  /\ UNCHANGED <<spare, last, recovering, caller, saved, rets, writes, crashes>>

FlushSetHealthy ==
  /\ pc = "flush_healthy"
  /\ \/ st = "fail" /\ pc' = retF /\ UNCHANGED <<work, faults>>
     \/ /\ st = "ok"
        /\ pc' = "flush_valid"
        /\ \/ wasHealthy /\ work' = [work EXCEPT !.healthy = TRUE] /\ NoFault
           \/ ~wasHealthy /\ UNCHANGED work /\ NoFault
           \/ \E cleared \in BOOLEAN :
                /\ wasHealthy /\ UpdateFails(cleared)
                /\ work' = [work EXCEPT !.healthy = @ \/ cleared]
  /\ UNCHANGED <<spare, st, mws, last, recovering, caller, saved, wasHealthy,
                 job, rets, writes, crashes>>

FlushSetValid_inMemory ==
  /\ pc = "flush_valid"
  /\ mws' = [mws EXCEPT !.valid = TRUE]
  /\ Return(retF, "ok")
  /\ UNCHANGED <<flash, last, recovering, caller, saved, wasHealthy, job, rets,
                 bounds>>

FlushSetValid ==
  /\ pc = "flush_valid"
  /\ \/ /\ work' = [work EXCEPT !.ws.valid = TRUE]
        /\ mws' = [mws EXCEPT !.valid = TRUE]
        /\ NoFault
        /\ Return(retF, "ok")
     \/ \E cleared \in BOOLEAN :
          /\ UpdateFails(cleared)
          /\ work' = [work EXCEPT !.ws.valid = @ \/ cleared]
          /\ UNCHANGED mws
          /\ Return(retF, "fail")
  /\ UNCHANGED <<spare, last, recovering, caller, saved, wasHealthy, job, rets,
                 writes, crashes>>

(* FtwWriteRecord: the statuses of the flush and of the state updates are    *)
(* only asserted, and the function returns success.                          *)
WriteRecordSpare ==
  /\ pc = "record_spare"
  /\ \/ /\ spare' = [spare EXCEPT !.ws = SetBit(@, last, "spare")]
        /\ NoFault
        /\ pc' = "flush"
     \/ /\ \E cleared \in BOOLEAN :
             /\ UpdateFails(cleared)
             /\ spare' = IF cleared
                         THEN [spare EXCEPT !.ws = SetBit(@, last, "spare")]
                         ELSE spare
        /\ pc' = IF AssertFails("fail") THEN "dead" ELSE "flush"
  /\ retF' = "record_done"
  /\ UNCHANGED <<work, st, mws, last, recovering, caller, saved, wasHealthy,
                 job, retC, retA, retW, writes, crashes>>

WriteRecordDone_nextRecord ==
  /\ pc = "record_done"
  /\ work' = [work EXCEPT !.ws = SetBit(@, last + 1, "done")]
  /\ mws' = SetBit(mws, last + 1, "done")
  /\ Return(retW, "ok")
  /\ UNCHANGED <<spare, last, recovering, caller, saved, wasHealthy, job, rets,
                 bounds>>

WriteRecordDone ==
  /\ pc = "record_done"
  /\ \/ /\ AssertFails(st)
        /\ pc' = "dead"
        /\ UNCHANGED <<work, st, mws, faults>>
     \/ /\ ~AssertFails(st)
        /\ work' = [work EXCEPT !.ws = SetBit(@, last, "done")]
        /\ NoFault
        /\ mws' = SetBit(mws, last, "done")
        /\ Return(retW, "ok")
     \/ /\ ~AssertFails(st)
        /\ \E cleared \in BOOLEAN :
             /\ UpdateFails(cleared)
             /\ work' = IF cleared
                        THEN [work EXCEPT !.ws = SetBit(@, last, "done")]
                        ELSE work
        /\ IF AssertFails("fail")
           THEN pc' = "dead" /\ UNCHANGED <<st, mws>>
           ELSE mws' = SetBit(mws, last, "done") /\ Return(retW, "ok")
  /\ UNCHANGED <<spare, last, recovering, caller, saved, wasHealthy, job, rets,
                 writes, crashes>>

(* FtwAbort.                                                                 *)
AbortMark ==
  /\ pc = "abort"
  /\ \/ /\ "done" \in RecordAt(mws, last)
        /\ pc' = retA
        /\ UNCHANGED <<work, mws, last, job, faults>>
     \/ /\ "done" \notin RecordAt(mws, last)
        /\ work' = [work EXCEPT !.ws = SetBit(@, last, "done")]
        /\ NoFault
        /\ mws' = SetBit(mws, last, "done")
        /\ last' = GetLastRecord(mws')
        /\ FtwEraseSpareBlock(retA)
     \/ /\ "done" \notin RecordAt(mws, last)
        /\ \E cleared \in BOOLEAN :
             /\ UpdateFails(cleared)
             /\ work' = IF cleared
                        THEN [work EXCEPT !.ws = SetBit(@, last, "done")]
                        ELSE work
        /\ pc' = retA
        /\ UNCHANGED <<mws, last, job>>
  /\ UNCHANGED <<spare, st, recovering, caller, saved, wasHealthy, rets,
                 writes, crashes>>

-----------------------------------------------------------------------------
(* CommonFtwWrite.                                                           *)

Write ==
  /\ pc = "idle"
  /\ writes < MaxWrites
  /\ writes' = writes + 1
  /\ req' \in Requests
  /\ reply' = "none"
  /\ WorkSpaceRefresh("check")
  /\ UNCHANGED <<flash, recovering, saved, wasHealthy, job, retF, retA, retW,
                 crashes, faults>>

WriteReturns(status) ==
  /\ pc' = "idle"
  /\ reply' = status
  /\ req' = NoRequest
  /\ retW' = "none"

(* The flags of the last record, then WRITE_ALLOCATED.                       *)
WriteAllocate ==
  /\ pc = "check"
  /\ \/ /\ st = "fail"
        /\ WriteReturns("aborted")
        /\ UNCHANGED <<work, mws, faults>>
     \/ /\ st = "ok"
        /\ RecordAt(mws, last) \cap {"alloc", "spare"} # {}
        /\ WriteReturns("denied")
        /\ UNCHANGED <<work, mws, faults>>
     \/ /\ st = "ok"
        /\ RecordAt(mws, last) \cap {"alloc", "spare"} = {}
        /\ \/ /\ work' = [work EXCEPT !.ws = SetBit(@, last, "alloc")]
              /\ mws' = SetBit(mws, last, "alloc")
              /\ NoFault
              /\ pc' = "body"
              /\ UNCHANGED <<req, reply, retW>>
           \/ \E cleared \in BOOLEAN :
                /\ UpdateFails(cleared)
                /\ work' = IF cleared
                           THEN [work EXCEPT !.ws = SetBit(@, last, "alloc")]
                           ELSE work
                /\ UNCHANGED mws
                /\ WriteReturns("aborted")
  /\ UNCHANGED <<spare, st, last, recovering, saved, wasHealthy, job, retC,
                 retF, retA, writes, crashes>>

(* The body of the record, written and read back at most MaxTry times.       *)
WriteBody ==
  /\ pc = "body"
  /\ mws' = SetBit(mws, last, "body")
  /\ \/ /\ work' = [work EXCEPT !.ws = SetBit(@, last, "body")]
        /\ NoFault
        /\ pc' = "copy"
        /\ UNCHANGED <<req, reply, retW>>
     \/ \E cleared \in BOOLEAN :
          /\ UpdateFails(cleared)
          /\ work' = IF cleared
                     THEN [work EXCEPT !.ws = SetBit(@, last, "body")]
                     ELSE work
          /\ WriteReturns("aborted")
  /\ UNCHANGED <<spare, st, last, recovering, saved, wasHealthy, job, retC,
                 retF, retA, writes, crashes>>

(* Keep the spare block, and write the modified working block to it.         *)
WriteSpare ==
  /\ pc = "copy"
  /\ saved' = spare
  /\ WriteTargetBlock("spare",
       [work EXCEPT !.data = Overlay(@, req)], "mark")
  /\ UNCHANGED <<flash, st, mws, last, recovering, caller, wasHealthy, rets,
                 bounds>>

(* SPARE_COMPLETED: from here on the write is going to be completed.         *)
WriteMark ==
  /\ pc = "mark"
  /\ \/ /\ st = "fail"
        /\ WriteReturns("aborted")
        /\ UNCHANGED <<work, mws, faults>>
     \/ /\ st = "ok"
        /\ \/ /\ work' = [work EXCEPT !.ws = SetBit(@, last, "spare")]
              /\ mws' = SetBit(mws, last, "spare")
              /\ NoFault
              /\ pc' = "record_spare" /\ retW' = "restore"
              /\ UNCHANGED <<req, reply>>
           \/ \E cleared \in BOOLEAN :
                /\ UpdateFails(cleared)
                /\ work' = IF cleared
                           THEN [work EXCEPT !.ws = SetBit(@, last, "spare")]
                           ELSE work
                /\ UNCHANGED mws
                /\ WriteReturns("aborted")
  /\ UNCHANGED <<spare, st, last, recovering, saved, wasHealthy, job, retC,
                 retF, retA, writes, crashes>>

(* Restore the spare block.                                                  *)
WriteRestore ==
  /\ pc = "restore"
  /\ last' = last + 1
  /\ WriteTargetBlock("spare", saved, "end")
  /\ UNCHANGED <<flash, st, mws, recovering, caller, saved, wasHealthy, rets,
                 bounds>>

WriteEnd ==
  /\ pc = "end"
  /\ WriteReturns(IF st = "ok" THEN "success" ELSE "aborted")
  /\ UNCHANGED <<flash, st, mws, last, recovering, saved, wasHealthy, job,
                 retC, retF, retA, bounds>>

-----------------------------------------------------------------------------
(* InitializeFtwLite, at every boot.                                         *)

BootRefresh ==
  /\ pc = "boot"
  /\ WorkSpaceRefresh("validate")
  /\ recovering' = FALSE
  /\ UNCHANGED <<flash, caller, saved, wasHealthy, job, retF, retA, retW,
                 bounds>>

(* If the work space is not valid, try the spare block.                      *)
BootValidate ==
  /\ pc = "validate"
  /\ ~AssertFails(st)
  /\ \/ /\ IsValidWorkSpace(mws)
        /\ Return("rollback", "ok")
        /\ UNCHANGED <<mws, recovering, retC, retF>>
     \/ /\ ~IsValidWorkSpace(mws)
        /\ IsValidWorkSpace(spare.ws)
        /\ recovering' = TRUE
        /\ mws' = spare.ws
        /\ Goto("flush") /\ retF' = "recovered"
        /\ UNCHANGED retC
     \/ /\ ~IsValidWorkSpace(mws)
        /\ ~IsValidWorkSpace(spare.ws)
        /\ recovering' = TRUE
        /\ mws' = InitHeader(ErasedWs)
        /\ Goto("reclaim") /\ retC' = "rollback"
        /\ UNCHANGED retF
  /\ UNCHANGED <<flash, last, caller, saved, wasHealthy, job, retA, retW,
                 bounds>>

BootAbort ==
  /\ pc = "recovered"
  /\ ~AssertFails(st)
  /\ Goto("abort") /\ retA' = "refresh"
  /\ UNCHANGED <<flash, mws, last, recovering, caller, saved, wasHealthy, job,
                 retC, retF, retW, bounds>>

(* The refresh of the work space, or the flush, has failed, and the status is *)
(* only asserted.                                                            *)
BootAsserts ==
  /\ pc \in {"validate", "recovered"}
  /\ AssertFails(st)
  /\ pc' = "dead"
  /\ UNCHANGED <<flash, st, mws, last, recovering, caller, saved, wasHealthy,
                 job, rets, bounds>>

BootRefreshAgain ==
  /\ pc = "refresh"
  /\ WorkSpaceRefresh("rollback")
  /\ UNCHANGED <<flash, recovering, caller, saved, wasHealthy, job, retF, retA,
                 retW, bounds>>

(* A write whose spare copy is not complete is rolled back.                  *)
BootRollback ==
  /\ pc = "rollback"
  /\ \/ st = "fail" /\ pc' = "dead" /\ UNCHANGED retA
     \/ /\ st = "ok"
        /\ NeedsRollback(RecordAt(mws, last))
        /\ pc' = "abort" /\ retA' = "restart"
     \/ /\ st = "ok"
        /\ ~NeedsRollback(RecordAt(mws, last))
        /\ pc' = "restart" /\ UNCHANGED retA
  /\ UNCHANGED <<flash, st, mws, last, recovering, caller, saved, wasHealthy,
                 job, retC, retF, retW, bounds>>

(* A write whose spare copy is complete is completed, by FtwRestart.         *)
BootRestart ==
  /\ pc = "restart"
  /\ IF NeedsRestart(RecordAt(mws, last))
     THEN /\ recovering' = TRUE
          /\ IF "body" \in RecordAt(mws, last)
             THEN pc' = "record_spare" /\ retW' = "restarted"
             ELSE pc' = "dead" /\ UNCHANGED retW
     ELSE pc' = "dirty" /\ UNCHANGED <<recovering, retW>>
  /\ UNCHANGED <<flash, st, mws, last, caller, saved, wasHealthy, job, retC,
                 retF, retA, bounds>>

BootRestarted ==
  /\ pc = "restarted"
  /\ last' = last + 1
  /\ FtwEraseSpareBlock("dirty")
  /\ retW' = "none"
  /\ UNCHANGED <<flash, st, mws, recovering, caller, saved, wasHealthy, retC,
                 retF, retA, bounds>>

BootDirty ==
  /\ pc = "dirty"
  /\ IF Dirty(mws, last)
     THEN Goto("reclaim") /\ retC' = "booted"
     ELSE Return("booted", "ok") /\ UNCHANGED retC
  /\ UNCHANGED <<flash, mws, last, recovering, caller, saved, wasHealthy, job,
                 retF, retA, retW, bounds>>

(* ResetSystem after a recovery; otherwise Write can be called.              *)
BootDone ==
  /\ pc = "booted"
  /\ pc' = CASE st = "fail" -> "dead"
             [] st = "ok" /\ recovering -> "boot"
             [] OTHER -> "idle"
  /\ UNCHANGED <<flash, st, mws, last, recovering, caller, saved, wasHealthy,
                 job, rets, bounds>>

-----------------------------------------------------------------------------
(* Loss of power: what is in memory is lost, and the block that was being    *)
(* written may be left torn.                                                 *)

PowerLossTears ==
  \/ UNCHANGED flash
  \/ /\ pc = "write"
     /\ \E torn \in TornBlock(job.buf) : SetTarget(PutBlock(Target, torn, job.idx))

Crash ==
  /\ crashes < MaxCrashes
  /\ crashes' = crashes + 1
  /\ PowerLossTears
  /\ pc' = "boot" /\ st' = "ok"
  /\ mws' = ErasedWs /\ last' = 1
  /\ recovering' = FALSE
  /\ req' = NoRequest /\ reply' = "none"
  /\ saved' = ErasedImage /\ wasHealthy' = FALSE
  /\ job' = NoJob
  /\ retC' = "none" /\ retF' = "none" /\ retA' = "none" /\ retW' = "none"
  /\ UNCHANGED <<writes, faults>>

-----------------------------------------------------------------------------
(* A new machine: the variable store is there, and the work space either has *)
(* been formatted or is blank.                                               *)

Init ==
  /\ work \in {[data |-> [b \in Data |-> Initial], healthy |-> TRUE, ws |-> w] :
                 w \in {ErasedWs, InitHeader(ErasedWs)}}
  /\ spare = ErasedImage
  /\ pc = "boot" /\ st = "ok"
  /\ mws = ErasedWs /\ last = 1
  /\ recovering = FALSE
  /\ req = NoRequest /\ reply = "none"
  /\ saved = ErasedImage /\ wasHealthy = FALSE
  /\ job = NoJob
  /\ retC = "none" /\ retF = "none" /\ retA = "none" /\ retW = "none"
  /\ writes = 0 /\ crashes = 0 /\ faults = 0

(* The steps of the driver once it has been called or started.               *)
Driver ==
  \/ EraseStep \/ EraseReports \/ WriteStep \/ WriteReports
  \/ ReclaimStart \/ ReclaimFlush \/ ReclaimRestore
  \/ FlushSetSpareValid \/ FlushCopy \/ FlushSetHealthy \/ FlushSetValid
  \/ WriteRecordSpare \/ WriteRecordDone
  \/ AbortMark
  \/ WriteAllocate \/ WriteBody \/ WriteSpare \/ WriteMark \/ WriteRestore
  \/ WriteEnd
  \/ BootRefresh \/ BootValidate \/ BootAsserts \/ BootAbort
  \/ BootRefreshAgain
  \/ BootRollback \/ BootRestart \/ BootRestarted \/ BootDirty \/ BootDone

Next == Driver \/ Write \/ Crash

Spec == Init /\ [][Next]_vars

(* The driver runs on until it returns; nobody has to call it, and power     *)
(* need not fail.                                                            *)
FairSpec == Spec /\ WF_vars(Driver)

-----------------------------------------------------------------------------
(* Properties.                                                               *)

TypeOK ==
  /\ work \in Image /\ spare \in Image /\ saved \in Image
  /\ pc \in Labels /\ st \in {"ok", "fail"}
  /\ mws \in WorkSpace /\ last \in 1 .. Slots + 1
  /\ recovering \in BOOLEAN /\ wasHealthy \in BOOLEAN
  /\ req \in Requests \cup {NoRequest}
  /\ reply \in {"none", "success", "aborted", "denied"}
  /\ job \in Job \cup {NoJob}
  /\ retC \in Labels \cup {"none"} /\ retF \in Labels \cup {"none"}
  /\ retA \in Labels \cup {"none"} /\ retW \in Labels \cup {"none"}
  /\ writes \in 0 .. MaxWrites /\ crashes \in 0 .. MaxCrashes
  /\ faults \in 0 .. MaxFaults

Whole(img) == \A b \in Data : img.data[b] \in Values

(* Whoever finds the variable store marked VARIABLE_STORE_HEALTHY in flash,  *)
(* at any moment and after any loss of power, finds no block of it erased or *)
(* half written: the mark is taken away before the working block is erased   *)
(* and comes back only when the copy has been read back.                     *)
HealthyIsWhole == work.healthy => Whole(work)

(* What the next boot is going to make of the flash: the spare copy, if the  *)
(* work space says a write was about to be completed or if it is not valid   *)
(* itself; otherwise the working block as it is.                             *)
InProgress(ws) == NeedsRestart(RecordAt(ws, GetLastRecord(ws)))

Recovered ==
  IF IsValidWorkSpace(work.ws)
  THEN IF InProgress(work.ws) THEN spare.data ELSE work.data
  ELSE IF IsValidWorkSpace(spare.ws) THEN spare.data ELSE work.data

(* "either the original contents or the modified contents are available":    *)
(* what a boot would recover changes only in the step that sets              *)
(* SPARE_COMPLETED, and a successful reply comes after it.                   *)
Store == INSTANCE AtomicStore WITH
  Blocks <- Data, store <- Recovered, pending <- req,
  committed <- (retW = "restore")

ImplementsStore == Store!Spec

(* "either the original contents or the modified contents are available",    *)
(* also when an access reports an error or power is lost between two blocks  *)
(* of an erase: what a boot would recover never becomes anything but itself  *)
(* with the whole request of the caller of that moment laid over it.  The    *)
(* caller may have been told that its write was aborted.  This is so where   *)
(* the journal has room for the records and a failed ASSERT_EFI_ERROR stops  *)
(* the machine.                                                              *)
OldOrNew ==
  [][Recovered' # Recovered =>
       req # NoRequest /\ Recovered' = Overlay(Recovered, req)]_vars

(* No block that a boot would make the variable store of is lost.            *)
StoreNeverLost == \A b \in Data : Recovered[b] \in Values

(* When the driver can be called the last record is free, the header is      *)
(* valid and the store is marked healthy, whatever was interrupted before:   *)
(* no call is denied, and the next boot has nothing to recover.              *)
IdleIsClean ==
  /\ reply # "denied"
  /\ pc = "idle" => /\ IsValidWorkSpace(work.ws) /\ work.healthy
                    /\ RecordAt(work.ws, GetLastRecord(work.ws)) = {}

(* A caller that is told "success" has its data in the working block, and    *)
(* not only in the spare block, which is about to be overwritten: through    *)
(* losses of power and an access that silently fails once; through one that  *)
(* reports an error only where the assertions of FtwWriteRecord stop the     *)
(* machine, since it looks at no status itself.                              *)
SuccessIsInFlash ==
  [][reply' = "success" /\ reply # "success" =>
       \A b \in Data : req[b] # Keep => work.data[b] = req[b]]_vars

(* The journal is written in order, through any loss of power: nothing is    *)
(* ever recorded behind a record that is not completed.  This is so on flash *)
(* that works and, where a failed ASSERT_EFI_ERROR stops the machine, through *)
(* failing accesses too; in a release build one reported error, or as many   *)
(* silent failures as defeat the retries, may make FtwAbort complete a record *)
(* that is not the last.                                                     *)
JournalOrdered == ~Dirty(work.ws, GetLastRecord(work.ws))

(* A recovery ends with a reset, and the boots that follow do not recover    *)
(* for ever: every boot leads to a driver that can be called, or to one that *)
(* gave up after a flash access failed.                                      *)
BootEnds == (pc = "boot") ~> (pc \in {"idle", "dead"})
=============================================================================
