--------------------------- MODULE FtwLite_proofs ---------------------------
(* Proofs about FtwLite for every number of blocks and records, and for any  *)
(* number of writes, losses of power and faults: types; and, as long as      *)
(* flash works, that the variable store survives any loss of power and that  *)
(* a caller of the driver finds it in order.                                 *)
EXTENDS FtwLiteInv, TLAPS, FiniteSetTheorems

(* Least returns the smallest element of a set of naturals: strict inclusion *)
(* of the intervals 1 .. i is well founded.                                  *)
LEMMA LeastNat ==
  ASSUME NEW S, S \subseteq Nat, S # {}
  PROVE  /\ Least(S) \in S
         /\ \A j \in S : Least(S) =< j
<1> DEFINE Segments == {1 .. i : i \in S}
<1>1. Segments # {} /\ Segments \subseteq FiniteSubsetsOf(Nat)
  <2>1. \A i \in S : IsFiniteSet(1 .. i)
    BY FS_Interval
  <2>2. \A i \in S : 1 .. i \in SUBSET Nat
    OBVIOUS
  <2> QED BY <2>1, <2>2 DEF FiniteSubsetsOf
<1>2. PICK X \in Segments :
        \A Y \in Segments : <<Y, X>> \notin StrictSubsetOrdering(Nat)
  <2> HIDE DEF Segments
  <2> QED BY <1>1, FS_StrictSubsetOrderingWellFounded, WFMin
<1>3. PICK i \in S : X = 1 .. i
  OBVIOUS
<1>4. ASSUME NEW j \in S
      PROVE  i =< j
  <2>1. 1 .. j \in SUBSET Nat /\ X \in SUBSET Nat
    BY <1>3
  <2>2. <<1 .. j, X>> \notin StrictSubsetOrdering(Nat)
    BY <1>2
  <2>3. ~(1 .. j \subseteq 1 .. i /\ 1 .. j # 1 .. i)
    BY <2>1, <2>2, <1>3 DEF StrictSubsetOrdering
  <2>4. CASE j < i
    <3>1. i \in 1 .. i /\ i \notin 1 .. j /\ 1 .. j \subseteq 1 .. i
      BY <2>4
    <3> QED BY <3>1, <2>3
  <2> QED BY <2>4
<1> QED BY <1>4 DEF Least

-----------------------------------------------------------------------------
(* The operators of the driver are closed over their types.                  *)

LEMMA ConstantTypes ==
  /\ EmptyRecords \in [Records -> SUBSET Bits]
  /\ ErasedWs \in WorkSpace
  /\ ErasedImage \in Image
BY DEF EmptyRecords, ErasedWs, ErasedImage, WorkSpace, Image, Content

LEMMA WsTypes ==
  ASSUME NEW ws \in WorkSpace
  PROVE  /\ InitHeader(ws) \in WorkSpace
         /\ \A r \in Records, bit \in Bits : SetBit(ws, r, bit) \in WorkSpace
         /\ \A v \in BOOLEAN : /\ [ws EXCEPT !.valid = v] \in WorkSpace
                              /\ [ws EXCEPT !.invalid = v] \in WorkSpace
         /\ [ws EXCEPT !.valid = TRUE] \in WorkSpace
         /\ [ws EXCEPT !.invalid = TRUE] \in WorkSpace
         /\ \A r : RecordAt(ws, r) \in SUBSET Bits
<1>1. InitHeader(ws) \in WorkSpace
  BY DEF InitHeader, WorkSpace
<1>2. \A r \in Records, bit \in Bits : SetBit(ws, r, bit) \in WorkSpace
  BY DEF SetBit, WorkSpace
<1>3. \A v \in BOOLEAN : /\ [ws EXCEPT !.valid = v] \in WorkSpace
                       /\ [ws EXCEPT !.invalid = v] \in WorkSpace
  BY DEF WorkSpace
<1>4. \A r : RecordAt(ws, r) \in SUBSET Bits
  BY DEF RecordAt, WorkSpace
<1> QED BY <1>1, <1>2, <1>3, <1>4

(* CleanupWorkSpace makes a work space out of a work space.                  *)
LEMMA CleanupType ==
  ASSUME NEW ws \in WorkSpace, NEW r
  PROVE  CleanupWorkSpace(ws, r) \in WorkSpace
<1>1. RecordAt(ws, r) \in SUBSET Bits
  BY WsTypes
<1>2. [EmptyRecords EXCEPT ![1] = RecordAt(ws, r)] \in [Records -> SUBSET Bits]
  BY <1>1, ConstantTypes
<1> QED BY <1>2, ConstantTypes DEF CleanupWorkSpace, WorkSpace

(* FtwGetLastRecord points at a slot or just behind the last one, and at no  *)
(* completed record.                                                         *)
LEMMA GetLastRecordType ==
  ASSUME NEW ws
  PROVE  /\ GetLastRecord(ws) \in 1 .. Slots + 1
         /\ GetLastRecord(ws) \in Records =>
              "done" \notin ws.recs[GetLastRecord(ws)]
         /\ \A r \in Records : r < GetLastRecord(ws) => "done" \in ws.recs[r]
<1> DEFINE S == {r \in Records : "done" \notin ws.recs[r]} \cup {Slots + 1}
<1>1. S \subseteq Nat /\ S # {} /\ S \subseteq 1 .. Slots + 1
  BY FtwAssumption DEF Records
<1>2. Least(S) \in S /\ \A j \in S : Least(S) =< j
  BY <1>1, LeastNat
<1>3. GetLastRecord(ws) = Least(S)
  BY DEF GetLastRecord
<1>4. Slots + 1 \notin Records
  BY FtwAssumption DEF Records
<1>5. ASSUME NEW r \in Records, r < Least(S), "done" \notin ws.recs[r]
      PROVE  FALSE
  <2>1. r \in S
    BY <1>5
  <2> QED BY <2>1, <1>1, <1>2, <1>5 DEF Records
<1> HIDE DEF S
<1> QED BY <1>1, <1>2, <1>3, <1>4, <1>5 DEF S

LEMMA ImageTypes ==
  ASSUME NEW img \in Image
  PROVE  /\ \A w \in WorkSpace : [img EXCEPT !.ws = w] \in Image
         /\ \A h \in BOOLEAN : [img EXCEPT !.healthy = h] \in Image
         /\ \A d \in [Data -> Content] : [img EXCEPT !.data = d] \in Image
         /\ img.ws \in WorkSpace /\ img.healthy \in BOOLEAN
         /\ img.data \in [Data -> Content]
BY DEF Image

LEMMA ImageWsTypes ==
  ASSUME NEW img \in Image
  PROVE  /\ \A r \in Records, bit \in Bits :
              [img EXCEPT !.ws = SetBit(@, r, bit)] \in Image
         /\ [img EXCEPT !.ws.valid = TRUE] \in Image
         /\ [img EXCEPT !.ws.invalid = TRUE] \in Image
         /\ \A v \in BOOLEAN : /\ [img EXCEPT !.ws.valid = @ \/ v] \in Image
                              /\ [img EXCEPT !.ws.invalid = @ \/ v] \in Image
                              /\ [img EXCEPT !.healthy = @ \/ v] \in Image
<1>1. img.ws \in WorkSpace /\ img.healthy \in BOOLEAN
  BY DEF Image
<1>2. /\ \A r \in Records, bit \in Bits : SetBit(img.ws, r, bit) \in WorkSpace
      /\ [img.ws EXCEPT !.valid = TRUE] \in WorkSpace
      /\ [img.ws EXCEPT !.invalid = TRUE] \in WorkSpace
  BY <1>1, WsTypes
<1>3. ASSUME NEW v \in BOOLEAN
      PROVE  /\ [img EXCEPT !.ws.valid = @ \/ v] \in Image
             /\ [img EXCEPT !.ws.invalid = @ \/ v] \in Image
             /\ [img EXCEPT !.healthy = @ \/ v] \in Image
  <2>1. /\ [img.ws EXCEPT !.valid = @ \/ v] \in WorkSpace
        /\ [img.ws EXCEPT !.invalid = @ \/ v] \in WorkSpace
    BY <1>1 DEF WorkSpace
  <2> QED BY <2>1, <1>1 DEF Image
<1> QED BY <1>2, <1>3 DEF Image

LEMMA FlushBufferType ==
  ASSUME NEW img \in Image
  PROVE  FlushBuffer(img) \in Image
<1>1. [InitHeader(img.ws) EXCEPT !.valid = FALSE] \in WorkSpace
  BY ImageTypes, WsTypes
<1> QED BY <1>1 DEF FlushBuffer, Image

LEMMA PutTypes ==
  ASSUME NEW img \in Image, NEW src \in Image
  PROVE  /\ \A b \in AllBlocks : PutBlock(img, src, b) \in Image
         /\ \A B \in SUBSET AllBlocks : PutBlocks(img, src, B) \in Image
<1>1. ASSUME NEW b \in AllBlocks
      PROVE  PutBlock(img, src, b) \in Image
  <2>1. CASE b = WorkSpaceBlock
    BY <2>1 DEF PutBlock, Image
  <2>2. CASE b # WorkSpaceBlock
    <3>1. b \in Data
      BY <2>2, FtwAssumption DEF AllBlocks, WorkSpaceBlock, Data
    <3> QED BY <2>2, <3>1 DEF PutBlock, Image
  <2> QED BY <2>1, <2>2
<1>2. ASSUME NEW B \in SUBSET AllBlocks
      PROVE  PutBlocks(img, src, B) \in Image
  BY DEF PutBlocks, Image
<1> QED BY <1>1, <1>2

LEMMA TornType ==
  ASSUME NEW src \in Image
  PROVE  TornBlock(src) \subseteq Image
<1>1. [b \in Data |-> Torn] \in [Data -> Content]
  BY DEF Content
<1>2. \A k \in 0 .. Slots :
        [src.ws EXCEPT !.recs = [r \in Records |->
           IF r =< k THEN src.ws.recs[r] ELSE {}]] \in WorkSpace
  BY DEF Image, WorkSpace
<1>3. src.healthy \in BOOLEAN
  BY DEF Image
<1> DEFINE W == {ErasedWs} \cup
                {[src.ws EXCEPT !.recs = [r \in Records |->
                    IF r =< k THEN src.ws.recs[r] ELSE {}]] : k \in 0 .. Slots}
<1>4. W \subseteq WorkSpace
  BY <1>2, ConstantTypes
<1>5. TornBlock(src) =
        {[data |-> [b \in Data |-> Torn], healthy |-> h, ws |-> w] :
           h \in {FALSE, src.healthy}, w \in W}
  BY DEF TornBlock
<1> HIDE DEF W
<1>6. ASSUME NEW h \in {FALSE, src.healthy}, NEW w \in W
      PROVE  [data |-> [b \in Data |-> Torn], healthy |-> h, ws |-> w] \in Image
  BY <1>1, <1>3, <1>4 DEF Image
<1> QED BY <1>5, <1>6

LEMMA OverlayType ==
  ASSUME NEW c \in [Data -> Content], NEW r \in Requests
  PROVE  Overlay(c, r) \in [Data -> Content]
BY DEF Overlay, Requests, Content
-----------------------------------------------------------------------------
(* TypeInv is inductive.                                                     *)

(* The fields of a job in progress.                                          *)
LEMMA JobType ==
  ASSUME NEW dst \in {"work", "spare"}, NEW buf \in Image,
         NEW eraseOnly \in BOOLEAN, NEW ret \in Labels
  PROVE  [dst |-> dst, buf |-> buf, eraseOnly |-> eraseOnly, idx |-> 1,
          etry |-> 0, wtry |-> 0, ret |-> ret] \in Job
BY FtwAssumption DEF Job, AllBlocks, WorkSpaceBlock, MaxTry

(* A job starts well typed.                                                  *)
LEMMA StartJobType ==
  ASSUME NEW dst \in {"work", "spare"}, NEW buf \in Image,
         NEW eraseOnly \in BOOLEAN, NEW ret \in Labels,
         StartJob(dst, buf, eraseOnly, ret)
  PROVE  /\ job' \in Job /\ job'.ret = ret /\ job'.dst = dst /\ job'.buf = buf
         /\ pc' = "erase"
BY JobType DEF StartJob

LEMMA JobUpdate ==
  ASSUME NEW j \in Job
  PROVE  /\ [j EXCEPT !.idx = 1, !.etry = 0] \in Job
         /\ j.etry + 1 < MaxTry => [j EXCEPT !.idx = 1, !.etry = @ + 1] \in Job
         /\ j.wtry + 1 < MaxTry => [j EXCEPT !.idx = 1, !.wtry = @ + 1] \in Job
<1>1. 1 \in AllBlocks /\ 0 \in 0 .. MaxTry
  BY FtwAssumption DEF AllBlocks, WorkSpaceBlock, MaxTry
<1>2. \A i \in AllBlocks, t \in 0 .. MaxTry :
        /\ [j EXCEPT !.idx = i, !.etry = t] \in Job
        /\ [j EXCEPT !.idx = i, !.wtry = t] \in Job
  BY DEF Job
<1>3. /\ j.etry + 1 < MaxTry => j.etry + 1 \in 0 .. MaxTry
      /\ j.wtry + 1 < MaxTry => j.wtry + 1 \in 0 .. MaxTry
  BY DEF Job, MaxTry
<1> QED BY <1>1, <1>2, <1>3

LEMMA BitTypes ==
  ASSUME TypeInv, last \in Records, NEW bit \in Bits
  PROVE  /\ SetBit(mws, last, bit) \in WorkSpace
         /\ [work EXCEPT !.ws = SetBit(@, last, bit)] \in Image
         /\ [spare EXCEPT !.ws = SetBit(@, last, bit)] \in Image
BY ImageWsTypes, WsTypes DEF TypeInv, TypeOK

(* Where FtwAbort returns to there is a label.                               *)
LEMMA AbortReturn ==
  TypeInv /\ pc = "abort" => retA \in AbortCallers
BY DEF TypeInv, ControlOK, at, JobLabels

(* Cleaning up leaves room for the record in progress.                       *)
LEMMA CleanupLast ==
  ASSUME NEW ws \in WorkSpace, NEW r
  PROVE  GetLastRecord(CleanupWorkSpace(ws, r)) \in Records
<1> DEFINE clean == CleanupWorkSpace(ws, r)
<1>1. 1 \in Records /\ GetLastRecord(clean) \in 1 .. Slots + 1
  BY FtwAssumption, GetLastRecordType DEF Records
<1>2. "done" \notin clean.recs[1]
  BY <1>1 DEF CleanupWorkSpace, EmptyRecords, WorkSpace
<1>3. ~(1 < GetLastRecord(clean))
  BY <1>1, <1>2, GetLastRecordType
<1> HIDE DEF clean
<1>4. GetLastRecord(clean) = 1
  BY <1>1, <1>3, FtwAssumption
<1> QED BY <1>1, <1>4 DEF clean

(* A loss of power leaves memory and flash well typed.                       *)
LEMMA CrashType ==
  TypeInv /\ Crash => work' \in Image /\ spare' \in Image
<1> SUFFICES ASSUME TypeInv, Crash PROVE work' \in Image /\ spare' \in Image
  OBVIOUS
<1>1. CASE UNCHANGED flash
  BY <1>1 DEF TypeInv, TypeOK, flash
<1>2. CASE /\ pc = "write"
           /\ \E torn \in TornBlock(job.buf) : SetTarget(PutBlock(Target, torn, job.idx))
  <2>1. Target \in Image /\ job.buf \in Image /\ job.idx \in AllBlocks
    BY <1>2 DEF TypeInv, TypeOK, ControlOK, JobLabels, Job, Target
  <2>2. \A torn \in TornBlock(job.buf) : PutBlock(Target, torn, job.idx) \in Image
    BY <2>1, TornType, PutTypes
  <2> QED BY <2>2, <1>2 DEF SetTarget, TypeInv, TypeOK
<1> QED BY <1>1, <1>2 DEF Crash, PowerLossTears

(* A new machine.                                                            *)
LEMMA InitTypeInv == Init => TypeInv
<1> SUFFICES ASSUME Init PROVE TypeInv
  OBVIOUS
<1>1. InitHeader(ErasedWs) \in WorkSpace
  BY WsTypes, ConstantTypes
<1>2. \A w \in WorkSpace :
        [data |-> [b \in Data |-> Initial], healthy |-> TRUE, ws |-> w] \in Image
  BY FtwAssumption DEF Image, Content
<1>a. work \in Image
  BY <1>1, <1>2, ConstantTypes DEF Init
<1>b. 1 \in 1 .. Slots + 1 /\ 0 \in 0 .. MaxWrites /\ 0 \in 0 .. MaxCrashes /\ 0 \in 0 .. MaxFaults
  BY FtwAssumption
<1>3. TypeOK
  BY <1>a, <1>b, ConstantTypes DEF Init, TypeOK, Labels
<1>4. ControlOK
  BY DEF Init, ControlOK, at, InFlush, InReclaim, InRecord, JobLabels,
     FlushLabels, ReclaimLabels, RecordLabels, LastUnbounded
<1> QED BY <1>3, <1>4 DEF TypeInv

(* No step leaves the types, or returns to where nobody called from.         *)
LEMMA TypeInvStep == TypeInv /\ Next => TypeInv'
<1> SUFFICES ASSUME TypeInv, Next PROVE TypeInv'
  OBVIOUS
<1>1. CASE ReclaimFlush
  <2>1. TypeOK'
    BY <1>1 DEF ReclaimFlush, TypeOK, TypeInv, Labels, ControlOK, at, InFlush,
       InReclaim, InRecord, JobLabels, FlushLabels, ReclaimLabels,
       RecordLabels, LastUnbounded, ReclaimCallers, FlushCallers,
       AbortCallers, RecordCallers, flash, rets, bounds, caller, NoFault,
       UpdateFails, Fault, AssertFails, Return, Goto
  <2>2. ControlOK'
    BY <2>1, <1>1 DEF ReclaimFlush, TypeInv, TypeOK, ControlOK, at, InFlush,
       InReclaim, InRecord, JobLabels, FlushLabels, ReclaimLabels,
       RecordLabels, LastUnbounded, ReclaimCallers, FlushCallers,
       AbortCallers, RecordCallers, flash, rets, bounds, caller, NoFault,
       UpdateFails, Fault, AssertFails, Return, Goto
  <2> QED BY <2>1, <2>2 DEF TypeInv
<1>2. CASE BootAbort
  <2>1. TypeOK'
    BY <1>2 DEF BootAbort, TypeOK, TypeInv, Labels, flash, rets, bounds,
       caller, NoFault, UpdateFails, Fault, AssertFails, Return, Goto
  <2>2. ControlOK'
    BY <2>1, <1>2 DEF BootAbort, TypeInv, TypeOK, ControlOK, at, InFlush,
       InReclaim, InRecord, JobLabels, FlushLabels, ReclaimLabels,
       RecordLabels, LastUnbounded, ReclaimCallers, FlushCallers,
       AbortCallers, RecordCallers, flash, rets, bounds, caller, NoFault,
       UpdateFails, Fault, AssertFails, Return, Goto
  <2> QED BY <2>1, <2>2 DEF TypeInv
<1>3. CASE BootDone
  <2>1. TypeOK'
    BY <1>3 DEF BootDone, TypeOK, TypeInv, Labels, flash, rets, bounds,
       caller, NoFault, UpdateFails, Fault, AssertFails, Return, Goto
  <2>2. ControlOK'
    BY <2>1, <1>3 DEF BootDone, TypeInv, TypeOK, ControlOK, at, InFlush,
       InReclaim, InRecord, JobLabels, FlushLabels, ReclaimLabels,
       RecordLabels, LastUnbounded, ReclaimCallers, FlushCallers,
       AbortCallers, RecordCallers, flash, rets, bounds, caller, NoFault,
       UpdateFails, Fault, AssertFails, Return, Goto
  <2> QED BY <2>1, <2>2 DEF TypeInv
<1>4. CASE BootDirty
  <2>1. TypeOK'
    BY <1>4 DEF BootDirty, TypeOK, TypeInv, Labels, flash, rets, bounds,
       caller, NoFault, UpdateFails, Fault, AssertFails, Return, Goto
  <2>2. ControlOK'
    BY <2>1, <1>4 DEF BootDirty, TypeInv, TypeOK, ControlOK, at, InFlush,
       InReclaim, InRecord, JobLabels, FlushLabels, ReclaimLabels,
       RecordLabels, LastUnbounded, ReclaimCallers, FlushCallers,
       AbortCallers, RecordCallers, flash, rets, bounds, caller, NoFault,
       UpdateFails, Fault, AssertFails, Return, Goto
  <2> QED BY <2>1, <2>2 DEF TypeInv
<1>5. CASE BootRestart
  <2>1. recovering' \in BOOLEAN
    BY <1>5 DEF BootRestart, TypeInv, TypeOK
  <2>2. NeedsRestart(RecordAt(mws, last)) => last =< Slots
    BY DEF TypeInv, TypeOK, NeedsRestart, RecordAt, Records
  <2>3. TypeOK'
    BY <2>1, <2>2, <1>5 DEF BootRestart, TypeOK, TypeInv, Labels, flash, rets,
       bounds, caller, NoFault, UpdateFails, Fault, AssertFails, Return, Goto
  <2>4. ControlOK'
    BY <2>1, <2>2, <2>3, <1>5 DEF BootRestart, TypeInv, TypeOK, ControlOK, at,
       InFlush, InReclaim, InRecord, JobLabels, FlushLabels, ReclaimLabels,
       RecordLabels, LastUnbounded, ReclaimCallers, FlushCallers,
       AbortCallers, RecordCallers, flash, rets, bounds, caller, NoFault,
       UpdateFails, Fault, AssertFails, Return, Goto
  <2> QED BY <2>3, <2>4 DEF TypeInv
<1>6. CASE BootRollback
  <2>1. TypeOK'
    BY <1>6 DEF BootRollback, TypeOK, TypeInv, Labels, flash, rets, bounds,
       caller, NoFault, UpdateFails, Fault, AssertFails, Return, Goto
  <2>2. ControlOK'
    BY <2>1, <1>6 DEF BootRollback, TypeInv, TypeOK, ControlOK, at, InFlush,
       InReclaim, InRecord, JobLabels, FlushLabels, ReclaimLabels,
       RecordLabels, LastUnbounded, ReclaimCallers, FlushCallers,
       AbortCallers, RecordCallers, flash, rets, bounds, caller, NoFault,
       UpdateFails, Fault, AssertFails, Return, Goto
  <2> QED BY <2>1, <2>2 DEF TypeInv
<1>7. CASE BootRefresh
  <2>1. work.ws \in WorkSpace /\ last' \in 1 .. Slots + 1 /\ last' = GetLastRecord(work.ws)
    BY <1>7, ImageTypes, GetLastRecordType DEF BootRefresh, WorkSpaceRefresh,
       TypeInv, TypeOK
  <2>2. \/ pc' = "reclaim" /\ retC' = "validate" /\ st' = st
        \/ pc' = "validate" /\ st' = "ok" /\ retC' = retC /\ last' =< Slots
    BY <2>1, <1>7, FtwAssumption DEF BootRefresh, WorkSpaceRefresh, Return
  <2>3. recovering' \in BOOLEAN
    BY <1>7 DEF BootRefresh, TypeInv, TypeOK
  <2>4. TypeOK'
    BY <2>1, <2>2, <2>3, <1>7 DEF BootRefresh, TypeOK, TypeInv,
       WorkSpaceRefresh, Labels, flash, rets, bounds, caller, NoFault,
       UpdateFails, Fault, AssertFails, Return, Goto
  <2>5. ControlOK'
    BY <2>1, <2>2, <2>3, <2>4, <1>7 DEF BootRefresh, TypeInv, TypeOK,
       ControlOK, at, InFlush, InReclaim, InRecord, JobLabels, FlushLabels,
       ReclaimLabels, RecordLabels, LastUnbounded, WorkSpaceRefresh,
       ReclaimCallers, FlushCallers, AbortCallers, RecordCallers, flash, rets,
       bounds, caller, NoFault, UpdateFails, Fault, AssertFails, Return, Goto
  <2> QED BY <2>4, <2>5 DEF TypeInv
<1>8. CASE WriteEnd
  <2>1. TypeOK'
    BY <1>8 DEF WriteEnd, TypeOK, TypeInv, Labels, WriteReturns, flash, rets,
       bounds, caller, NoFault, UpdateFails, Fault, AssertFails, Return, Goto
  <2>2. ControlOK'
    BY <2>1, <1>8 DEF WriteEnd, TypeInv, TypeOK, ControlOK, at, InFlush,
       InReclaim, InRecord, JobLabels, FlushLabels, ReclaimLabels,
       RecordLabels, LastUnbounded, WriteReturns, ReclaimCallers,
       FlushCallers, AbortCallers, RecordCallers, flash, rets, bounds, caller,
       NoFault, UpdateFails, Fault, AssertFails, Return, Goto
  <2> QED BY <2>1, <2>2 DEF TypeInv
<1>9. CASE BootRefreshAgain
  <2>1. work.ws \in WorkSpace /\ last' \in 1 .. Slots + 1 /\ last' = GetLastRecord(work.ws)
    BY <1>9, ImageTypes, GetLastRecordType DEF BootRefreshAgain,
       WorkSpaceRefresh, TypeInv, TypeOK
  <2>2. \/ pc' = "reclaim" /\ retC' = "rollback" /\ st' = st
        \/ pc' = "rollback" /\ st' = "ok" /\ retC' = retC /\ last' =< Slots
    BY <2>1, <1>9, FtwAssumption DEF BootRefreshAgain, WorkSpaceRefresh,
       Return
  <2>3. TypeOK'
    BY <2>1, <2>2, <1>9 DEF BootRefreshAgain, TypeOK, TypeInv,
       WorkSpaceRefresh, Labels, flash, rets, bounds, caller, NoFault,
       UpdateFails, Fault, AssertFails, Return, Goto
  <2>4. ControlOK'
    BY <2>1, <2>2, <2>3, <1>9 DEF BootRefreshAgain, TypeInv, TypeOK,
       ControlOK, at, InFlush, InReclaim, InRecord, JobLabels, FlushLabels,
       ReclaimLabels, RecordLabels, LastUnbounded, WorkSpaceRefresh,
       ReclaimCallers, FlushCallers, AbortCallers, RecordCallers, flash, rets,
       bounds, caller, NoFault, UpdateFails, Fault, AssertFails, Return, Goto
  <2> QED BY <2>3, <2>4 DEF TypeInv
<1>10. CASE Write
  <2>1. work.ws \in WorkSpace /\ last' \in 1 .. Slots + 1 /\ last' = GetLastRecord(work.ws)
    BY <1>10, ImageTypes, GetLastRecordType DEF Write, WorkSpaceRefresh,
       TypeInv, TypeOK
  <2>2. \/ pc' = "reclaim" /\ retC' = "check" /\ st' = st
        \/ pc' = "check" /\ st' = "ok" /\ retC' = retC /\ last' =< Slots
    BY <2>1, <1>10, FtwAssumption DEF Write, WorkSpaceRefresh, Return
  <2>3. writes' \in 0 .. MaxWrites
    BY <1>10, FtwAssumption DEF Write, TypeInv, TypeOK
  <2>4. TypeOK'
    BY <2>1, <2>2, <2>3, <1>10 DEF Write, TypeOK, TypeInv, WorkSpaceRefresh,
       Labels, flash, rets, bounds, caller, NoFault, UpdateFails, Fault,
       AssertFails, Return, Goto
  <2>5. ControlOK'
    BY <2>1, <2>2, <2>3, <2>4, <1>10 DEF Write, TypeInv, TypeOK, ControlOK,
       at, InFlush, InReclaim, InRecord, JobLabels, FlushLabels,
       ReclaimLabels, RecordLabels, LastUnbounded, WorkSpaceRefresh,
       ReclaimCallers, FlushCallers, AbortCallers, RecordCallers, flash, rets,
       bounds, caller, NoFault, UpdateFails, Fault, AssertFails, Return, Goto
  <2> QED BY <2>4, <2>5 DEF TypeInv
<1>11. CASE WriteAllocate
  <2>1. last \in Records => last =< Slots
    BY FtwAssumption DEF Records
  <2>2. last \in Records
    BY <1>11 DEF WriteAllocate, TypeInv, TypeOK, Records, ControlOK, at,
       InFlush, InReclaim, InRecord, JobLabels, FlushLabels, ReclaimLabels,
       RecordLabels, LastUnbounded
  <2>3. [work EXCEPT !.ws = SetBit(@, last, "alloc")] \in Image /\ SetBit(mws, last, "alloc") \in WorkSpace
    BY <2>2, BitTypes DEF Bits
  <2>4. work' \in Image /\ mws' \in WorkSpace
    BY <1>11, <2>3 DEF WriteAllocate, WriteReturns, TypeInv, TypeOK
  <2>5. faults' \in 0 .. MaxFaults
    BY <1>11, FtwAssumption DEF WriteAllocate, TypeInv, TypeOK, UpdateFails,
       Fault, AssertFails, NoFault, MaxTry, bounds
  <2>6. TypeOK'
    BY <2>1, <2>2, <2>3, <2>4, <2>5, <1>11 DEF WriteAllocate, TypeOK, TypeInv,
       Labels, WriteReturns, flash, rets, bounds, caller, NoFault,
       UpdateFails, Fault, AssertFails, Return, Goto
  <2>7. ControlOK'
    BY <2>1, <2>2, <2>3, <2>4, <2>5, <2>6, <1>11 DEF WriteAllocate, TypeInv,
       TypeOK, ControlOK, at, InFlush, InReclaim, InRecord, JobLabels,
       FlushLabels, ReclaimLabels, RecordLabels, LastUnbounded, WriteReturns,
       ReclaimCallers, FlushCallers, AbortCallers, RecordCallers, flash, rets,
       bounds, caller, NoFault, UpdateFails, Fault, AssertFails, Return, Goto
  <2> QED BY <2>6, <2>7 DEF TypeInv
<1>12. CASE WriteBody
  <2>1. last \in Records => last =< Slots
    BY FtwAssumption DEF Records
  <2>2. last \in Records
    BY <1>12 DEF WriteBody, TypeInv, TypeOK, Records, ControlOK, at, InFlush,
       InReclaim, InRecord, JobLabels, FlushLabels, ReclaimLabels,
       RecordLabels, LastUnbounded
  <2>3. [work EXCEPT !.ws = SetBit(@, last, "body")] \in Image /\ SetBit(mws, last, "body") \in WorkSpace
    BY <2>2, BitTypes DEF Bits
  <2>4. work' \in Image /\ mws' \in WorkSpace
    BY <1>12, <2>3 DEF WriteBody, WriteReturns, TypeInv, TypeOK
  <2>5. faults' \in 0 .. MaxFaults
    BY <1>12, FtwAssumption DEF WriteBody, TypeInv, TypeOK, UpdateFails, Fault,
       AssertFails, NoFault, MaxTry, bounds
  <2>6. TypeOK'
    BY <2>1, <2>2, <2>3, <2>4, <2>5, <1>12 DEF WriteBody, TypeOK, TypeInv,
       Labels, WriteReturns, flash, rets, bounds, caller, NoFault,
       UpdateFails, Fault, AssertFails, Return, Goto
  <2>7. ControlOK'
    BY <2>1, <2>2, <2>3, <2>4, <2>5, <2>6, <1>12 DEF WriteBody, TypeInv,
       TypeOK, ControlOK, at, InFlush, InReclaim, InRecord, JobLabels,
       FlushLabels, ReclaimLabels, RecordLabels, LastUnbounded, WriteReturns,
       ReclaimCallers, FlushCallers, AbortCallers, RecordCallers, flash, rets,
       bounds, caller, NoFault, UpdateFails, Fault, AssertFails, Return, Goto
  <2> QED BY <2>6, <2>7 DEF TypeInv
<1>13. CASE WriteMark
  <2>1. last \in Records => last =< Slots
    BY FtwAssumption DEF Records
  <2>2. last \in Records
    BY <1>13 DEF WriteMark, TypeInv, TypeOK, Records, ControlOK, at, InFlush,
       InReclaim, InRecord, JobLabels, FlushLabels, ReclaimLabels,
       RecordLabels, LastUnbounded
  <2>3. [work EXCEPT !.ws = SetBit(@, last, "spare")] \in Image /\ SetBit(mws, last, "spare") \in WorkSpace
    BY <2>2, BitTypes DEF Bits
  <2>4. work' \in Image /\ mws' \in WorkSpace
    BY <1>13, <2>3 DEF WriteMark, WriteReturns, TypeInv, TypeOK
  <2>5. faults' \in 0 .. MaxFaults
    BY <1>13, FtwAssumption DEF WriteMark, TypeInv, TypeOK, UpdateFails, Fault,
       AssertFails, NoFault, MaxTry, bounds
  <2>6. TypeOK'
    BY <2>1, <2>2, <2>3, <2>4, <2>5, <1>13 DEF WriteMark, TypeOK, TypeInv,
       Labels, WriteReturns, flash, rets, bounds, caller, NoFault,
       UpdateFails, Fault, AssertFails, Return, Goto
  <2>7. ControlOK'
    BY <2>1, <2>2, <2>3, <2>4, <2>5, <2>6, <1>13 DEF WriteMark, TypeInv,
       TypeOK, ControlOK, at, InFlush, InReclaim, InRecord, JobLabels,
       FlushLabels, ReclaimLabels, RecordLabels, LastUnbounded, WriteReturns,
       ReclaimCallers, FlushCallers, AbortCallers, RecordCallers, flash, rets,
       bounds, caller, NoFault, UpdateFails, Fault, AssertFails, Return, Goto
  <2> QED BY <2>6, <2>7 DEF TypeInv
<1>14. CASE WriteRecordSpare
  <2>1. last \in Records => last =< Slots
    BY FtwAssumption DEF Records
  <2>2. last \in Records
    BY <1>14 DEF WriteRecordSpare, TypeInv, TypeOK, Records, ControlOK, at,
       InFlush, InReclaim, InRecord, JobLabels, FlushLabels, ReclaimLabels,
       RecordLabels, LastUnbounded
  <2>3. [spare EXCEPT !.ws = SetBit(@, last, "spare")] \in Image /\ SetBit(mws, last, "spare") \in WorkSpace
    BY <2>2, BitTypes DEF Bits
  <2>4. spare' \in Image /\ mws' \in WorkSpace
    BY <1>14, <2>3 DEF WriteRecordSpare, WriteReturns, TypeInv, TypeOK
  <2>5. faults' \in 0 .. MaxFaults
    BY <1>14, FtwAssumption DEF WriteRecordSpare, TypeInv, TypeOK,
       UpdateFails, Fault, AssertFails, NoFault, MaxTry, bounds
  <2>6. TypeOK'
    BY <2>1, <2>2, <2>3, <2>4, <2>5, <1>14 DEF WriteRecordSpare, TypeOK,
       TypeInv, Labels, flash, rets, bounds, caller, NoFault, UpdateFails,
       Fault, AssertFails, Return, Goto
  <2>7. ControlOK'
    BY <2>1, <2>2, <2>3, <2>4, <2>5, <2>6, <1>14 DEF WriteRecordSpare,
       TypeInv, TypeOK, ControlOK, at, InFlush, InReclaim, InRecord,
       JobLabels, FlushLabels, ReclaimLabels, RecordLabels, LastUnbounded,
       ReclaimCallers, FlushCallers, AbortCallers, RecordCallers, flash, rets,
       bounds, caller, NoFault, UpdateFails, Fault, AssertFails, Return, Goto
  <2> QED BY <2>6, <2>7 DEF TypeInv
<1>15. CASE WriteRecordDone
  <2>1. last \in Records => last =< Slots
    BY FtwAssumption DEF Records
  <2>2. last \in Records
    BY <1>15 DEF WriteRecordDone, TypeInv, TypeOK, Records, ControlOK, at,
       InFlush, InReclaim, InRecord, JobLabels, FlushLabels, ReclaimLabels,
       RecordLabels, LastUnbounded
  <2>3. [work EXCEPT !.ws = SetBit(@, last, "done")] \in Image /\ SetBit(mws, last, "done") \in WorkSpace
    BY <2>2, BitTypes DEF Bits
  <2>4. work' \in Image /\ mws' \in WorkSpace
    BY <1>15, <2>3 DEF WriteRecordDone, WriteReturns, TypeInv, TypeOK
  <2>5. faults' \in 0 .. MaxFaults
    BY <1>15, FtwAssumption DEF WriteRecordDone, TypeInv, TypeOK, UpdateFails,
       Fault, AssertFails, NoFault, MaxTry, bounds
  <2>6. TypeOK'
    BY <2>1, <2>2, <2>3, <2>4, <2>5, <1>15 DEF WriteRecordDone, TypeOK,
       TypeInv, Labels, ControlOK, at, InFlush, InReclaim, InRecord,
       JobLabels, FlushLabels, ReclaimLabels, RecordLabels, LastUnbounded,
       ReclaimCallers, FlushCallers, AbortCallers, RecordCallers, flash, rets,
       bounds, caller, NoFault, UpdateFails, Fault, AssertFails, Return, Goto
  <2>7. ControlOK'
    BY <2>1, <2>2, <2>3, <2>4, <2>5, <2>6, <1>15 DEF WriteRecordDone, TypeInv,
       TypeOK, ControlOK, at, InFlush, InReclaim, InRecord, JobLabels,
       FlushLabels, ReclaimLabels, RecordLabels, LastUnbounded,
       ReclaimCallers, FlushCallers, AbortCallers, RecordCallers, flash, rets,
       bounds, caller, NoFault, UpdateFails, Fault, AssertFails, Return, Goto
  <2> QED BY <2>6, <2>7 DEF TypeInv
<1>16. CASE AbortMark
  <2>1. last \in Records => last =< Slots
    BY FtwAssumption DEF Records
  <2>2. last \in Records
    BY <1>16 DEF AbortMark, TypeInv, TypeOK, Records, ControlOK, at, InFlush,
       InReclaim, InRecord, JobLabels, FlushLabels, ReclaimLabels,
       RecordLabels, LastUnbounded
  <2>3. [work EXCEPT !.ws = SetBit(@, last, "done")] \in Image /\ SetBit(mws, last, "done") \in WorkSpace
    BY <2>2, BitTypes DEF Bits
  <2>4. work' \in Image /\ mws' \in WorkSpace
    BY <1>16, <2>3 DEF AbortMark, WriteReturns, TypeInv, TypeOK
  <2>5. faults' \in 0 .. MaxFaults
    BY <1>16, FtwAssumption DEF AbortMark, TypeInv, TypeOK, UpdateFails, Fault,
       AssertFails, NoFault, MaxTry, bounds
  <2>6. retA \in AbortCallers
    BY <1>16, AbortReturn DEF AbortMark
  <2>7. \/ pc' = retA /\ UNCHANGED <<job, last>>
        \/ pc' = "erase" /\ job' \in Job /\ job'.ret = retA /\ last' \in 1 .. Slots + 1
    BY ZenonT(60), <1>16, <2>6, StartJobType, ConstantTypes, GetLastRecordType DEF
       AbortMark, FtwEraseSpareBlock, AbortCallers, Labels
  <2>8. TypeOK'
    BY <2>1, <2>2, <2>3, <2>4, <2>5, <2>6, <2>7, <1>16 DEF AbortMark, TypeOK,
       TypeInv, Labels, AbortCallers, flash, rets, bounds, caller, NoFault,
       UpdateFails, Fault, AssertFails, Return, Goto
  <2>9. ControlOK'
    BY <2>1, <2>2, <2>3, <2>4, <2>5, <2>6, <2>7, <2>8, <1>16 DEF AbortMark,
       TypeInv, TypeOK, ControlOK, at, InFlush, InReclaim, InRecord,
       JobLabels, FlushLabels, ReclaimLabels, RecordLabels, LastUnbounded,
       ReclaimCallers, FlushCallers, AbortCallers, RecordCallers, flash, rets,
       bounds, caller, NoFault, UpdateFails, Fault, AssertFails, Return, Goto
  <2> QED BY <2>8, <2>9 DEF TypeInv
<1>17. CASE ReclaimStart
  <2>1. CleanupWorkSpace(mws, last) \in WorkSpace
    BY CleanupType DEF TypeInv, TypeOK
  <2>2. last' = GetLastRecord(CleanupWorkSpace(mws, last)) /\ mws' = CleanupWorkSpace(mws, last)
    BY <1>17 DEF ReclaimStart
  <2>3. last' \in 1 .. Slots /\ last' \in 1 .. Slots + 1
    BY <2>2, CleanupLast, FtwAssumption DEF TypeInv, TypeOK, Records
  <2>4. job' \in Job
    BY <1>17, <2>1, JobType, ImageTypes, ImageWsTypes, WsTypes, ConstantTypes
       DEF ReclaimStart, StartJob, WriteTargetBlock, FtwEraseSpareBlock,
       TypeInv, TypeOK, Labels
  <2>5. TypeOK'
    BY <2>1, <2>2, <2>3, <2>4, <1>17 DEF ReclaimStart, TypeOK, TypeInv,
       StartJob, WriteTargetBlock, FtwEraseSpareBlock, Labels, flash, rets,
       bounds, caller, NoFault, UpdateFails, Fault, AssertFails, Return, Goto
  <2>6. ControlOK'
    BY <2>1, <2>2, <2>3, <2>4, <2>5, <1>17 DEF ReclaimStart, TypeInv, TypeOK,
       ControlOK, at, InFlush, InReclaim, InRecord, JobLabels, FlushLabels,
       ReclaimLabels, RecordLabels, LastUnbounded, StartJob, WriteTargetBlock,
       FtwEraseSpareBlock, ReclaimCallers, FlushCallers, AbortCallers,
       RecordCallers, flash, rets, bounds, caller, NoFault, UpdateFails, Fault,
       AssertFails, Return, Goto
  <2> QED BY <2>5, <2>6 DEF TypeInv
<1>18. CASE ReclaimRestore
  <2>1. st # "fail" => job' \in Job
    <3>1. pc = "reclaim_restore"
      BY <1>18 DEF ReclaimRestore
    <3>2. InReclaim
      BY <3>1 DEF InReclaim, at, ReclaimLabels, JobLabels
    <3>3. retC \in ReclaimCallers
      BY <3>2 DEF TypeInv, ControlOK
    <3>4. retC \in Labels
      BY <3>3 DEF ReclaimCallers, Labels
    <3>5. saved \in Image
      BY DEF TypeInv, TypeOK
    <3>6. st # "fail" => StartJob("spare", saved, FALSE, retC)
      BY <1>18 DEF ReclaimRestore, WriteTargetBlock
    <3> QED BY <3>4, <3>5, <3>6, StartJobType
  <2>2. TypeOK'
    BY <2>1, <1>18 DEF ReclaimRestore, TypeOK, TypeInv, StartJob,
       WriteTargetBlock, FtwEraseSpareBlock, Labels, ControlOK, at, InFlush,
       InReclaim, InRecord, JobLabels, FlushLabels, ReclaimLabels,
       RecordLabels, LastUnbounded, ReclaimCallers, FlushCallers,
       AbortCallers, RecordCallers, flash, rets, bounds, caller, NoFault,
       UpdateFails, Fault, AssertFails, Return, Goto
  <2>3. ControlOK'
    BY <2>1, <2>2, <1>18 DEF ReclaimRestore, TypeInv, TypeOK, ControlOK, at,
       InFlush, InReclaim, InRecord, JobLabels, FlushLabels, ReclaimLabels,
       RecordLabels, LastUnbounded, StartJob, WriteTargetBlock,
       FtwEraseSpareBlock, ReclaimCallers, FlushCallers, AbortCallers,
       RecordCallers, flash, rets, bounds, caller, NoFault, UpdateFails, Fault,
       AssertFails, Return, Goto
  <2> QED BY <2>2, <2>3 DEF TypeInv
<1>19. CASE FlushSetSpareValid
  <2>1. spare' \in Image
    BY <1>19, ImageTypes, ImageWsTypes, WsTypes, ConstantTypes DEF
       FlushSetSpareValid, TypeInv, TypeOK
  <2>2. faults' \in 0 .. MaxFaults
    BY <1>19, FtwAssumption DEF FlushSetSpareValid, TypeInv, TypeOK,
       UpdateFails, Fault, AssertFails, NoFault, MaxTry, bounds
  <2>3. TypeOK'
    BY <2>1, <2>2, <1>19 DEF FlushSetSpareValid, TypeOK, TypeInv, Labels,
       ControlOK, at, InFlush, InReclaim, InRecord, JobLabels, FlushLabels,
       ReclaimLabels, RecordLabels, LastUnbounded, ReclaimCallers,
       FlushCallers, AbortCallers, RecordCallers, flash, rets, bounds, caller,
       NoFault, UpdateFails, Fault, AssertFails, Return, Goto
  <2>4. ControlOK'
    BY <2>1, <2>2, <2>3, <1>19 DEF FlushSetSpareValid, TypeInv, TypeOK,
       ControlOK, at, InFlush, InReclaim, InRecord, JobLabels, FlushLabels,
       ReclaimLabels, RecordLabels, LastUnbounded, ReclaimCallers,
       FlushCallers, AbortCallers, RecordCallers, flash, rets, bounds, caller,
       NoFault, UpdateFails, Fault, AssertFails, Return, Goto
  <2> QED BY <2>3, <2>4 DEF TypeInv
<1>20. CASE FlushCopy
  <2>1. work' \in Image /\ mws' \in WorkSpace /\ wasHealthy' \in BOOLEAN
    BY <1>20, ImageTypes, ImageWsTypes, WsTypes, ConstantTypes DEF FlushCopy,
       TypeInv, TypeOK
  <2>2. faults' \in 0 .. MaxFaults
    BY <1>20, FtwAssumption DEF FlushCopy, TypeInv, TypeOK, UpdateFails, Fault,
       AssertFails, NoFault, MaxTry, bounds
  <2>3. FlushBuffer(spare) \in Image
    BY FlushBufferType DEF TypeInv, TypeOK
  <2>4. retF \in FlushCallers
    BY <1>20 DEF FlushCopy, TypeInv, ControlOK, at, InFlush, FlushLabels,
       JobLabels
  <2>5. \/ pc' = retF /\ UNCHANGED job /\ st' = "fail"
        \/ pc' = "erase" /\ job' \in Job /\ job'.ret = "flush_healthy" /\ st' = st
    BY <1>20, <2>3, StartJobType DEF FlushCopy, Return, WriteTargetBlock,
       FlushCallers, Labels
  <2>6. TypeOK'
    BY <2>1, <2>2, <2>3, <2>4, <2>5, <1>20 DEF FlushCopy, TypeOK, TypeInv,
       StartJob, WriteTargetBlock, FtwEraseSpareBlock, Labels, ControlOK, at,
       InFlush, InReclaim, InRecord, JobLabels, FlushLabels, ReclaimLabels,
       RecordLabels, LastUnbounded, ReclaimCallers, FlushCallers,
       AbortCallers, RecordCallers, flash, rets, bounds, caller, NoFault,
       UpdateFails, Fault, AssertFails, Return, Goto
  <2>7. ControlOK'
    BY <2>1, <2>2, <2>3, <2>4, <2>5, <2>6, <1>20 DEF FlushCopy, TypeInv,
       TypeOK, ControlOK, at, InFlush, InReclaim, InRecord, JobLabels,
       FlushLabels, ReclaimLabels, RecordLabels, LastUnbounded, StartJob,
       WriteTargetBlock, FtwEraseSpareBlock, ReclaimCallers, FlushCallers,
       AbortCallers, RecordCallers, flash, rets, bounds, caller, NoFault,
       UpdateFails, Fault, AssertFails, Return, Goto
  <2> QED BY <2>6, <2>7 DEF TypeInv
<1>21. CASE FlushSetHealthy
  <2>1. work' \in Image
    BY <1>21, ImageTypes, ImageWsTypes, WsTypes, ConstantTypes DEF
       FlushSetHealthy, TypeInv, TypeOK
  <2>2. faults' \in 0 .. MaxFaults
    BY <1>21, FtwAssumption DEF FlushSetHealthy, TypeInv, TypeOK, UpdateFails,
       Fault, AssertFails, NoFault, MaxTry, bounds
  <2>3. TypeOK'
    BY <2>1, <2>2, <1>21 DEF FlushSetHealthy, TypeOK, TypeInv, Labels,
       ControlOK, at, InFlush, InReclaim, InRecord, JobLabels, FlushLabels,
       ReclaimLabels, RecordLabels, LastUnbounded, ReclaimCallers,
       FlushCallers, AbortCallers, RecordCallers, flash, rets, bounds, caller,
       NoFault, UpdateFails, Fault, AssertFails, Return, Goto
  <2>4. ControlOK'
    BY <2>1, <2>2, <2>3, <1>21 DEF FlushSetHealthy, TypeInv, TypeOK,
       ControlOK, at, InFlush, InReclaim, InRecord, JobLabels, FlushLabels,
       ReclaimLabels, RecordLabels, LastUnbounded, ReclaimCallers,
       FlushCallers, AbortCallers, RecordCallers, flash, rets, bounds, caller,
       NoFault, UpdateFails, Fault, AssertFails, Return, Goto
  <2> QED BY <2>3, <2>4 DEF TypeInv
<1>22. CASE FlushSetValid
  <2>1. work' \in Image /\ mws' \in WorkSpace
    BY <1>22, ImageTypes, ImageWsTypes, WsTypes, ConstantTypes DEF
       FlushSetValid, TypeInv, TypeOK
  <2>2. faults' \in 0 .. MaxFaults
    BY <1>22, FtwAssumption DEF FlushSetValid, TypeInv, TypeOK, UpdateFails,
       Fault, AssertFails, NoFault, MaxTry, bounds
  <2>3. TypeOK'
    BY <2>1, <2>2, <1>22 DEF FlushSetValid, TypeOK, TypeInv, Labels,
       ControlOK, at, InFlush, InReclaim, InRecord, JobLabels, FlushLabels,
       ReclaimLabels, RecordLabels, LastUnbounded, ReclaimCallers,
       FlushCallers, AbortCallers, RecordCallers, flash, rets, bounds, caller,
       NoFault, UpdateFails, Fault, AssertFails, Return, Goto
  <2>4. ControlOK'
    BY <2>1, <2>2, <2>3, <1>22 DEF FlushSetValid, TypeInv, TypeOK, ControlOK,
       at, InFlush, InReclaim, InRecord, JobLabels, FlushLabels,
       ReclaimLabels, RecordLabels, LastUnbounded, ReclaimCallers,
       FlushCallers, AbortCallers, RecordCallers, flash, rets, bounds, caller,
       NoFault, UpdateFails, Fault, AssertFails, Return, Goto
  <2> QED BY <2>3, <2>4 DEF TypeInv
<1>23. CASE WriteSpare
  <2>1. Overlay(work.data, req) \in [Data -> Content]
    BY <1>23, OverlayType, ImageTypes DEF WriteSpare, TypeInv, TypeOK,
       ControlOK, at, InFlush, InReclaim, InRecord, JobLabels, FlushLabels,
       ReclaimLabels, RecordLabels, LastUnbounded
  <2>2. job' \in Job
    BY <1>23, JobType, ImageTypes, ImageWsTypes, WsTypes, ConstantTypes, <2>1
       DEF WriteSpare, StartJob, WriteTargetBlock, FtwEraseSpareBlock,
       TypeInv, TypeOK, Labels
  <2>3. TypeOK'
    BY <2>1, <2>2, <1>23 DEF WriteSpare, TypeOK, TypeInv, StartJob,
       WriteTargetBlock, FtwEraseSpareBlock, Labels, flash, rets, bounds,
       caller, NoFault, UpdateFails, Fault, AssertFails, Return, Goto
  <2>4. ControlOK'
    BY <2>1, <2>2, <2>3, <1>23 DEF WriteSpare, TypeInv, TypeOK, ControlOK, at,
       InFlush, InReclaim, InRecord, JobLabels, FlushLabels, ReclaimLabels,
       RecordLabels, LastUnbounded, StartJob, WriteTargetBlock,
       FtwEraseSpareBlock, ReclaimCallers, FlushCallers, AbortCallers,
       RecordCallers, flash, rets, bounds, caller, NoFault, UpdateFails, Fault,
       AssertFails, Return, Goto
  <2> QED BY <2>3, <2>4 DEF TypeInv
<1>24. CASE WriteRestore
  <2>1. last' \in 1 .. Slots + 1
    BY <1>24, FtwAssumption DEF WriteRestore, TypeInv, TypeOK, ControlOK, at,
       InFlush, InReclaim, InRecord, JobLabels, FlushLabels, ReclaimLabels,
       RecordLabels, LastUnbounded
  <2>2. job' \in Job
    BY <1>24, JobType, ImageTypes, ImageWsTypes, WsTypes, ConstantTypes DEF
       WriteRestore, StartJob, WriteTargetBlock, FtwEraseSpareBlock, TypeInv,
       TypeOK, Labels
  <2>3. TypeOK'
    BY <2>1, <2>2, <1>24 DEF WriteRestore, TypeOK, TypeInv, StartJob,
       WriteTargetBlock, FtwEraseSpareBlock, Labels, flash, rets, bounds,
       caller, NoFault, UpdateFails, Fault, AssertFails, Return, Goto
  <2>4. ControlOK'
    BY <2>1, <2>2, <2>3, <1>24 DEF WriteRestore, TypeInv, TypeOK, ControlOK,
       at, InFlush, InReclaim, InRecord, JobLabels, FlushLabels,
       ReclaimLabels, RecordLabels, LastUnbounded, StartJob, WriteTargetBlock,
       FtwEraseSpareBlock, ReclaimCallers, FlushCallers, AbortCallers,
       RecordCallers, flash, rets, bounds, caller, NoFault, UpdateFails, Fault,
       AssertFails, Return, Goto
  <2> QED BY <2>3, <2>4 DEF TypeInv
<1>25. CASE BootRestarted
  <2>1. last' \in 1 .. Slots + 1
    BY <1>25, FtwAssumption DEF BootRestarted, TypeInv, TypeOK, ControlOK, at,
       InFlush, InReclaim, InRecord, JobLabels, FlushLabels, ReclaimLabels,
       RecordLabels, LastUnbounded
  <2>2. job' \in Job
    BY <1>25, JobType, ImageTypes, ImageWsTypes, WsTypes, ConstantTypes DEF
       BootRestarted, StartJob, WriteTargetBlock, FtwEraseSpareBlock, TypeInv,
       TypeOK, Labels
  <2>3. TypeOK'
    BY <2>1, <2>2, <1>25 DEF BootRestarted, TypeOK, TypeInv, StartJob,
       WriteTargetBlock, FtwEraseSpareBlock, Labels, flash, rets, bounds,
       caller, NoFault, UpdateFails, Fault, AssertFails, Return, Goto
  <2>4. ControlOK'
    BY <2>1, <2>2, <2>3, <1>25 DEF BootRestarted, TypeInv, TypeOK, ControlOK,
       at, InFlush, InReclaim, InRecord, JobLabels, FlushLabels,
       ReclaimLabels, RecordLabels, LastUnbounded, StartJob, WriteTargetBlock,
       FtwEraseSpareBlock, ReclaimCallers, FlushCallers, AbortCallers,
       RecordCallers, flash, rets, bounds, caller, NoFault, UpdateFails, Fault,
       AssertFails, Return, Goto
  <2> QED BY <2>3, <2>4 DEF TypeInv
<1>26. CASE BootValidate
  <2>1. mws' \in WorkSpace
    BY <1>26, ImageTypes, ImageWsTypes, WsTypes, ConstantTypes DEF
       BootValidate, TypeInv, TypeOK
  <2>2. recovering' \in BOOLEAN
    BY <1>26 DEF BootValidate, TypeInv, TypeOK
  <2>3. TypeOK'
    BY <2>1, <2>2, <1>26 DEF BootValidate, TypeOK, TypeInv, Labels, flash,
       rets, bounds, caller, NoFault, UpdateFails, Fault, AssertFails, Return,
       Goto
  <2>4. ControlOK'
    BY <2>1, <2>2, <2>3, <1>26 DEF BootValidate, TypeInv, TypeOK, ControlOK,
       at, InFlush, InReclaim, InRecord, JobLabels, FlushLabels,
       ReclaimLabels, RecordLabels, LastUnbounded, ReclaimCallers,
       FlushCallers, AbortCallers, RecordCallers, flash, rets, bounds, caller,
       NoFault, UpdateFails, Fault, AssertFails, Return, Goto
  <2> QED BY <2>3, <2>4 DEF TypeInv
<1>27. CASE EraseStep
  <2>1. Target \in Image /\ job \in Job /\ job.buf \in Image /\ job.ret \in Labels /\ job.idx \in AllBlocks /\ job.ret \notin JobLabels
    BY <1>27 DEF EraseStep, Target, Job, TypeInv, TypeOK, ControlOK, JobLabels
  <2>2. PutBlocks(Target, ErasedImage, ErasedNow) \in Image
    BY <2>1, ConstantTypes, PutTypes DEF ErasedNow
  <2>3. work' \in Image /\ spare' \in Image
    BY <1>27, <2>1, <2>2 DEF EraseStep, SetTarget, TypeInv, TypeOK
  <2>4. faults' \in 0 .. MaxFaults
    BY <1>27, FtwAssumption DEF EraseStep, TypeInv, TypeOK, NoFault, Fault
  <2>5. job.idx # WorkSpaceBlock => [job EXCEPT !.idx = @ + 1] \in Job
    BY SMTT(40), <2>1, FtwAssumption DEF Job, AllBlocks, WorkSpaceBlock
  <2>6. [job EXCEPT !.idx = 1, !.etry = 0] \in Job
    BY ZenonT(60), <2>1, JobUpdate
  <2>7. job.etry + 1 < MaxTry => [job EXCEPT !.idx = 1, !.etry = @ + 1] \in Job
    BY ZenonT(60), <2>1, JobUpdate
  <2>8. job.wtry + 1 < MaxTry => [job EXCEPT !.idx = 1, !.wtry = @ + 1] \in Job
    BY <2>1, JobUpdate
  <2>9. \/ pc' = job.ret /\ st' \in {"ok", "fail"} /\ job' = NoJob
        \/ pc' \in JobLabels /\ job' \in Job /\ job'.ret = job.ret /\ st' = st
    BY <1>27, <2>1, <2>5, <2>6, <2>7, <2>8 DEF EraseStep, EraseVerify,
       JobReturns, EraseEnds, JobLabels, Job
  <2>10. TypeOK'
    BY <2>1, <2>2, <2>3, <2>4, <2>5, <2>6, <2>7, <2>8, <2>9, <1>27 DEF
       EraseStep, TypeOK, TypeInv, Labels, JobLabels, flash, rets, bounds,
       caller, NoFault, UpdateFails, Fault, AssertFails, Return, Goto
  <2>11. ControlOK'
    BY <2>1, <2>2, <2>3, <2>4, <2>5, <2>6, <2>7, <2>8, <2>9, <2>10, <1>27 DEF
       EraseStep, TypeInv, TypeOK, ControlOK, at, InFlush, InReclaim,
       InRecord, JobLabels, FlushLabels, ReclaimLabels, RecordLabels,
       LastUnbounded, ReclaimCallers, FlushCallers, AbortCallers,
       RecordCallers, flash, rets, bounds, caller, NoFault, UpdateFails, Fault,
       AssertFails, Return, Goto
  <2> QED BY <2>10, <2>11 DEF TypeInv
<1>28. CASE WriteStep
  <2>1. Target \in Image /\ job \in Job /\ job.buf \in Image /\ job.ret \in Labels /\ job.idx \in AllBlocks /\ job.ret \notin JobLabels
    BY <1>28 DEF WriteStep, Target, Job, TypeInv, TypeOK, ControlOK, JobLabels
  <2>2. PutBlock(Target, job.buf, job.idx) \in Image
    BY <2>1, ConstantTypes, PutTypes DEF ErasedNow
  <2>3. work' \in Image /\ spare' \in Image
    BY <1>28, <2>1, <2>2 DEF WriteStep, SetTarget, TypeInv, TypeOK
  <2>4. faults' \in 0 .. MaxFaults
    BY <1>28, FtwAssumption DEF WriteStep, TypeInv, TypeOK, NoFault, Fault
  <2>5. job.idx # WorkSpaceBlock => [job EXCEPT !.idx = @ + 1] \in Job
    BY <2>1, FtwAssumption DEF Job, AllBlocks, WorkSpaceBlock
  <2>6. [job EXCEPT !.idx = 1, !.etry = 0] \in Job
    BY <2>1, JobUpdate
  <2>7. job.etry + 1 < MaxTry => [job EXCEPT !.idx = 1, !.etry = @ + 1] \in Job
    BY <2>1, JobUpdate
  <2>8. job.wtry + 1 < MaxTry => [job EXCEPT !.idx = 1, !.wtry = @ + 1] \in Job
    BY <2>1, JobUpdate
  <2>9. \/ pc' = job.ret /\ st' \in {"ok", "fail"} /\ job' = NoJob
        \/ pc' \in JobLabels /\ job' \in Job /\ job'.ret = job.ret /\ st' = st
    BY <1>28, <2>1, <2>5, <2>6, <2>7, <2>8 DEF WriteStep, WriteVerify,
       JobReturns, EraseEnds, JobLabels, Job
  <2>10. TypeOK'
    BY <2>1, <2>2, <2>3, <2>4, <2>5, <2>6, <2>7, <2>8, <2>9, <1>28 DEF
       WriteStep, TypeOK, TypeInv, Labels, JobLabels, flash, rets, bounds,
       caller, NoFault, UpdateFails, Fault, AssertFails, Return, Goto
  <2>11. ControlOK'
    BY <2>1, <2>2, <2>3, <2>4, <2>5, <2>6, <2>7, <2>8, <2>9, <2>10, <1>28 DEF
       WriteStep, TypeInv, TypeOK, ControlOK, at, InFlush, InReclaim,
       InRecord, JobLabels, FlushLabels, ReclaimLabels, RecordLabels,
       LastUnbounded, ReclaimCallers, FlushCallers, AbortCallers,
       RecordCallers, flash, rets, bounds, caller, NoFault, UpdateFails, Fault,
       AssertFails, Return, Goto
  <2> QED BY <2>10, <2>11 DEF TypeInv
<1>29. CASE Crash
  <2>1. work' \in Image /\ spare' \in Image
    BY <1>29, CrashType DEF Crash, TypeInv
  <2>2. crashes' \in 0 .. MaxCrashes
    BY <1>29, FtwAssumption DEF Crash, TypeInv, TypeOK
  <2>3. 1 \in 1 .. Slots + 1
    BY FtwAssumption
  <2>4. TypeOK'
    BY <2>1, <2>2, <2>3, <1>29, ConstantTypes DEF Crash, TypeOK, TypeInv,
       Labels, flash, rets, bounds, caller, NoFault, UpdateFails, Fault,
       AssertFails, Return, Goto
  <2>5. ControlOK'
    BY <2>1, <2>2, <2>3, <2>4, <1>29 DEF Crash, TypeInv, TypeOK, ControlOK,
       at, InFlush, InReclaim, InRecord, JobLabels, FlushLabels,
       ReclaimLabels, RecordLabels, LastUnbounded, ReclaimCallers,
       FlushCallers, AbortCallers, RecordCallers, flash, rets, bounds, caller,
       NoFault, UpdateFails, Fault, AssertFails, Return, Goto
  <2> QED BY <2>4, <2>5 DEF TypeInv
<1>30. CASE EraseReports
  <2>1. Target \in Image /\ job \in Job /\ job.ret \in Labels /\ job.ret \notin JobLabels
    BY <1>30 DEF EraseReports, Target, Job, TypeInv, TypeOK, ControlOK, JobLabels
  <2>2. ErasedNow \subseteq AllBlocks
    BY <1>30 DEF EraseReports, ErasedNow, Job, TypeInv, TypeOK, ControlOK, JobLabels
  <2>3. \A k : PutBlocks(Target, ErasedImage, {b \in ErasedNow : b =< k}) \in Image
    BY <2>1, <2>2, ConstantTypes, PutTypes
  <2>4. work' \in Image /\ spare' \in Image
    BY <1>30, <2>3 DEF EraseReports, SetTarget, TypeInv, TypeOK
  <2>5. faults' \in 0 .. MaxFaults
    BY <1>30, FtwAssumption DEF EraseReports, TypeInv, TypeOK, Fault
  <2>6. pc' = job.ret /\ st' = "fail" /\ job' = NoJob
    BY <1>30 DEF EraseReports, JobReturns
  <2>7. TypeOK'
    BY <2>1, <2>4, <2>5, <2>6, <1>30 DEF EraseReports, TypeOK, TypeInv, Labels,
       JobLabels, flash, rets, bounds, caller
  <2>8. ControlOK'
    BY <2>1, <2>4, <2>5, <2>6, <2>7, <1>30 DEF EraseReports, TypeInv, TypeOK,
       ControlOK, at, InFlush, InReclaim, InRecord, JobLabels, FlushLabels,
       ReclaimLabels, RecordLabels, LastUnbounded, ReclaimCallers,
       FlushCallers, AbortCallers, RecordCallers, flash, rets, bounds, caller
  <2> QED BY <2>7, <2>8 DEF TypeInv
<1>31. CASE WriteReports
  <2>1. Target \in Image /\ job \in Job /\ job.buf \in Image /\ job.ret \in Labels
        /\ job.idx \in AllBlocks /\ job.ret \notin JobLabels
    BY <1>31 DEF WriteReports, Target, Job, TypeInv, TypeOK, ControlOK, JobLabels
  <2>2. \A src \in {job.buf} \cup TornBlock(job.buf) :
          PutBlock(Target, src, job.idx) \in Image
    BY <2>1, TornType, PutTypes
  <2>3. work' \in Image /\ spare' \in Image
    BY <1>31, <2>2 DEF WriteReports, SetTarget, TypeInv, TypeOK, flash
  <2>4. faults' \in 0 .. MaxFaults
    BY <1>31, FtwAssumption DEF WriteReports, TypeInv, TypeOK, Fault
  <2>5. pc' = job.ret /\ st' = "fail" /\ job' = NoJob
    BY <1>31 DEF WriteReports, JobReturns
  <2>6. TypeOK'
    BY <2>1, <2>3, <2>4, <2>5, <1>31 DEF WriteReports, TypeOK, TypeInv, Labels,
       JobLabels, rets, bounds, caller
  <2>7. ControlOK'
    BY <2>1, <2>3, <2>4, <2>5, <2>6, <1>31 DEF WriteReports, TypeInv, TypeOK,
       ControlOK, at, InFlush, InReclaim, InRecord, JobLabels, FlushLabels,
       ReclaimLabels, RecordLabels, LastUnbounded, ReclaimCallers,
       FlushCallers, AbortCallers, RecordCallers, rets, bounds, caller
  <2> QED BY <2>6, <2>7 DEF TypeInv
<1>32. CASE BootAsserts
  <2>1. TypeOK'
    BY <1>32 DEF BootAsserts, TypeOK, TypeInv, Labels, flash, rets, bounds, caller
  <2>2. ControlOK'
    BY <2>1, <1>32 DEF BootAsserts, TypeInv, TypeOK, ControlOK, at, InFlush,
       InReclaim, InRecord, JobLabels, FlushLabels, ReclaimLabels,
       RecordLabels, LastUnbounded, ReclaimCallers, FlushCallers,
       AbortCallers, RecordCallers, flash, rets, bounds, caller
  <2> QED BY <2>1, <2>2 DEF TypeInv
<1> QED BY <1>1, <1>2, <1>3, <1>4, <1>5, <1>6, <1>7, <1>8, <1>9, <1>10, <1>11, <1>12, <1>13, <1>14, <1>15, <1>16, <1>17, <1>18, <1>19, <1>20, <1>21, <1>22, <1>23, <1>24, <1>25, <1>26, <1>27, <1>28, <1>29, <1>30, <1>31, <1>32 DEF Next, Driver

(* Every value the driver computes has its type, every procedure returns to  *)
(* one of its callers, and FtwLastRecord never points past the last slot     *)
(* where the driver reads the record it points to.                           *)
THEOREM TypeCorrect == Spec => []TypeInv
<1>1. TypeInv /\ UNCHANGED vars => TypeInv'
  BY DEF vars, TypeInv, TypeOK, ControlOK, at, InFlush, InReclaim, InRecord
<1>2. TypeInv /\ [Next]_vars => TypeInv'
  BY <1>1, TypeInvStep
<1> QED BY InitTypeInv, <1>2, PTL DEF Spec
-----------------------------------------------------------------------------
(* The journal.                                                              *)

(* FtwGetLastRecord finds the record behind the completed ones.              *)
LEMMA LastUnique ==
  ASSUME NEW ws, NEW l \in 1 .. Slots + 1,
         \A r \in Records : r < l => "done" \in ws.recs[r],
         l \in Records => "done" \notin ws.recs[l]
  PROVE  GetLastRecord(ws) = l
<1> DEFINE g == GetLastRecord(ws)
<1>1. /\ g \in 1 .. Slots + 1
      /\ g \in Records => "done" \notin ws.recs[g]
      /\ \A r \in Records : r < g => "done" \in ws.recs[r]
  BY GetLastRecordType
<1> HIDE DEF g
<1>2. ~(g < l)
  BY <1>1, FtwAssumption DEF Records
<1>3. ~(l < g)
  BY <1>1, FtwAssumption DEF Records
<1>4. g = l
  BY <1>1, <1>2, <1>3, FtwAssumption
<1> QED BY <1>4 DEF g

(* What is in progress depends on the records alone.                         *)
LEMMA SameRecs ==
  ASSUME NEW a, NEW b, a.recs = b.recs
  PROVE  /\ GetLastRecord(a) = GetLastRecord(b)
         /\ Current(a) = Current(b)
         /\ InProgress(a) = InProgress(b)
         /\ Tidy(a) <=> Tidy(b)
BY DEF GetLastRecord, Current, InProgress, Tidy, Dirty, RecordAt

(* With no room left nothing is in progress.                                 *)
LEMMA FullLast ==
  ASSUME NEW ws, GetLastRecord(ws) > Slots
  PROVE  Current(ws) = {} /\ ~InProgress(ws) /\ Tidy(ws)
<1>1. GetLastRecord(ws) \notin Records
  BY FtwAssumption, GetLastRecordType DEF Records
<1>2. \A i \in Records : ~(i > GetLastRecord(ws))
  BY FtwAssumption, GetLastRecordType DEF Records
<1> QED BY <1>1, <1>2 DEF Current, RecordAt, InProgress, NeedsRestart, Tidy, Dirty

(* In an empty journal the first record is the last one, and free.           *)
LEMMA EmptyLast ==
  ASSUME NEW ws, ws.recs = EmptyRecords
  PROVE  /\ GetLastRecord(ws) = 1 /\ Current(ws) = {}
         /\ ~InProgress(ws) /\ Tidy(ws)
<1>1. 1 \in Records /\ 1 \in 1 .. Slots + 1
  BY FtwAssumption DEF Records
<1>2. \A r \in Records : ws.recs[r] = {}
  BY DEF EmptyRecords
<1>3. GetLastRecord(ws) = 1
  BY <1>1, <1>2, LastUnique, FtwAssumption DEF Records
<1> QED BY <1>1, <1>2, <1>3 DEF Current, RecordAt, InProgress, NeedsRestart, Tidy, Dirty

(* FtwUpdateFvState changes one record and no header.                        *)
LEMMA SetBitRecs ==
  ASSUME NEW ws \in WorkSpace, NEW l \in Records, NEW bit
  PROVE  /\ SetBit(ws, l, bit).recs[l] = ws.recs[l] \cup {bit}
         /\ \A r \in Records \ {l} : SetBit(ws, l, bit).recs[r] = ws.recs[r]
         /\ SetBit(ws, l, bit).sig = ws.sig
         /\ SetBit(ws, l, bit).valid = ws.valid
BY DEF SetBit, WorkSpace

(* A bit is set in the last record, which stays the last one.                *)
LEMMA SetOpen ==
  ASSUME NEW ws \in WorkSpace, Tidy(ws), GetLastRecord(ws) \in Records,
         NEW bit, bit # "done"
  PROVE  LET new == SetBit(ws, GetLastRecord(ws), bit)
         IN /\ GetLastRecord(new) = GetLastRecord(ws)
            /\ Tidy(new)
            /\ Current(new) = Current(ws) \cup {bit}
<1> DEFINE l == GetLastRecord(ws)
           new == SetBit(ws, l, bit)
<1>1. /\ l \in 1 .. Slots + 1 /\ "done" \notin ws.recs[l]
      /\ \A r \in Records : r < l => "done" \in ws.recs[r]
      /\ \A r \in Records : r > l => ws.recs[r] = {}
  BY GetLastRecordType DEF Tidy, Dirty
<1>2. /\ new.recs[l] = ws.recs[l] \cup {bit}
      /\ \A r \in Records \ {l} : new.recs[r] = ws.recs[r]
  BY SetBitRecs
<1>3. l \in Records
  OBVIOUS
<1> HIDE DEF l, new
<1>a. Records \subseteq Nat
  BY DEF Records
<1>4. GetLastRecord(new) = l
  BY <1>1, <1>2, <1>3, <1>a, LastUnique
<1>5. Current(new) = Current(ws) \cup {bit}
  BY <1>2, <1>3, <1>4 DEF Current, RecordAt, l
<1>6. Tidy(new)
  BY <1>1, <1>2, <1>3, <1>4, <1>a DEF Tidy, Dirty
<1> QED BY <1>4, <1>5, <1>6 DEF l, new

(* The last record is completed, and the next one is blank.                  *)
LEMMA SetDone ==
  ASSUME NEW ws \in WorkSpace, Tidy(ws), GetLastRecord(ws) \in Records
  PROVE  LET new == SetBit(ws, GetLastRecord(ws), "done")
         IN /\ GetLastRecord(new) = GetLastRecord(ws) + 1
            /\ Tidy(new)
            /\ ~InProgress(new)
<1> DEFINE l == GetLastRecord(ws)
           new == SetBit(ws, l, "done")
<1>1. /\ l \in 1 .. Slots + 1 /\ "done" \notin ws.recs[l]
      /\ \A r \in Records : r < l => "done" \in ws.recs[r]
      /\ \A r \in Records : r > l => ws.recs[r] = {}
  BY GetLastRecordType DEF Tidy, Dirty
<1>2. /\ new.recs[l] = ws.recs[l] \cup {"done"}
      /\ \A r \in Records \ {l} : new.recs[r] = ws.recs[r]
  BY SetBitRecs
<1>3. l \in Records
  OBVIOUS
<1> HIDE DEF l, new
<1>4. l + 1 \in 1 .. Slots + 1 /\ Records = 1 .. Slots /\ Slots \in Nat
  BY <1>3, FtwAssumption DEF Records
<1>5. \A r \in Records : r < l + 1 => "done" \in new.recs[r]
  BY <1>1, <1>2, <1>3, <1>4
<1>6. \A r \in Records : r > l => new.recs[r] = {}
  BY <1>1, <1>2, <1>3, <1>4
<1>7. l + 1 \in Records => "done" \notin new.recs[l + 1]
  BY <1>3, <1>4, <1>6
<1>8. GetLastRecord(new) = l + 1
  BY <1>4, <1>5, <1>7, LastUnique
<1>9. Tidy(new)
  BY <1>3, <1>4, <1>6, <1>8 DEF Tidy, Dirty
<1>10. RecordAt(new, l + 1) = {}
  BY <1>3, <1>4, <1>6 DEF RecordAt
<1>11. ~InProgress(new)
  BY <1>8, <1>10 DEF InProgress, NeedsRestart
<1> QED BY <1>8, <1>9, <1>11 DEF l, new

(* A work space of which only the first records have been written.           *)
LEMMA TruncatedLast ==
  ASSUME NEW ws \in WorkSpace, Tidy(ws), NEW short, NEW k \in 0 .. Slots,
         short.recs = Truncated(ws.recs, k)
  PROVE  Tidy(short) /\ GetLastRecord(short) =< GetLastRecord(ws)
<1> DEFINE l == GetLastRecord(ws)
           s == GetLastRecord(short)
<1>1. /\ l \in 1 .. Slots + 1
      /\ l \in Records => "done" \notin ws.recs[l]
      /\ \A r \in Records : r > l => ws.recs[r] = {}
  BY GetLastRecordType DEF Tidy, Dirty
<1>2. /\ s \in 1 .. Slots + 1
      /\ s \in Records => "done" \notin short.recs[s]
      /\ \A r \in Records : r < s => "done" \in short.recs[r]
  BY GetLastRecordType
<1>3. \A r \in Records : short.recs[r] = IF r =< k THEN ws.recs[r] ELSE {}
  BY DEF Truncated
<1> HIDE DEF l, s
<1>4. Records = 1 .. Slots /\ Slots \in Nat
  BY FtwAssumption DEF Records
<1>5. s =< l
  BY <1>1, <1>2, <1>3, <1>4
<1>6. \A r \in Records : r > s => short.recs[r] = {}
  <2> SUFFICES ASSUME NEW r \in Records, r > s, short.recs[r] # {} PROVE FALSE
    OBVIOUS
  <2>1. r =< k /\ short.recs[r] = ws.recs[r]
    BY <1>3
  <2>2. r =< l
    BY <1>1, <1>4, <2>1
  <2>3. s \in Records /\ s =< k /\ s < l
    BY <1>1, <1>2, <1>4, <2>1, <2>2
  <2>4. "done" \notin ws.recs[s]
    BY <1>2, <1>3, <2>3
  <2>5. \A q \in Records : q < l => "done" \in ws.recs[q]
    BY GetLastRecordType DEF l
  <2> QED BY <2>3, <2>4, <2>5
<1>7. Tidy(short)
  BY <1>6 DEF Tidy, Dirty, s
<1> QED BY <1>5, <1>7 DEF l, s

-----------------------------------------------------------------------------
(* What a boot recovers, as the flash changes.                               *)

(* The bits that a boot does not look at.                                    *)
LEMMA RecoverableSame ==
  ASSUME NEW w, NEW s, NEW w2, NEW s2, Recoverable(w, s),
         w2.data = w.data, w2.ws.sig = w.ws.sig, w2.ws.valid = w.ws.valid,
         w2.ws.recs = w.ws.recs,
         s2.data = s.data, s2.ws.sig = s.ws.sig, s2.ws.valid = s.ws.valid,
         s2.ws.recs = s.ws.recs
  PROVE  /\ Recoverable(w2, s2)
         /\ RecoveredFrom(w2, s2) = RecoveredFrom(w, s)
<1>1. /\ Valid(w2) <=> Valid(w)
      /\ Valid(s2) <=> Valid(s)
      /\ Whole(w2) <=> Whole(w)
      /\ Whole(s2) <=> Whole(s)
  BY DEF Valid, IsValidWorkSpace, Whole
<1>2. /\ GetLastRecord(w2.ws) = GetLastRecord(w.ws)
      /\ InProgress(w2.ws) = InProgress(w.ws)
      /\ Tidy(w2.ws) <=> Tidy(w.ws)
      /\ GetLastRecord(s2.ws) = GetLastRecord(s.ws)
      /\ Tidy(s2.ws) <=> Tidy(s.ws)
  BY SameRecs
<1>3. SetBit(s2.ws, GetLastRecord(w2.ws), "spare").recs
        = SetBit(s.ws, GetLastRecord(w.ws), "spare").recs
  BY <1>2 DEF SetBit
<1> QED BY <1>1, <1>2, <1>3 DEF Recoverable, RecoveredFrom, Settled, Committed

(* With nothing in progress the spare block may hold anything.               *)
LEMMA RecoverableSettled ==
  ASSUME NEW w, NEW s, NEW s2, Recoverable(w, s), Settled(w)
  PROVE  /\ Recoverable(w, s2)
         /\ RecoveredFrom(w, s) = w.data
         /\ RecoveredFrom(w, s2) = w.data
BY DEF Recoverable, RecoveredFrom, Settled, Committed

(* Nor is it needed when neither area has a valid header: a new machine.     *)
LEMMA RecoverableBlank ==
  ASSUME NEW w, NEW s, NEW s2, Recoverable(w, s), ~Valid(w), ~Valid(s), ~Valid(s2)
  PROVE  /\ Recoverable(w, s2)
         /\ RecoveredFrom(w, s) = w.data
         /\ RecoveredFrom(w, s2) = w.data
BY DEF Recoverable, RecoveredFrom, Settled, Committed

(* Setting a bit of a record touches neither data nor header.                *)
LEMMA SetBitImage ==
  ASSUME NEW w \in Image, NEW l \in Records, NEW bit
  PROVE  LET w2 == [w EXCEPT !.ws = SetBit(@, l, bit)]
         IN /\ w2.data = w.data /\ w2.ws = SetBit(w.ws, l, bit)
            /\ w2.ws.sig = w.ws.sig /\ w2.ws.valid = w.ws.valid
            /\ Valid(w2) <=> Valid(w)
            /\ Whole(w2) <=> Whole(w)
<1> DEFINE w2 == [w EXCEPT !.ws = SetBit(@, l, bit)]
<1>1. w2.data = w.data /\ w2.ws = SetBit(w.ws, l, bit)
  BY DEF Image
<1>2. w.ws \in WorkSpace
  BY DEF Image
<1>3. w2.ws.sig = w.ws.sig /\ w2.ws.valid = w.ws.valid
  BY <1>1, <1>2, SetBitRecs
<1> HIDE DEF w2
<1>4. (Valid(w2) <=> Valid(w)) /\ (Whole(w2) <=> Whole(w))
  BY <1>1, <1>3 DEF Valid, IsValidWorkSpace, Whole
<1> QED BY <1>1, <1>3, <1>4 DEF w2

(* WRITE_ALLOCATED, and the body of the record.                              *)
LEMMA RecoverableOpen ==
  ASSUME NEW w \in Image, NEW s, NEW s2, Recoverable(w, s), Settled(w),
         GetLastRecord(w.ws) \in Records, NEW bit \in {"alloc", "body"}
  PROVE  LET w2 == [w EXCEPT !.ws = SetBit(@, GetLastRecord(w.ws), bit)]
         IN /\ Settled(w2) /\ Recoverable(w2, s2)
            /\ GetLastRecord(w2.ws) = GetLastRecord(w.ws)
            /\ w2.data = w.data
<1> DEFINE l == GetLastRecord(w.ws)
           w2 == [w EXCEPT !.ws = SetBit(@, l, bit)]
<1>1. /\ w2.data = w.data /\ w2.ws = SetBit(w.ws, l, bit)
      /\ Valid(w2) <=> Valid(w)
      /\ Whole(w2) <=> Whole(w)
  BY SetBitImage
<1>2. w.ws \in WorkSpace /\ Tidy(w.ws)
  BY DEF Image, Recoverable
<1>3. /\ GetLastRecord(w2.ws) = l /\ Tidy(w2.ws)
      /\ Current(w2.ws) = Current(w.ws) \cup {bit}
  BY <1>1, <1>2, SetOpen
<1> HIDE DEF w2, l
<1>4. ~InProgress(w2.ws)
  <2>1. ~InProgress(w.ws)
    BY DEF Settled
  <2> QED BY <2>1, <1>3 DEF InProgress, NeedsRestart, Current
<1>5. Whole(w) /\ Valid(w)
  BY DEF Recoverable, Settled
<1>6. Settled(w2) /\ Whole(w2)
  BY <1>1, <1>4, <1>5 DEF Settled
<1>7. Recoverable(w2, s2)
  BY <1>3, <1>6 DEF Recoverable, Settled, Committed
<1> QED BY <1>1, <1>3, <1>6, <1>7 DEF w2, l

(* A write or a recovery is completed.                                       *)
LEMMA RecoverableDone ==
  ASSUME NEW w \in Image, NEW s, Valid(w), Whole(w), Tidy(w.ws),
         GetLastRecord(w.ws) \in Records
  PROVE  LET w2 == [w EXCEPT !.ws = SetBit(@, GetLastRecord(w.ws), "done")]
         IN /\ Settled(w2) /\ Recoverable(w2, s)
            /\ GetLastRecord(w2.ws) = GetLastRecord(w.ws) + 1
            /\ w2.data = w.data
<1> DEFINE l == GetLastRecord(w.ws)
           w2 == [w EXCEPT !.ws = SetBit(@, l, "done")]
<1>1. /\ w2.data = w.data /\ w2.ws = SetBit(w.ws, l, "done")
      /\ Valid(w2) <=> Valid(w)
      /\ Whole(w2) <=> Whole(w)
  BY SetBitImage
<1>2. w.ws \in WorkSpace
  BY DEF Image
<1>3. /\ GetLastRecord(w2.ws) = l + 1 /\ Tidy(w2.ws)
      /\ ~InProgress(w2.ws)
  BY <1>1, <1>2, SetDone
<1> HIDE DEF w2, l
<1>4. Settled(w2) /\ Whole(w2)
  BY <1>1, <1>3 DEF Settled
<1>5. Recoverable(w2, s)
  BY <1>3, <1>4 DEF Recoverable, Settled, Committed
<1> QED BY <1>1, <1>3, <1>4, <1>5 DEF w2, l

(* SPARE_COMPLETED: from now on the spare block is recovered.                *)
LEMMA RecoverableCommit ==
  ASSUME NEW w \in Image, NEW s, NEW r \in Requests, Recoverable(w, s), Settled(w),
         s = [w EXCEPT !.data = Overlay(@, r)],
         GetLastRecord(w.ws) \in Records
  PROVE  LET w2 == [w EXCEPT !.ws = SetBit(@, GetLastRecord(w.ws), "spare")]
         IN /\ Committed(w2) /\ Recoverable(w2, s)
            /\ GetLastRecord(w2.ws) = GetLastRecord(w.ws)
            /\ RecoveredFrom(w, s) = w.data
            /\ RecoveredFrom(w2, s) = Overlay(w.data, r)
<1> DEFINE l == GetLastRecord(w.ws)
           w2 == [w EXCEPT !.ws = SetBit(@, l, "spare")]
<1>1. /\ w2.data = w.data /\ w2.ws = SetBit(w.ws, l, "spare")
      /\ Valid(w2) <=> Valid(w)
  BY SetBitImage
<1>2. w.ws \in WorkSpace /\ Tidy(w.ws) /\ Valid(w) /\ w.ws.sig /\ Whole(w)
  BY DEF Image, Recoverable, Settled, Valid, IsValidWorkSpace
<1>3. /\ GetLastRecord(w2.ws) = l /\ Tidy(w2.ws)
      /\ Current(w2.ws) = Current(w.ws) \cup {"spare"}
  BY <1>1, <1>2, SetOpen
<1>4. "done" \notin Current(w2.ws)
  BY <1>3, GetLastRecordType DEF Current, RecordAt
<1>5. s.ws = w.ws /\ s.data = Overlay(w.data, r)
  BY DEF Image
<1>6. Whole(s)
  <2>1. \A b \in Data : r[b] = Keep \/ r[b] \in Values
    BY DEF Requests
  <2> QED BY <2>1, <1>2, <1>5 DEF Whole, Overlay
<1>7. RecoveredFrom(w, s) = w.data
  BY RecoverableSettled
<1> HIDE DEF w2, l
<1>8. Committed(w2)
  BY <1>1, <1>2, <1>3, <1>4 DEF Committed, InProgress, NeedsRestart, Current
<1>9. Recoverable(w2, s)
  BY <1>1, <1>2, <1>3, <1>5, <1>6, <1>8 DEF Recoverable, Settled, Committed
<1>10. RecoveredFrom(w2, s) = s.data
  BY <1>8 DEF RecoveredFrom
<1> QED BY <1>3, <1>5, <1>7, <1>8, <1>9, <1>10 DEF w2, l

(* While the working block is being replaced the spare block is recovered.   *)
LEMMA RecoverableFromSpare ==
  ASSUME NEW w \in Image, NEW s \in Image, ~Valid(w), Valid(s),
         Whole(s), Tidy(s.ws), GetLastRecord(s.ws) =< Slots,
         \E k \in 0 .. Slots : w.ws.recs = Truncated(s.ws.recs, k)
  PROVE  Recoverable(w, s) /\ RecoveredFrom(w, s) = s.data
<1>1. s.ws \in WorkSpace
  BY DEF Image
<1>2. Tidy(w.ws)
  BY <1>1, TruncatedLast
<1>3. ~Settled(w) /\ ~Committed(w)
  BY DEF Settled, Committed
<1> QED BY <1>2, <1>3 DEF Recoverable, RecoveredFrom

(* The work space was not written at all, or completely.                     *)
LEMMA TruncatedCases ==
  ASSUME NEW recs \in [Records -> SUBSET Bits]
  PROVE  /\ Truncated(recs, 0) = EmptyRecords
         /\ Truncated(recs, Slots) = recs
<1>1. \A r \in Records : ~(r =< 0) /\ r =< Slots
  BY FtwAssumption DEF Records
<1> QED BY <1>1 DEF Truncated, EmptyRecords

(* Bits that are set stay set.                                               *)
LEMMA SetBitAgain ==
  ASSUME NEW ws \in WorkSpace, InProgress(ws)
  PROVE  /\ GetLastRecord(ws) \in Records
         /\ SetBit(ws, GetLastRecord(ws), "spare").recs = ws.recs
<1> DEFINE l == GetLastRecord(ws)
<1>1. l \in Records /\ "spare" \in ws.recs[l]
  BY DEF InProgress, NeedsRestart, RecordAt
<1>2. ws.recs[l] \cup {"spare"} = ws.recs[l]
  BY <1>1
<1>3. ws.recs \in [Records -> SUBSET Bits]
  BY DEF WorkSpace
<1> HIDE DEF l
<1>4. SetBit(ws, l, "spare").recs = [ws.recs EXCEPT ![l] = @ \cup {"spare"}]
  BY DEF SetBit, WorkSpace
<1>5. SetBit(ws, l, "spare").recs = ws.recs
  BY <1>1, <1>2, <1>3, <1>4
<1> QED BY <1>1, <1>5 DEF l

(* The working block is a copy of the spare block, and valid.                *)
LEMMA RecoverableFlushed ==
  ASSUME NEW w \in Image, NEW s \in Image, Flushed(w, s), w.ws.valid,
         Whole(s), Tidy(s.ws), s.ws.sig
  PROVE  /\ Recoverable(w, s) /\ RecoveredFrom(w, s) = s.data
         /\ Valid(w) /\ Whole(w)
<1>1. w.ws \in WorkSpace /\ s.ws \in WorkSpace
  BY DEF Image
<1>2. Valid(w) /\ Whole(w) /\ Whole(s)
  BY DEF Flushed, Valid, IsValidWorkSpace, Whole
<1>3. Tidy(w.ws) /\ GetLastRecord(w.ws) = GetLastRecord(s.ws)
      /\ InProgress(w.ws) = InProgress(s.ws)
  BY SameRecs DEF Flushed
<1>4. ASSUME Committed(w)
      PROVE  w.ws.recs = SetBit(s.ws, GetLastRecord(w.ws), "spare").recs
  <2>1. InProgress(s.ws)
    BY <1>3, <1>4 DEF Committed
  <2> QED BY <1>1, <1>3, <2>1, SetBitAgain DEF Flushed
<1> QED BY <1>2, <1>3, <1>4 DEF Recoverable, RecoveredFrom, Flushed, Settled

(* FtwWriteRecord copies SPARE_COMPLETED to the record in the spare block.   *)
LEMMA RecoverableMarked ==
  ASSUME NEW w \in Image, NEW s \in Image, Recoverable(w, s), Committed(w)
  PROVE  LET l == GetLastRecord(w.ws)
             s2 == [s EXCEPT !.ws = SetBit(@, l, "spare")]
         IN /\ Recoverable(w, s2)
            /\ RecoveredFrom(w, s2) = RecoveredFrom(w, s)
            /\ s2.ws.recs = w.ws.recs /\ s2.ws.sig
            /\ Whole(s2) /\ Tidy(s2.ws) /\ InProgress(s2.ws)
            /\ GetLastRecord(s2.ws) = l /\ l =< Slots
<1> DEFINE l == GetLastRecord(w.ws)
           s2 == [s EXCEPT !.ws = SetBit(@, l, "spare")]
<1>1. w.ws \in WorkSpace /\ InProgress(w.ws)
  BY DEF Image, Committed
<1>2. l \in Records /\ l =< Slots
  BY <1>1, SetBitAgain, FtwAssumption DEF Records
<1>3. /\ s2.data = s.data /\ s2.ws = SetBit(s.ws, l, "spare")
      /\ s2.ws.sig = s.ws.sig /\ (Whole(s2) <=> Whole(s))
  BY <1>2, SetBitImage
<1>4. /\ Whole(s) /\ s.ws.sig /\ Tidy(w.ws) /\ Valid(w)
      /\ w.ws.recs = SetBit(s.ws, l, "spare").recs
  BY DEF Recoverable, Committed
<1> HIDE DEF s2, l
<1>5. s2.ws.recs = w.ws.recs
  BY <1>3, <1>4
<1>6. GetLastRecord(s2.ws) = l /\ Tidy(s2.ws) /\ InProgress(s2.ws)
  BY <1>1, <1>4, <1>5, SameRecs DEF l
<1>7. w.ws.recs = SetBit(s2.ws, l, "spare").recs
  <2>1. s2.ws \in WorkSpace
    <3>1. s.ws \in WorkSpace /\ "spare" \in Bits
      BY DEF Image, Bits
    <3> QED BY <3>1, <1>2, <1>3, WsTypes
  <2> QED BY <2>1, <1>5, <1>6, SetBitAgain
<1>8. Recoverable(w, s2)
  BY <1>3, <1>4, <1>7 DEF Recoverable, Settled, Committed, l
<1>9. RecoveredFrom(w, s2) = RecoveredFrom(w, s)
  BY <1>3 DEF RecoveredFrom
<1> QED BY <1>2, <1>3, <1>4, <1>5, <1>6, <1>8, <1>9 DEF s2, l

-----------------------------------------------------------------------------
(* Every step of a machine whose flash works keeps the invariant, and, but   *)
(* for the step that sets SPARE_COMPLETED, what a boot would recover.        *)

Before == TypeInv /\ TypeInv' /\ Safe /\ Reliable /\ Reliable'
After  == Safe' /\ Recovered' = Recovered

(* What a boot recovers, as a function of the two images.                    *)
LEMMA RecoveredIs ==
  /\ Recovered = RecoveredFrom(work, spare)
  /\ Recovered' = RecoveredFrom(work', spare')
BY DEF Recovered, RecoveredFrom, Committed, Valid

(* No access fails in this step, and an erase is one access.                 *)
LEMMA NothingFails ==
  ASSUME Reliable, Reliable'
  PROVE  /\ \A cleared : ~UpdateFails(cleared)
         /\ \A kind : ~Fault(kind)
         /\ ~TornErase
BY DEF Reliable, UpdateFails, Fault, MaxTry

(* No error is reported, and no assertion of the driver fails.               *)
LEMMA NoneReports ==
  ASSUME Before
  PROVE  /\ ~EraseReports /\ ~WriteReports /\ ~BootAsserts
         /\ ~AssertFails(st)
<1>1. st = "ok" /\ \A kind : ~Fault(kind)
  BY NothingFails DEF Before, Safe
<1>2. ~AssertFails(st)
  BY <1>1 DEF AssertFails
<1> QED BY <1>1, <1>2 DEF EraseReports, WriteReports, BootAsserts

(* An assertion depends on memory and on the images it is about.             *)
LEMMA HoldsSame ==
  ASSUME Holds, at' = at, WorkThen' = WorkThen, SpareThen' = SpareThen,
         UNCHANGED <<mws, last, req, retA, retF>>
  PROVE  Holds'
BY DEF Holds, Assertion, Sync, Idle, Emptied, Unused, FlushSource, FlushReplaces,
       Flushed, Settled, Committed

(* Whoever waits for a reply, waits on.                                      *)
LEMMA CallerSame ==
  ASSUME CallerOK, at' = at, UNCHANGED <<req, rets>>
  PROVE  CallerOK'
BY DEF CallerOK, InCall, Effective, InRecord, InReclaim, InFlush, rets

(* Erasing all blocks erases the image.                                      *)
LEMMA PutAllErased ==
  ASSUME NEW img \in Image
  PROVE  PutBlocks(img, ErasedImage, AllBlocks) = ErasedImage
<1>1. 1 \in AllBlocks /\ WorkSpaceBlock \in AllBlocks /\ Data \subseteq AllBlocks
  BY FtwAssumption DEF AllBlocks, WorkSpaceBlock, Data
<1> QED BY <1>1 DEF PutBlocks, ErasedImage

(* FtwEraseBlock on flash that works: one round, and the read back agrees.   *)
LEMMA EraseErases ==
  ASSUME Before, EraseStep
  PROVE  /\ pc = "erase" /\ job \in Job
         /\ IF job.dst = "work" THEN work' = ErasedImage /\ spare' = spare
                                ELSE spare' = ErasedImage /\ work' = work
         /\ IF job.eraseOnly
            THEN pc' = job.ret /\ st' = "ok" /\ job' = NoJob
            ELSE pc' = "write" /\ st' = st /\ job' = [job EXCEPT !.idx = 1, !.etry = 0]
         /\ UNCHANGED <<mws, last, recovering, caller, saved, wasHealthy, rets>>
<1>1. pc = "erase" /\ job \in Job /\ Target \in Image
  BY DEF Before, TypeInv, TypeOK, ControlOK, EraseStep, JobLabels, Target
<1>2. ErasedNow = AllBlocks /\ EraseEnds
  BY NothingFails DEF Before, ErasedNow, EraseEnds
<1>3. PutBlocks(Target, ErasedImage, ErasedNow) = ErasedImage
  BY <1>1, <1>2, PutAllErased
<1>4. SetTarget(ErasedImage) /\ EraseVerify(ErasedImage)
  BY <1>2, <1>3, NothingFails DEF EraseStep, Before
<1>5. IF job.dst = "work" THEN work' = ErasedImage /\ spare' = spare
                          ELSE spare' = ErasedImage /\ work' = work
  BY <1>4 DEF SetTarget
<1>6. IF job.eraseOnly
      THEN pc' = job.ret /\ st' = "ok" /\ job' = NoJob
      ELSE pc' = "write" /\ st' = st /\ job' = [job EXCEPT !.idx = 1, !.etry = 0]
  BY <1>4 DEF EraseVerify, JobReturns
<1>7. UNCHANGED <<mws, last, recovering, caller, saved, wasHealthy, rets>>
  BY DEF EraseStep
<1> QED BY <1>1, <1>5, <1>6, <1>7

(* FtwEraseBlock: what is erased is not needed.                              *)
LEMMA EraseSafe ==
  ASSUME Before, EraseStep
  PROVE  After
<1>1. /\ pc = "erase" /\ job \in Job
      /\ IF job.dst = "work" THEN work' = ErasedImage /\ spare' = spare
                             ELSE spare' = ErasedImage /\ work' = work
      /\ IF job.eraseOnly
         THEN pc' = job.ret /\ st' = "ok" /\ job' = NoJob
         ELSE pc' = "write" /\ st' = st /\ job' = [job EXCEPT !.idx = 1, !.etry = 0]
      /\ UNCHANGED <<mws, last, recovering, caller, saved, wasHealthy, rets>>
  BY EraseErases
<1>2. /\ Recoverable(work, spare) /\ Holds /\ CallerOK /\ JobOK /\ st = "ok"
      /\ work \in Image /\ spare \in Image
  BY DEF Before, Safe, TypeInv, TypeOK
<1>3. job.ret \notin JobLabels /\ pc \in JobLabels
  BY <1>1 DEF Before, TypeInv, ControlOK, JobLabels
<1>4. job.dst \in {"work", "spare"} /\ job.idx \in AllBlocks /\ job.eraseOnly \in BOOLEAN
  BY <1>1 DEF Job
<1>5. ~job.eraseOnly => /\ job'.dst = job.dst /\ job'.buf = job.buf
                        /\ job'.ret = job.ret /\ job'.idx = 1
                        /\ job'.eraseOnly = job.eraseOnly
  BY <1>1 DEF Job
<1>6. at' = at
  BY <1>1, <1>3, <1>5 DEF at, JobLabels
<1>7. job.eraseOnly => job.buf = ErasedImage
  BY <1>2, <1>3 DEF JobOK
<1>8. WorkThen' = WorkThen /\ SpareThen' = SpareThen
  <2>1. CASE job.eraseOnly
    BY <1>1, <1>3, <1>4, <1>7, <2>1 DEF WorkThen, SpareThen
  <2>2. CASE ~job.eraseOnly
    BY <1>1, <1>3, <1>4, <1>5, <2>2 DEF WorkThen, SpareThen, JobLabels
  <2> QED BY <1>4, <2>1, <2>2
<1>9. Holds' /\ CallerOK'
  BY <1>1, <1>2, <1>6, <1>8, HoldsSame, CallerSame DEF caller, rets
<1>10. ErasedImage \in Image /\ ~Valid(ErasedImage)
  BY ConstantTypes DEF Valid, IsValidWorkSpace, ErasedImage, ErasedWs
<1>11. CASE job.dst = "work"
  <2>1. at = "flush_healthy" /\ Recovered = spare.data
    BY <1>2, <1>3, <1>11 DEF JobOK
  <2>2. FlushSource(spare) /\ spare.ws.valid
    BY <1>2, <1>11, <2>1 DEF Holds, Assertion, SpareThen
  <2>3. Valid(spare) /\ Whole(spare) /\ Tidy(spare.ws) /\ GetLastRecord(spare.ws) =< Slots
    BY <2>2 DEF FlushSource, Valid, IsValidWorkSpace
  <2>4. ErasedImage.ws.recs = Truncated(spare.ws.recs, 0)
    BY <1>2, TruncatedCases DEF ErasedImage, ErasedWs, Image, WorkSpace
  <2>5. 0 \in 0 .. Slots
    BY FtwAssumption
  <2>6. Recoverable(work', spare') /\ RecoveredFrom(work', spare') = spare.data
    BY <1>1, <1>2, <1>10, <1>11, <2>3, <2>4, <2>5, RecoverableFromSpare
  <2>7. Recovered' = spare.data
    BY <2>6, RecoveredIs
  <2>8. JobOK'
    <3> SUFFICES ASSUME pc' \in JobLabels PROVE JobOK'
      BY DEF JobOK
    <3>1. ~job.eraseOnly /\ pc' = "write"
      BY <1>1, <1>3
    <3>2. Target' = ErasedImage
      BY <1>1, <1>5, <1>11, <3>1 DEF Target
    <3>3. CopiedTo(1, ErasedImage, job.buf)
      BY DEF CopiedTo, Data
    <3> QED BY <1>1, <1>5, <1>6, <1>11, <2>1, <2>7, <3>1, <3>2, <3>3 DEF JobOK, ErasedImage, CopiedTo
  <2> QED BY <1>1, <1>2, <1>9, <2>1, <2>6, <2>7, <2>8 DEF After, Safe
<1>12. CASE job.dst = "spare"
  <2>1. /\ work' = work /\ spare' = ErasedImage
        /\ Settled(work) \/ (~Valid(work) /\ ~Valid(spare) /\ ~job.buf.ws.valid)
    BY <1>1, <1>2, <1>3, <1>12 DEF JobOK
  <2>2. Recoverable(work', spare') /\ Recovered' = Recovered
    BY <1>2, <1>10, <2>1, RecoverableSettled, RecoverableBlank, RecoveredIs
  <2>3. JobOK'
    <3> SUFFICES ASSUME pc' \in JobLabels PROVE JobOK'
      BY DEF JobOK
    <3>1. ~job.eraseOnly /\ pc' = "write"
      BY <1>1, <1>3
    <3>2. Target' = ErasedImage
      BY <1>1, <1>5, <1>12, <3>1 DEF Target
    <3>3. Settled(work') \/ (~Valid(work') /\ ~Valid(spare') /\ ~job'.buf.ws.valid)
      BY <1>5, <1>10, <2>1, <3>1
    <3>4. CopiedTo(1, ErasedImage, job.buf)
      BY DEF CopiedTo, Data
    <3> QED BY <1>1, <1>5, <1>12, <3>1, <3>2, <3>3, <3>4 DEF JobOK, ErasedImage, CopiedTo
  <2> QED BY <1>1, <1>2, <1>9, <2>2, <2>3 DEF After, Safe
<1> QED BY <1>4, <1>11, <1>12

(* The buffer of FlushSpareBlockToWorkingBlock: the spare block, not yet     *)
(* valid.                                                                    *)
LEMMA FlushBufferIs ==
  ASSUME NEW img \in Image
  PROVE  /\ FlushBuffer(img).data = img.data
         /\ FlushBuffer(img).ws.sig /\ ~FlushBuffer(img).ws.valid
         /\ FlushBuffer(img).ws.recs = img.ws.recs
<1>1. img.ws \in WorkSpace
  BY DEF Image
<1>2. /\ FlushBuffer(img).data = img.data
      /\ FlushBuffer(img).ws = [InitHeader(img.ws) EXCEPT !.valid = FALSE]
  BY DEF FlushBuffer, Image
<1>3. /\ InitHeader(img.ws) \in WorkSpace
      /\ InitHeader(img.ws).sig /\ InitHeader(img.ws).recs = img.ws.recs
  BY <1>1, WsTypes DEF InitHeader, WorkSpace
<1> QED BY <1>2, <1>3 DEF WorkSpace

(* WriteTargetBlock has copied one block more.                               *)
LEMMA PutNext ==
  ASSUME NEW img \in Image, NEW buf \in Image, NEW i \in Data, CopiedTo(i, img, buf)
  PROVE  /\ CopiedTo(i + 1, PutBlock(img, buf, i), buf)
         /\ PutBlock(img, buf, i).ws = img.ws
<1>1. i # WorkSpaceBlock /\ i \in Nat /\ i >= 1
  BY FtwAssumption DEF Data, WorkSpaceBlock
<1> DEFINE new == PutBlock(img, buf, i)
<1>2. /\ new.ws = img.ws
      /\ new.data = [img.data EXCEPT ![i] = buf.data[i]]
      /\ new.healthy = IF i = 1 THEN buf.healthy ELSE img.healthy
  BY <1>1 DEF PutBlock, Image
<1> HIDE DEF new
<1>3. ASSUME NEW b \in Data, b < i + 1
      PROVE  new.data[b] = buf.data[b]
  <2>1. img.data \in [Data -> Content]
    BY DEF Image
  <2>2. b = i \/ b < i
    BY <1>1, <1>3 DEF Data
  <2> QED BY <1>2, <2>1, <2>2 DEF CopiedTo
<1>4. new.healthy = buf.healthy
  BY <1>1, <1>2 DEF CopiedTo
<1> QED BY <1>2, <1>3, <1>4 DEF CopiedTo, new

(* With the last block the copy is complete.                                 *)
LEMMA PutLast ==
  ASSUME NEW img \in Image, NEW buf \in Image, CopiedTo(WorkSpaceBlock, img, buf)
  PROVE  PutBlock(img, buf, WorkSpaceBlock) = buf
<1>1. \A b \in Data : b < WorkSpaceBlock
  BY FtwAssumption DEF Data, WorkSpaceBlock
<1>2. WorkSpaceBlock > 1
  BY FtwAssumption DEF WorkSpaceBlock
<1>3. img.data = buf.data
  <2>1. \A b \in Data : img.data[b] = buf.data[b]
    BY <1>1 DEF CopiedTo
  <2> QED BY <2>1 DEF Image
<1>4. img.healthy = buf.healthy
  BY <1>2 DEF CopiedTo
<1> QED BY <1>3, <1>4 DEF PutBlock, Image

(* WriteTargetBlock on flash that works: block by block, and the comparison  *)
(* succeeds.                                                                 *)
LEMMA WriteWrites ==
  ASSUME Before, WriteStep
  PROVE  LET img == PutBlock(Target, job.buf, job.idx)
         IN /\ pc = "write" /\ job \in Job /\ Target \in Image
            /\ IF job.dst = "work" THEN work' = img /\ spare' = spare
                                   ELSE spare' = img /\ work' = work
            /\ IF job.idx = WorkSpaceBlock
               THEN img = job.buf /\ pc' = job.ret /\ st' = "ok" /\ job' = NoJob
               ELSE pc' = "write" /\ st' = st /\ job' = [job EXCEPT !.idx = @ + 1]
            /\ UNCHANGED <<mws, last, recovering, caller, saved, wasHealthy, rets>>
<1> DEFINE img == PutBlock(Target, job.buf, job.idx)
<1>1. pc = "write" /\ job \in Job /\ Target \in Image /\ job.buf \in Image
  BY DEF Before, TypeInv, TypeOK, ControlOK, WriteStep, JobLabels, Target, Job
<1>2. /\ SetTarget(img)
      /\ IF job.idx = WorkSpaceBlock
         THEN WriteVerify(img)
         ELSE job' = [job EXCEPT !.idx = @ + 1] /\ UNCHANGED <<pc, st>>
  BY NothingFails DEF WriteStep, Before
<1>3. IF job.dst = "work" THEN work' = img /\ spare' = spare
                          ELSE spare' = img /\ work' = work
  BY <1>2 DEF SetTarget
<1>4. CopiedTo(job.idx, Target, job.buf)
  BY <1>1 DEF Before, Safe, JobOK, JobLabels
<1>5. job.idx = WorkSpaceBlock => img = job.buf
  BY <1>1, <1>4, PutLast
<1> HIDE DEF img
<1>6. IF job.idx = WorkSpaceBlock
      THEN img = job.buf /\ pc' = job.ret /\ st' = "ok" /\ job' = NoJob
      ELSE pc' = "write" /\ st' = st /\ job' = [job EXCEPT !.idx = @ + 1]
  BY <1>1, <1>2, <1>5 DEF WriteVerify, JobReturns
<1>7. UNCHANGED <<mws, last, recovering, caller, saved, wasHealthy, rets>>
  BY DEF WriteStep
<1> QED BY <1>1, <1>3, <1>6, <1>7 DEF img

(* WriteTargetBlock: what is overwritten is not needed, and in the end it is *)
(* what the caller counts on.                                                *)
LEMMA WriteSafe ==
  ASSUME Before, WriteStep
  PROVE  After
<1> DEFINE img == PutBlock(Target, job.buf, job.idx)
<1>1. /\ pc = "write" /\ job \in Job /\ Target \in Image
      /\ IF job.dst = "work" THEN work' = img /\ spare' = spare
                             ELSE spare' = img /\ work' = work
      /\ IF job.idx = WorkSpaceBlock
         THEN img = job.buf /\ pc' = job.ret /\ st' = "ok" /\ job' = NoJob
         ELSE pc' = "write" /\ st' = st /\ job' = [job EXCEPT !.idx = @ + 1]
      /\ UNCHANGED <<mws, last, recovering, caller, saved, wasHealthy, rets>>
  BY WriteWrites
<1>2. /\ Recoverable(work, spare) /\ Holds /\ CallerOK /\ JobOK /\ st = "ok"
      /\ work \in Image /\ spare \in Image
  BY DEF Before, Safe, TypeInv, TypeOK
<1>3. job.ret \notin JobLabels /\ pc \in JobLabels
  BY <1>1 DEF Before, TypeInv, ControlOK, JobLabels
<1>4. /\ job.dst \in {"work", "spare"} /\ job.idx \in AllBlocks
      /\ job.buf \in Image /\ job.eraseOnly \in BOOLEAN
  BY <1>1 DEF Job
<1>5. job.idx # WorkSpaceBlock =>
        /\ job'.dst = job.dst /\ job'.buf = job.buf
        /\ job'.ret = job.ret /\ job'.idx = job.idx + 1
        /\ job'.eraseOnly = job.eraseOnly
  BY <1>1 DEF Job
<1>6. /\ Target.ws = ErasedWs /\ CopiedTo(job.idx, Target, job.buf)
      /\ ~job.eraseOnly
  BY <1>1, <1>2, <1>3 DEF JobOK
<1>7. job.idx # WorkSpaceBlock =>
        img.ws = ErasedWs /\ CopiedTo(job.idx + 1, img, job.buf)
  <2>1. job.idx # WorkSpaceBlock => job.idx \in Data
    BY <1>4, FtwAssumption DEF AllBlocks, Data, WorkSpaceBlock
  <2> QED BY <1>1, <1>4, <1>6, <2>1, PutNext
<1> HIDE DEF img
<1>8. at' = at
  BY <1>1, <1>3, <1>5 DEF at, JobLabels
<1>9. WorkThen' = WorkThen /\ SpareThen' = SpareThen
  <2>1. CASE job.idx = WorkSpaceBlock
    BY <1>1, <1>3, <1>4, <2>1 DEF WorkThen, SpareThen
  <2>2. CASE job.idx # WorkSpaceBlock
    BY <1>1, <1>3, <1>4, <1>5, <2>2 DEF WorkThen, SpareThen, JobLabels
  <2> QED BY <2>1, <2>2
<1>10. Holds' /\ CallerOK'
  BY <1>1, <1>2, <1>8, <1>9, HoldsSame, CallerSame DEF caller, rets
<1>11. img.ws = ErasedWs \/ img = job.buf
  BY <1>1, <1>7
<1>12. st' = "ok"
  BY <1>1, <1>2
<1>13. CASE job.dst = "work"
  <2>1. at = "flush_healthy" /\ Recovered = spare.data
    BY <1>2, <1>3, <1>13 DEF JobOK
  <2>2. FlushSource(spare) /\ spare.ws.valid /\ job.buf = FlushBuffer(spare)
    BY <1>2, <1>3, <1>13, <2>1 DEF Holds, Assertion, SpareThen, WorkThen
  <2>3. Valid(spare) /\ Whole(spare) /\ Tidy(spare.ws) /\ GetLastRecord(spare.ws) =< Slots
    BY <2>2 DEF FlushSource, Valid, IsValidWorkSpace
  <2>4. ~Valid(img) /\ \E k \in 0 .. Slots : img.ws.recs = Truncated(spare.ws.recs, k)
    <3>1. spare.ws.recs \in [Records -> SUBSET Bits]
      BY <1>2 DEF Image, WorkSpace
    <3>2. 0 \in 0 .. Slots /\ Slots \in 0 .. Slots
      BY FtwAssumption
    <3>3. CASE img.ws = ErasedWs
      BY <3>1, <3>2, <3>3, TruncatedCases DEF Valid, IsValidWorkSpace, ErasedWs
    <3>4. CASE img = job.buf
      <4>1. ~img.ws.valid /\ img.ws.recs = spare.ws.recs
        BY <1>2, <2>2, <3>4, FlushBufferIs
      <4> QED BY <3>1, <3>2, <4>1, TruncatedCases DEF Valid, IsValidWorkSpace
    <3> QED BY <1>11, <3>3, <3>4
  <2>5. img \in Image
    BY <1>1, <1>13 DEF Before, TypeInv, TypeOK
  <2>6. Recoverable(work', spare') /\ RecoveredFrom(work', spare') = spare.data
    BY <1>1, <1>2, <1>13, <2>3, <2>4, <2>5, RecoverableFromSpare
  <2>7. Recovered' = spare.data
    BY <2>6, RecoveredIs
  <2>8. JobOK'
    <3> SUFFICES ASSUME pc' \in JobLabels PROVE JobOK'
      BY DEF JobOK
    <3>1. job.idx # WorkSpaceBlock /\ pc' = "write"
      BY <1>1, <1>3
    <3>2. Target' = img
      BY <1>1, <1>5, <1>13, <3>1 DEF Target
    <3> QED BY <1>1, <1>5, <1>6, <1>7, <1>8, <1>13, <2>1, <2>7, <3>1, <3>2 DEF JobOK, CopiedTo
  <2> QED BY <1>1, <1>2, <1>10, <1>12, <2>1, <2>6, <2>7, <2>8 DEF After, Safe
<1>14. CASE job.dst = "spare"
  <2>1. /\ work' = work /\ spare' = img
        /\ Settled(work) \/ (~Valid(work) /\ ~Valid(spare) /\ ~job.buf.ws.valid)
    BY <1>1, <1>2, <1>3, <1>14 DEF JobOK
  <2>2. ~job.buf.ws.valid => ~Valid(img)
    BY <1>11 DEF Valid, IsValidWorkSpace, ErasedWs
  <2>3. Recoverable(work', spare') /\ Recovered' = Recovered
    BY <1>2, <2>1, <2>2, RecoverableSettled, RecoverableBlank, RecoveredIs
  <2>4. JobOK'
    <3> SUFFICES ASSUME pc' \in JobLabels PROVE JobOK'
      BY DEF JobOK
    <3>1. job.idx # WorkSpaceBlock /\ pc' = "write"
      BY <1>1, <1>3
    <3>2. Target' = img
      BY <1>1, <1>5, <1>14, <3>1 DEF Target
    <3>3. Settled(work') \/ (~Valid(work') /\ ~Valid(spare') /\ ~job'.buf.ws.valid)
      BY <1>5, <2>1, <2>2, <3>1
    <3> QED BY <1>1, <1>5, <1>6, <1>7, <1>14, <3>1, <3>2, <3>3 DEF JobOK, CopiedTo
  <2> QED BY <1>1, <1>2, <1>10, <1>12, <2>3, <2>4 DEF After, Safe
<1> QED BY <1>4, <1>13, <1>14

(* A step that ends outside of an erase or a write.                          *)
LEMMA OutOfJob ==
  ASSUME pc' \notin JobLabels
  PROVE  at' = pc' /\ WorkThen' = work' /\ SpareThen' = spare' /\ JobOK'
BY DEF at, WorkThen, SpareThen, JobOK

(* A block that was being written when power failed.                         *)
LEMMA TornWorkSpace ==
  ASSUME Before, pc = "write", NEW torn \in TornBlock(job.buf)
  PROVE  LET new == PutBlock(Target, torn, job.idx).ws
         IN \/ new = ErasedWs
            \/ \E k \in 0 .. Slots :
                 new = [job.buf.ws EXCEPT !.recs = Truncated(job.buf.ws.recs, k)]
<1>1. Target \in Image /\ Target.ws = ErasedWs
  BY DEF Before, TypeInv, TypeOK, Safe, JobOK, JobLabels, Target
<1>2. \/ torn.ws = ErasedWs
      \/ \E k \in 0 .. Slots :
           torn.ws = [job.buf.ws EXCEPT !.recs = Truncated(job.buf.ws.recs, k)]
  <2> DEFINE W == {ErasedWs} \cup
                  {[job.buf.ws EXCEPT !.recs = [r \in Records |->
                     IF r =< k THEN job.buf.ws.recs[r] ELSE {}]] : k \in 0 .. Slots}
  <2>1. \E h \in {FALSE, job.buf.healthy}, w \in W :
          torn = [data |-> [b \in Data |-> Torn], healthy |-> h, ws |-> w]
    BY DEF TornBlock
  <2>2. torn.ws \in W
    <3> HIDE DEF W
    <3> QED BY <2>1
  <2> QED BY <2>2 DEF Truncated
<1>3. CASE job.idx = WorkSpaceBlock
  <2>1. PutBlock(Target, torn, job.idx).ws = torn.ws
    BY <1>1, <1>3 DEF PutBlock, Image
  <2> QED BY <1>2, <2>1
<1>4. CASE job.idx # WorkSpaceBlock
  <2>1. PutBlock(Target, torn, job.idx).ws = Target.ws
    BY <1>1, <1>4 DEF PutBlock, Image
  <2> QED BY <1>1, <2>1
<1> QED BY <1>3, <1>4

(* Power fails in the middle of a block: the next boot recovers what it      *)
(* would have recovered before.                                              *)
LEMMA TornSafe ==
  ASSUME Before, PowerLossTears
  PROVE  Recoverable(work', spare') /\ Recovered' = Recovered
<1>1. /\ Recoverable(work, spare) /\ Holds /\ JobOK
      /\ work \in Image /\ spare \in Image /\ work' \in Image /\ spare' \in Image
  BY DEF Before, Safe, TypeInv, TypeOK
<1>2. CASE UNCHANGED flash
  BY <1>1, <1>2, RecoveredIs DEF flash
<1>3. ASSUME pc = "write", NEW torn \in TornBlock(job.buf),
             SetTarget(PutBlock(Target, torn, job.idx))
      PROVE  Recoverable(work', spare') /\ Recovered' = Recovered
  <2> DEFINE img == PutBlock(Target, torn, job.idx)
  <2>1. job \in Job /\ job.ret \notin JobLabels /\ pc \in JobLabels
    BY <1>3 DEF Before, TypeInv, ControlOK, JobLabels
  <2>2. job.dst \in {"work", "spare"} /\ job.buf.ws \in WorkSpace
    BY <2>1 DEF Job, Image
  <2>3. \/ img.ws = ErasedWs
        \/ \E k \in 0 .. Slots :
             img.ws = [job.buf.ws EXCEPT !.recs = Truncated(job.buf.ws.recs, k)]
    BY <1>3, TornWorkSpace
  <2>4. IF job.dst = "work" THEN work' = img /\ spare' = spare
                            ELSE spare' = img /\ work' = work
    BY <1>3 DEF SetTarget
  <2> HIDE DEF img
  <2>5. ~job.buf.ws.valid => ~Valid(img)
    <3>1. \A k : [job.buf.ws EXCEPT !.recs = Truncated(job.buf.ws.recs, k)].valid
                   = job.buf.ws.valid
      BY <2>2 DEF WorkSpace
    <3>2. ~ErasedWs.valid
      BY DEF ErasedWs
    <3>3. img.ws.valid => job.buf.ws.valid
      BY <2>3, <3>1, <3>2
    <3> QED BY <3>3 DEF Valid, IsValidWorkSpace
  <2>6. CASE job.dst = "work"
    <3>1. at = "flush_healthy" /\ Recovered = spare.data
      BY <1>1, <2>1, <2>6 DEF JobOK
    <3>2. FlushSource(spare) /\ spare.ws.valid /\ job.buf = FlushBuffer(spare)
      BY <1>1, <2>1, <2>6, <3>1 DEF Holds, Assertion, SpareThen, WorkThen
    <3>3. Valid(spare) /\ Whole(spare) /\ Tidy(spare.ws) /\ GetLastRecord(spare.ws) =< Slots
      BY <3>2 DEF FlushSource, Valid, IsValidWorkSpace
    <3>4. ~job.buf.ws.valid /\ job.buf.ws.recs = spare.ws.recs
      BY <1>1, <3>2, FlushBufferIs
    <3>5. \E k \in 0 .. Slots : img.ws.recs = Truncated(spare.ws.recs, k)
      <4>1. CASE img.ws = ErasedWs
        <5>1. 0 \in 0 .. Slots /\ spare.ws.recs \in [Records -> SUBSET Bits]
          BY <1>1, FtwAssumption DEF Image, WorkSpace
        <5> QED BY <4>1, <5>1, TruncatedCases DEF ErasedWs
      <4>2. ASSUME NEW k \in 0 .. Slots,
                   img.ws = [job.buf.ws EXCEPT !.recs = Truncated(job.buf.ws.recs, k)]
            PROVE  img.ws.recs = Truncated(spare.ws.recs, k)
        BY <2>2, <3>4, <4>2 DEF WorkSpace
      <4> QED BY <2>3, <4>1, <4>2
    <3>6. Recoverable(work', spare') /\ RecoveredFrom(work', spare') = spare.data
      BY <1>1, <2>4, <2>5, <2>6, <3>3, <3>4, <3>5, RecoverableFromSpare
    <3> QED BY <3>1, <3>6, RecoveredIs
  <2>7. CASE job.dst = "spare"
    <3>1. /\ work' = work /\ spare' = img
          /\ Settled(work) \/ (~Valid(work) /\ ~Valid(spare) /\ ~Valid(img))
      BY <1>1, <2>1, <2>4, <2>5, <2>7 DEF JobOK
    <3> QED BY <1>1, <3>1, RecoverableSettled, RecoverableBlank, RecoveredIs
  <2> QED BY <2>2, <2>6, <2>7
<1> QED BY <1>2, <1>3 DEF PowerLossTears

(* A loss of power, anywhere.                                                *)
LEMMA CrashSafe ==
  ASSUME Before, Crash
  PROVE  After
<1>1. pc' = "boot" /\ st' = "ok" /\ req' = NoRequest /\ retW' = "none" /\ PowerLossTears
  BY DEF Crash
<1>2. Recoverable(work', spare') /\ Recovered' = Recovered
  BY <1>1, TornSafe
<1>3. at' = "boot" /\ JobOK'
  BY <1>1, OutOfJob DEF JobLabels
<1>4. Holds'
  BY <1>3 DEF Holds, Assertion
<1>5. CallerOK'
  BY <1>1, <1>3 DEF CallerOK, InCall, Effective, InRecord, InReclaim, InFlush,
                    FlushLabels, ReclaimLabels, RecordLabels
<1> QED BY <1>1, <1>2, <1>3, <1>4, <1>5 DEF After, Safe

(* A job on the spare block starts, while nothing is in progress.            *)
LEMMA SpareJob ==
  ASSUME NEW buf, NEW eraseOnly, NEW ret, ret \notin JobLabels,
         StartJob("spare", buf, eraseOnly, ret),
         eraseOnly => buf = ErasedImage,
         Settled(work') \/ (~Valid(work') /\ ~Valid(spare') /\ ~buf.ws.valid)
  PROVE  at' = ret /\ WorkThen' = work' /\ SpareThen' = buf /\ JobOK'
<1>1. /\ pc' = "erase" /\ job'.dst = "spare" /\ job'.buf = buf /\ job'.idx = 1
      /\ job'.ret = ret /\ job'.eraseOnly = eraseOnly
  BY DEF StartJob
<1> QED BY <1>1 DEF at, WorkThen, SpareThen, JobOK, JobLabels

(* At a label its assertion holds.                                           *)
LEMMA AtLabel ==
  ASSUME Before, pc \notin JobLabels
  PROVE  /\ at = pc /\ st = "ok" /\ Assertion(pc, work, spare)
         /\ Recoverable(work, spare) /\ CallerOK
         /\ work \in Image /\ spare \in Image /\ saved \in Image
         /\ work.ws \in WorkSpace /\ spare.ws \in WorkSpace
         /\ mws \in WorkSpace /\ last \in 1 .. Slots + 1
<1>1. at = pc /\ WorkThen = work /\ SpareThen = spare
  BY DEF at, WorkThen, SpareThen
<1>2. work.ws \in WorkSpace /\ spare.ws \in WorkSpace
  BY DEF Before, TypeInv, TypeOK, Image
<1> QED BY <1>1, <1>2 DEF Before, Safe, Holds, TypeInv, TypeOK

(* A step that leaves flash alone leaves what a boot recovers.               *)
LEMMA FlashKept ==
  ASSUME Before, UNCHANGED flash
  PROVE  Recoverable(work', spare') /\ Recovered' = Recovered
BY RecoveredIs DEF Before, Safe, flash

(* FtwReclaimWorkSpace: the journal is emptied in memory and written to the  *)
(* spare block.                                                              *)
LEMMA ReclaimStartSafe ==
  ASSUME Before, ReclaimStart
  PROVE  After
<1> DEFINE clean == CleanupWorkSpace(mws, last)
           buf == [work EXCEPT !.ws = [clean EXCEPT !.valid = FALSE, !.invalid = FALSE]]
<1>1. /\ pc = "reclaim" /\ mws' = clean /\ last' = GetLastRecord(clean)
      /\ StartJob("spare", buf, FALSE, "reclaim_flush")
      /\ UNCHANGED <<flash, st, recovering, caller, wasHealthy, rets>>
  BY DEF ReclaimStart, WriteTargetBlock
<1>2. /\ at = pc /\ st = "ok" /\ Recoverable(work, spare) /\ CallerOK
      /\ work \in Image /\ mws \in WorkSpace
      /\ mws.sig /\ RecordAt(mws, last) = {} /\ Idle(work, spare)
  BY <1>1, AtLabel DEF JobLabels, Assertion
<1>3. work' = work /\ spare' = spare
  BY <1>1 DEF flash
<1>4. clean \in WorkSpace /\ clean.sig /\ clean.recs = EmptyRecords
  BY <1>2, ConstantTypes DEF CleanupWorkSpace, WorkSpace
<1> HIDE DEF clean
<1>5. last' = 1
  BY <1>1, <1>4, EmptyLast
<1>6. /\ buf.data = work.data /\ buf.ws.sig /\ ~buf.ws.valid
      /\ buf.ws.recs = EmptyRecords
  BY <1>2, <1>4 DEF Image, WorkSpace
<1> HIDE DEF buf
<1>7. Settled(work) \/ (~Valid(work) /\ ~Valid(spare) /\ ~buf.ws.valid)
  BY <1>2, <1>6 DEF Idle
<1>8. at' = "reclaim_flush" /\ WorkThen' = work' /\ SpareThen' = buf /\ JobOK'
  BY <1>1, <1>3, <1>7, SpareJob DEF JobLabels
<1>9. Unused(work)
  BY <1>2 DEF Idle, Unused, Recoverable
<1>10. Holds'
  BY <1>1, <1>3, <1>4, <1>5, <1>6, <1>8, <1>9
     DEF Holds, Assertion, Emptied, Unused, Settled
<1>11. CallerOK'
  BY <1>1, <1>2, <1>8 DEF CallerOK, InCall, Effective, InRecord, InReclaim, InFlush,
       FlushLabels, ReclaimLabels, RecordLabels, caller, rets
<1> QED BY <1>1, <1>2, <1>8, <1>10, <1>11, FlashKept DEF After, Safe

(* FtwReclaimWorkSpace: the copy in the spare block is complete.             *)
LEMMA ReclaimFlushSafe ==
  ASSUME Before, ReclaimFlush
  PROVE  After
<1>1. /\ pc = "reclaim_flush"
      /\ at = pc /\ st = "ok" /\ Recoverable(work, spare) /\ CallerOK
      /\ Emptied /\ Unused(work) /\ spare.data = work.data
      /\ spare.ws.sig /\ ~spare.ws.valid /\ spare.ws.recs = EmptyRecords
  BY AtLabel DEF ReclaimFlush, JobLabels, Assertion
<1>2. /\ pc' = "flush" /\ retF' = "reclaim_restore"
      /\ UNCHANGED <<flash, st, mws, last, caller, retC, retA, retW>>
  BY <1>1 DEF ReclaimFlush
<1>3. work' = work /\ spare' = spare
  BY <1>2 DEF flash
<1>4. at' = "flush" /\ WorkThen' = work /\ SpareThen' = spare /\ JobOK'
  BY <1>2, <1>3, OutOfJob DEF JobLabels
<1>5. Tidy(spare.ws) /\ GetLastRecord(spare.ws) = 1
  BY <1>1, EmptyLast
<1>6. Whole(spare)
  <2>1. Whole(work)
    BY <1>1 DEF Unused, Recoverable, Valid, IsValidWorkSpace
  <2> QED BY <1>1, <2>1 DEF Whole
<1>7. 1 =< Slots /\ 1 =< 1
  BY FtwAssumption
<1>8. FlushSource(spare)'
  BY <1>1, <1>2, <1>3, <1>5, <1>6, <1>7 DEF FlushSource, Emptied
<1>9. FlushReplaces(work, spare)'
  BY <1>1, <1>2, <1>3 DEF FlushReplaces, Unused, Settled
<1>10. Holds'
  BY <1>3, <1>4, <1>8, <1>9 DEF Holds, Assertion, FlushSource, FlushReplaces, Unused, Settled
<1>11. CallerOK'
  BY <1>1, <1>2, <1>4 DEF CallerOK, InCall, Effective, InRecord, InReclaim, InFlush,
       FlushLabels, ReclaimLabels, RecordLabels, caller
<1> QED BY <1>1, <1>2, <1>4, <1>10, <1>11, FlashKept DEF After, Safe

(* FtwReclaimWorkSpace: the journal in flash is empty, the spare block is    *)
(* put back.                                                                 *)
LEMMA ReclaimRestoreSafe ==
  ASSUME Before, ReclaimRestore
  PROVE  After
<1>1. /\ pc = "reclaim_restore"
      /\ at = pc /\ st = "ok" /\ Recoverable(work, spare) /\ CallerOK
      /\ Emptied /\ mws.valid /\ Valid(work) /\ work.ws.recs = EmptyRecords
  BY AtLabel DEF ReclaimRestore, JobLabels, Assertion
<1>2. /\ StartJob("spare", saved, FALSE, retC)
      /\ UNCHANGED <<flash, st, mws, last, caller, rets>>
  BY <1>1 DEF ReclaimRestore, WriteTargetBlock
<1>3. work' = work /\ spare' = spare
  BY <1>2 DEF flash
<1>4. GetLastRecord(work.ws) = 1 /\ Settled(work)
  BY <1>1, EmptyLast DEF Settled
<1>5. retC \in ReclaimCallers
  BY <1>1 DEF Before, TypeInv, ControlOK, InReclaim, ReclaimLabels
<1>6. at' = retC /\ WorkThen' = work /\ SpareThen' = saved /\ JobOK'
  BY <1>2, <1>3, <1>4, <1>5, SpareJob DEF JobLabels, ReclaimCallers
<1>7. Settled(work') /\ Sync(work)' /\ IsValidWorkSpace(mws') /\ Valid(work')
  BY <1>1, <1>2, <1>3, <1>4 DEF Sync, Emptied, IsValidWorkSpace
<1>8. Holds'
  BY <1>3, <1>5, <1>6, <1>7 DEF Holds, Assertion, ReclaimCallers, Sync
<1>9. CallerOK'
  BY <1>1, <1>2, <1>5, <1>6 DEF CallerOK, InCall, Effective, InRecord, InReclaim, InFlush,
       FlushLabels, ReclaimLabels, RecordLabels, ReclaimCallers, caller, rets
<1> QED BY <1>1, <1>2, <1>6, <1>8, <1>9, FlashKept DEF After, Safe

(* FlushSpareBlockToWorkingBlock: with its header valid the spare block is   *)
(* recovered, if it was not already.                                         *)
LEMMA FlushSetSpareValidSafe ==
  ASSUME Before, FlushSetSpareValid
  PROVE  After
<1>1. /\ pc = "flush"
      /\ at = pc /\ st = "ok" /\ Recoverable(work, spare) /\ CallerOK
      /\ work \in Image /\ spare \in Image /\ spare.ws \in WorkSpace
      /\ FlushSource(spare) /\ FlushReplaces(work, spare)
  BY AtLabel DEF FlushSetSpareValid, JobLabels, Assertion
<1>2. /\ spare' = [spare EXCEPT !.ws.valid = TRUE] /\ pc' = "flush_copy"
      /\ UNCHANGED <<work, st, mws, last, caller, rets>>
  BY NothingFails DEF FlushSetSpareValid, Goto, Before
<1>3. /\ spare'.data = spare.data /\ spare'.ws.sig = spare.ws.sig
      /\ spare'.ws.recs = spare.ws.recs /\ spare'.ws.valid = TRUE /\ work' = work
  BY <1>1, <1>2 DEF Image, WorkSpace
<1>4. retF \in FlushCallers
  BY <1>1 DEF Before, TypeInv, ControlOK, InFlush, FlushLabels
<1>5. /\ at' = "flush_copy" /\ WorkThen' = work' /\ SpareThen' = spare' /\ JobOK'
  BY <1>2, OutOfJob DEF JobLabels
<1>6. /\ GetLastRecord(spare'.ws) = GetLastRecord(spare.ws)
      /\ InProgress(spare'.ws) = InProgress(spare.ws)
      /\ Tidy(spare'.ws) <=> Tidy(spare.ws)
  BY <1>3, SameRecs
<1>7. FlushSource(spare)'
  BY <1>1, <1>2, <1>3, <1>6 DEF FlushSource, Emptied, Whole, rets
<1>8. Valid(spare') /\ Whole(spare') /\ Tidy(spare'.ws) /\ GetLastRecord(spare'.ws) =< Slots
  BY <1>1, <1>3, <1>6 DEF FlushSource, Valid, IsValidWorkSpace, Whole
<1>9. FlushReplaces(work, spare)'
  BY <1>1, <1>2, <1>3, <1>8 DEF FlushReplaces, Unused, Settled, Committed, rets
<1>10. Holds'
  BY <1>3, <1>5, <1>7, <1>9 DEF Holds, Assertion, FlushSource, FlushReplaces, Unused, Settled
<1>11. CallerOK'
  BY <1>1, <1>2, <1>5 DEF CallerOK, InCall, Effective, InRecord, InReclaim, InFlush,
       FlushLabels, ReclaimLabels, RecordLabels, caller, rets
<1>12. Recoverable(work', spare') /\ Recovered' = Recovered
  <2>1. CASE retF = "record_done"
    <3>1. Committed(work)
      BY <1>1, <2>1 DEF FlushReplaces
    <3>2. SetBit(spare'.ws, GetLastRecord(work.ws), "spare").recs
            = SetBit(spare.ws, GetLastRecord(work.ws), "spare").recs
      BY <1>3 DEF SetBit
    <3>3. Recoverable(work, spare')
      BY <1>1, <1>3, <1>8, <3>1, <3>2 DEF Recoverable, Committed, Settled
    <3>4. RecoveredFrom(work, spare') = RecoveredFrom(work, spare)
      BY <1>3, <3>1 DEF RecoveredFrom
    <3> QED BY <1>2, <3>3, <3>4, RecoveredIs
  <2>2. CASE retF = "recovered"
    <3>1. spare'.ws.valid = spare.ws.valid
      BY <1>1, <1>3, <2>2 DEF FlushReplaces, Valid, IsValidWorkSpace, WorkSpace
    <3>2. /\ Recoverable(work', spare')
          /\ RecoveredFrom(work', spare') = RecoveredFrom(work, spare)
      BY <1>1, <1>3, <3>1, RecoverableSame
    <3> QED BY <3>2, RecoveredIs
  <2>3. CASE retF = "reclaim_restore"
    <3>1. spare.data = work.data /\ Unused(work)
      BY <1>1, <2>3 DEF FlushReplaces
    <3>2. CASE Settled(work)
      BY <1>1, <1>2, <3>2, RecoverableSettled, RecoveredIs
    <3>3. CASE ~Valid(work) /\ work.ws.recs = EmptyRecords
      <4>1. work.ws.recs = Truncated(spare'.ws.recs, 0) /\ 0 \in 0 .. Slots
        BY <1>1, <1>3, <3>3, TruncatedCases, FtwAssumption DEF WorkSpace
      <4>2. Recoverable(work, spare') /\ RecoveredFrom(work, spare') = spare'.data
        BY <1>1, <1>8, <3>3, <4>1, RecoverableFromSpare DEF Before, TypeInv, TypeOK
      <4>3. RecoveredFrom(work, spare) = work.data
        BY <3>1, <3>3 DEF RecoveredFrom, Committed
      <4> QED BY <1>2, <1>3, <3>1, <4>2, <4>3, RecoveredIs
    <3> QED BY <3>1, <3>2, <3>3 DEF Unused
  <2> QED BY <1>4, <2>1, <2>2, <2>3 DEF FlushCallers
<1> QED BY <1>1, <1>2, <1>5, <1>10, <1>11, <1>12 DEF After, Safe

(* A job on the working block starts, while the spare block is recovered.    *)
LEMMA WorkJob ==
  ASSUME NEW buf, NEW eraseOnly, NEW ret, ret \notin JobLabels, ~eraseOnly,
         StartJob("work", buf, eraseOnly, ret)
  PROVE  /\ at' = ret /\ WorkThen' = buf /\ SpareThen' = spare'
         /\ ret = "flush_healthy" /\ Recovered' = spare'.data => JobOK'
<1>1. /\ pc' = "erase" /\ job'.dst = "work" /\ job'.buf = buf /\ job'.idx = 1
      /\ job'.ret = ret /\ job'.eraseOnly = eraseOnly
  BY DEF StartJob
<1>2. at' = ret /\ WorkThen' = buf /\ SpareThen' = spare'
  BY <1>1 DEF at, WorkThen, SpareThen, JobLabels
<1>3. ret = "flush_healthy" /\ Recovered' = spare'.data => JobOK'
  BY <1>1, <1>2 DEF JobOK, JobLabels
<1> QED BY <1>2, <1>3

(* FlushSpareBlockToWorkingBlock: the working block is marked invalid and    *)
(* replaced.                                                                 *)
LEMMA FlushCopySafe ==
  ASSUME Before, FlushCopy
  PROVE  After
<1>1. /\ pc = "flush_copy"
      /\ at = pc /\ st = "ok" /\ Recoverable(work, spare) /\ CallerOK
      /\ work \in Image /\ spare \in Image /\ spare.ws \in WorkSpace
      /\ work.ws \in WorkSpace /\ mws \in WorkSpace
      /\ FlushSource(spare) /\ FlushReplaces(work, spare) /\ spare.ws.valid
  BY AtLabel DEF FlushCopy, JobLabels, Assertion
<1>2. /\ work' = [work EXCEPT !.ws.invalid = TRUE]
      /\ mws' = [mws EXCEPT !.invalid = TRUE]
      /\ StartJob("work", FlushBuffer(spare), FALSE, "flush_healthy")
      /\ UNCHANGED <<spare, st, last, caller, rets>>
  BY NothingFails DEF FlushCopy, WriteTargetBlock, Before
<1>3. /\ work'.data = work.data /\ work'.ws.sig = work.ws.sig
      /\ work'.ws.recs = work.ws.recs /\ work'.ws.valid = work.ws.valid
      /\ mws'.recs = mws.recs /\ mws'.sig = mws.sig /\ spare' = spare
  BY <1>1, <1>2 DEF Image, WorkSpace
<1>4. retF \in FlushCallers
  BY <1>1 DEF Before, TypeInv, ControlOK, InFlush, FlushLabels
<1>5. Recoverable(work', spare') /\ RecoveredFrom(work', spare') = RecoveredFrom(work, spare)
  BY <1>1, <1>3, RecoverableSame
<1>6. RecoveredFrom(work, spare) = spare.data
  BY <1>1, <1>4, RecoverableSettled
     DEF FlushReplaces, FlushCallers, RecoveredFrom, Unused, FlushSource, Valid, IsValidWorkSpace
<1>7. /\ at' = "flush_healthy" /\ WorkThen' = FlushBuffer(spare) /\ SpareThen' = spare'
      /\ JobOK'
  <2>1. Recovered' = spare'.data
    BY <1>3, <1>5, <1>6, RecoveredIs
  <2>2. "flush_healthy" \notin JobLabels
    BY DEF JobLabels
  <2>3. StartJob("work", FlushBuffer(spare), FALSE, "flush_healthy")
    BY <1>2
  <2>4. at' = "flush_healthy"
    BY <2>1, <2>2, <2>3, WorkJob
  <2>5. WorkThen' = FlushBuffer(spare)
    BY <2>1, <2>2, <2>3, WorkJob
  <2>6. SpareThen' = spare'
    BY <2>1, <2>2, <2>3, WorkJob
  <2>7. JobOK'
    BY <2>1, <2>2, <2>3, WorkJob
  <2> QED BY <2>4, <2>5, <2>6, <2>7
<1>8. FlushSource(spare)'
  BY <1>1, <1>2, <1>3 DEF FlushSource, Emptied, Whole, rets
<1>9. Holds'
  BY <1>1, <1>2, <1>7, <1>8 DEF Holds, Assertion, FlushSource
<1>10. CallerOK'
  BY <1>1, <1>2, <1>7 DEF CallerOK, InCall, Effective, InRecord, InReclaim, InFlush,
       FlushLabels, ReclaimLabels, RecordLabels, caller, rets
<1> QED BY <1>1, <1>2, <1>5, <1>7, <1>9, <1>10, RecoveredIs DEF After, Safe

(* FlushSpareBlockToWorkingBlock: the State of the variable store.           *)
LEMMA FlushSetHealthySafe ==
  ASSUME Before, FlushSetHealthy
  PROVE  After
<1>1. /\ pc = "flush_healthy"
      /\ at = pc /\ st = "ok" /\ Recoverable(work, spare) /\ CallerOK
      /\ work \in Image /\ spare \in Image
      /\ FlushSource(spare) /\ spare.ws.valid /\ work = FlushBuffer(spare)
  BY AtLabel DEF FlushSetHealthy, JobLabels, Assertion
<1>2. /\ pc' = "flush_valid"
      /\ work' = [work EXCEPT !.healthy = TRUE] \/ work' = work
      /\ UNCHANGED <<spare, st, mws, last, caller, rets>>
  BY <1>1, NothingFails DEF FlushSetHealthy, Before
<1>3. work'.data = work.data /\ work'.ws = work.ws
  BY <1>1, <1>2 DEF Image
<1>4. Recoverable(work', spare') /\ Recovered' = Recovered
  BY <1>1, <1>2, <1>3, RecoverableSame, RecoveredIs
<1>5. /\ at' = "flush_valid" /\ WorkThen' = work' /\ SpareThen' = spare' /\ JobOK'
  BY <1>2, OutOfJob DEF JobLabels
<1>6. Flushed(work', spare') /\ ~work'.ws.valid
  BY <1>1, <1>2, <1>3, FlushBufferIs DEF Flushed
<1>7. FlushSource(spare)'
  BY <1>1, <1>2 DEF FlushSource, Emptied, Whole, rets
<1>8. Holds'
  BY <1>1, <1>2, <1>5, <1>6, <1>7 DEF Holds, Assertion, Flushed, FlushSource
<1>9. CallerOK'
  BY <1>1, <1>2, <1>5 DEF CallerOK, InCall, Effective, InRecord, InReclaim, InFlush,
       FlushLabels, ReclaimLabels, RecordLabels, caller, rets
<1> QED BY <1>1, <1>2, <1>4, <1>5, <1>8, <1>9 DEF After, Safe

(* FlushSpareBlockToWorkingBlock: the copy becomes valid, and holds what the *)
(* spare block holds.                                                        *)
LEMMA FlushSetValidSafe ==
  ASSUME Before, FlushSetValid
  PROVE  After
<1>1. /\ pc = "flush_valid"
      /\ at = pc /\ st = "ok" /\ Recoverable(work, spare) /\ CallerOK
      /\ work \in Image /\ spare \in Image /\ mws \in WorkSpace
      /\ FlushSource(spare) /\ spare.ws.valid
      /\ Flushed(work, spare) /\ ~work.ws.valid
  BY AtLabel DEF FlushSetValid, JobLabels, Assertion
<1>2. /\ work' = [work EXCEPT !.ws.valid = TRUE]
      /\ mws' = [mws EXCEPT !.valid = TRUE]
      /\ pc' = retF /\ st' = "ok"
      /\ UNCHANGED <<spare, last, caller, rets>>
  BY NothingFails DEF FlushSetValid, Return, Before
<1>3. /\ work'.data = work.data /\ work'.ws.sig = work.ws.sig
      /\ work'.ws.recs = work.ws.recs /\ work'.ws.valid
      /\ mws'.recs = mws.recs /\ mws'.sig = mws.sig /\ mws'.valid
      /\ work' \in Image /\ spare' = spare
  BY <1>1, <1>2 DEF Image, WorkSpace, Before, TypeInv, TypeOK
<1>4. retF \in FlushCallers
  BY <1>1 DEF Before, TypeInv, ControlOK, InFlush, FlushLabels
<1>5. Flushed(work', spare') /\ Whole(spare) /\ Tidy(spare.ws) /\ spare.ws.sig
  BY <1>1, <1>3 DEF Flushed, FlushSource
<1>6. /\ Recoverable(work', spare') /\ RecoveredFrom(work', spare') = spare.data
      /\ Valid(work') /\ Whole(work')
  BY <1>1, <1>3, <1>5, RecoverableFlushed
<1>7. RecoveredFrom(work, spare) = spare.data
  BY <1>1, <1>5 DEF RecoveredFrom, Committed, Valid, IsValidWorkSpace
<1>8. /\ at' = retF /\ WorkThen' = work' /\ SpareThen' = spare' /\ JobOK'
  BY <1>2, <1>4, OutOfJob DEF JobLabels, FlushCallers
<1>9. /\ GetLastRecord(work'.ws) = GetLastRecord(spare.ws)
      /\ InProgress(work'.ws) = InProgress(spare.ws)
  BY <1>3, <1>5, SameRecs DEF Flushed
<1>10. mws'.recs = work'.ws.recs
  BY <1>1, <1>3 DEF FlushSource, Flushed
<1>11. ASSUME retF = "record_done" PROVE Holds'
  <2>1. last' = GetLastRecord(work'.ws) /\ Committed(work')
    BY <1>1, <1>2, <1>6, <1>9, <1>11 DEF FlushSource, Committed
  <2> QED
    BY <1>5, <1>6, <1>8, <1>10, <1>11, <2>1 DEF Holds, Assertion, Flushed, Sync
<1>12. ASSUME retF = "recovered" PROVE Holds'
  <2>1. last' =< GetLastRecord(work'.ws) /\ work'.data = spare'.data
    BY <1>1, <1>2, <1>3, <1>5, <1>9 DEF FlushSource, Flushed
  <2> QED
    BY <1>6, <1>8, <1>10, <1>12, <2>1 DEF Holds, Assertion
<1>13. ASSUME retF = "reclaim_restore" PROVE Holds'
  <2>1. Emptied
    BY <1>1, <1>13 DEF FlushSource
  <2> QED
    BY <1>2, <1>3, <1>6, <1>8, <1>10, <1>13, <2>1 DEF Holds, Assertion, Emptied
<1>14. Holds'
  BY <1>4, <1>11, <1>12, <1>13 DEF FlushCallers
<1>15. CallerOK'
  BY <1>1, <1>2, <1>4, <1>8 DEF CallerOK, InCall, Effective, InRecord, InReclaim, InFlush,
       FlushLabels, ReclaimLabels, RecordLabels, FlushCallers, caller, rets
<1> QED BY <1>2, <1>6, <1>7, <1>8, <1>14, <1>15, RecoveredIs DEF After, Safe

(* A bit set in flash and in memory leaves both with the same records.       *)
LEMMA SetBitSync ==
  ASSUME NEW a \in WorkSpace, NEW b \in WorkSpace, a.recs = b.recs, NEW l, NEW bit
  PROVE  SetBit(a, l, bit).recs = SetBit(b, l, bit).recs
BY DEF SetBit, WorkSpace

(* FtwWriteRecord: the mark is copied to the record in the spare block.      *)
LEMMA WriteRecordSpareSafe ==
  ASSUME Before, WriteRecordSpare
  PROVE  After
<1>1. /\ pc = "record_spare"
      /\ at = pc /\ st = "ok" /\ Recoverable(work, spare) /\ CallerOK
      /\ work \in Image /\ spare \in Image /\ mws \in WorkSpace
      /\ Committed(work) /\ Sync(work)
  BY AtLabel DEF WriteRecordSpare, JobLabels, Assertion
<1>2. /\ spare' = [spare EXCEPT !.ws = SetBit(@, last, "spare")]
      /\ pc' = "flush" /\ retF' = "record_done"
      /\ UNCHANGED <<work, st, mws, last, caller, retC, retA, retW>>
  BY NothingFails DEF WriteRecordSpare, Before
<1>3. last = GetLastRecord(work.ws) /\ mws.recs = work.ws.recs /\ work' = work
  BY <1>1, <1>2 DEF Sync
<1>4. /\ Recoverable(work, spare')
      /\ RecoveredFrom(work, spare') = RecoveredFrom(work, spare)
      /\ spare'.ws.recs = work.ws.recs /\ spare'.ws.sig
      /\ Whole(spare') /\ Tidy(spare'.ws) /\ InProgress(spare'.ws)
      /\ GetLastRecord(spare'.ws) = GetLastRecord(work.ws)
      /\ GetLastRecord(work.ws) =< Slots
  BY <1>1, <1>2, <1>3, RecoverableMarked
<1>5. /\ at' = "flush" /\ WorkThen' = work' /\ SpareThen' = spare' /\ JobOK'
  BY <1>2, OutOfJob DEF JobLabels
<1>6. last =< last
  BY <1>1, <1>3, GetLastRecordType, FtwAssumption
<1>7. FlushSource(spare)'
  BY <1>2, <1>3, <1>4, <1>6 DEF FlushSource
<1>8. FlushReplaces(work, spare)'
  BY <1>1, <1>2, <1>3, <1>4 DEF FlushReplaces, Committed
<1>9. Holds'
  BY <1>3, <1>5, <1>7, <1>8 DEF Holds, Assertion, FlushSource, FlushReplaces, Unused, Settled,
     Committed
<1>10. CallerOK'
  BY <1>1, <1>2, <1>5 DEF CallerOK, InCall, Effective, InRecord, InReclaim, InFlush,
       FlushLabels, ReclaimLabels, RecordLabels, caller
<1>11. Recoverable(work', spare') /\ Recovered' = Recovered
  BY <1>3, <1>4, RecoveredIs
<1> QED BY <1>1, <1>2, <1>5, <1>9, <1>10, <1>11 DEF After, Safe

(* FtwWriteRecord: the record is completed, the working block is up to date. *)
LEMMA WriteRecordDoneSafe ==
  ASSUME Before, WriteRecordDone
  PROVE  After
<1>1. /\ pc = "record_done"
      /\ at = pc /\ st = "ok" /\ Recoverable(work, spare) /\ CallerOK
      /\ work \in Image /\ spare \in Image /\ mws \in WorkSpace /\ work.ws \in WorkSpace
      /\ Flushed(work, spare) /\ Committed(work) /\ Sync(work) /\ Whole(work)
  BY AtLabel DEF WriteRecordDone, JobLabels, Assertion
<1>2. /\ work' = [work EXCEPT !.ws = SetBit(@, last, "done")]
      /\ mws' = SetBit(mws, last, "done") /\ pc' = retW /\ st' = "ok"
      /\ UNCHANGED <<spare, last, caller, rets>>
  BY NothingFails, NoneReports DEF WriteRecordDone, Return, Before
<1>3. last = GetLastRecord(work.ws) /\ mws.recs = work.ws.recs /\ spare' = spare
  BY <1>1, <1>2 DEF Sync
<1>4. retW \in RecordCallers
  BY <1>1 DEF Before, TypeInv, ControlOK, InRecord, RecordLabels
<1>5. Valid(work) /\ Tidy(work.ws) /\ last \in Records
  BY <1>1, <1>3, SetBitAgain DEF Committed, Recoverable
<1>6. /\ Settled(work') /\ Recoverable(work', spare)
      /\ GetLastRecord(work'.ws) = last + 1 /\ work'.data = work.data
  BY <1>1, <1>2, <1>3, <1>5, RecoverableDone
<1>7. mws'.recs = work'.ws.recs
  <2>1. work'.ws = SetBit(work.ws, last, "done")
    BY <1>1, <1>2 DEF Image
  <2> QED BY <1>1, <1>2, <1>3, <2>1, SetBitSync
<1>8. /\ at' = retW /\ WorkThen' = work' /\ SpareThen' = spare' /\ JobOK'
  BY <1>2, <1>4, OutOfJob DEF JobLabels, RecordCallers
<1>9. Holds'
  BY <1>2, <1>4, <1>6, <1>7, <1>8 DEF Holds, Assertion, RecordCallers
<1>10. CallerOK'
  BY <1>1, <1>2, <1>4, <1>8 DEF CallerOK, InCall, Effective, InRecord, InReclaim, InFlush,
       FlushLabels, ReclaimLabels, RecordLabels, RecordCallers, caller, rets
<1>11. Recovered' = Recovered
  <2>1. RecoveredFrom(work, spare) = work.data
    BY <1>1 DEF RecoveredFrom, Flushed
  <2>2. RecoveredFrom(work', spare) = work'.data
    BY <1>6, RecoverableSettled
  <2> QED BY <1>3, <1>6, <2>1, <2>2, RecoveredIs
<1> QED BY <1>2, <1>3, <1>6, <1>8, <1>9, <1>10, <1>11 DEF After, Safe

(* FtwAbort: only a write that has had no effect, or that has been flushed,  *)
(* is given up.                                                              *)
LEMMA AbortMarkSafe ==
  ASSUME Before, AbortMark
  PROVE  After
<1>1. /\ pc = "abort"
      /\ at = pc /\ st = "ok" /\ Recoverable(work, spare) /\ CallerOK
      /\ work \in Image /\ spare \in Image /\ mws \in WorkSpace /\ work.ws \in WorkSpace
      /\ last \in 1 .. Slots + 1
      /\ Valid(work) /\ Whole(work) /\ mws.recs = work.ws.recs
      /\ last =< GetLastRecord(work.ws)
      /\ Committed(work) => work.data = spare.data
      /\ retA = "restart" => last = GetLastRecord(work.ws)
  BY AtLabel DEF AbortMark, JobLabels, Assertion
<1>2. retA \in AbortCallers /\ last =< Slots
  BY <1>1 DEF Before, TypeInv, ControlOK, LastUnbounded
<1>3. UNCHANGED <<spare, st, caller, rets>>
  BY DEF AbortMark
<1>4. spare' = spare /\ retA' = retA /\ st' = "ok"
  BY <1>1, <1>3 DEF rets
<1>5. CASE "done" \in RecordAt(mws, last)
  <2>1. pc' = retA /\ work' = work /\ mws' = mws /\ last' = last
    BY <1>5 DEF AbortMark
  <2>2. /\ at' = retA /\ WorkThen' = work' /\ SpareThen' = spare' /\ JobOK'
    BY <1>2, <2>1, OutOfJob DEF JobLabels, AbortCallers
  <2>3. Holds'
    BY <1>1, <1>2, <2>1, <2>2 DEF Holds, Assertion, AbortCallers, Sync
  <2>4. CallerOK'
    BY <1>1, <1>2, <1>3, <2>2 DEF CallerOK, InCall, Effective, InRecord, InReclaim, InFlush,
         FlushLabels, ReclaimLabels, RecordLabels, AbortCallers, caller, rets
  <2> QED BY <1>4, <2>1, <2>2, <2>3, <2>4, FlashKept DEF After, Safe, flash
<1>6. CASE "done" \notin RecordAt(mws, last)
  <2>1. /\ work' = [work EXCEPT !.ws = SetBit(@, last, "done")]
        /\ mws' = SetBit(mws, last, "done") /\ last' = GetLastRecord(mws')
        /\ StartJob("spare", ErasedImage, TRUE, retA)
    BY <1>6, NothingFails DEF AbortMark, Before, FtwEraseSpareBlock
  <2>2. last = GetLastRecord(work.ws) /\ last \in Records
    <3>1. last \in Records
      BY <1>1, <1>2, FtwAssumption DEF Records
    <3>2. "done" \notin work.ws.recs[last]
      BY <1>1, <1>6, <3>1 DEF RecordAt
    <3>3. ~(last < GetLastRecord(work.ws))
      BY <3>1, <3>2, GetLastRecordType
    <3>4. GetLastRecord(work.ws) \in 1 .. Slots + 1
      BY GetLastRecordType
    <3> QED BY <1>1, <3>1, <3>3, <3>4, FtwAssumption
  <2>3. /\ Settled(work') /\ Recoverable(work', spare)
        /\ work'.data = work.data
    BY <1>1, <2>1, <2>2, RecoverableDone DEF Recoverable
  <2>4. mws'.recs = work'.ws.recs
    <3>1. work'.ws = SetBit(work.ws, last, "done")
      BY <1>1, <2>1 DEF Image
    <3> QED BY <1>1, <2>1, <3>1, SetBitSync
  <2>5. last' = GetLastRecord(work'.ws)
    BY <2>1, <2>4, SameRecs
  <2>6. /\ at' = retA /\ WorkThen' = work' /\ SpareThen' = ErasedImage /\ JobOK'
    BY <1>2, <2>1, <2>3, SpareJob DEF JobLabels, AbortCallers
  <2>7. Holds'
    BY <1>2, <2>3, <2>4, <2>5, <2>6 DEF Holds, Assertion, AbortCallers, Sync, Settled
  <2>8. CallerOK'
    BY <1>1, <1>2, <1>3, <2>6 DEF CallerOK, InCall, Effective, InRecord, InReclaim, InFlush,
         FlushLabels, ReclaimLabels, RecordLabels, AbortCallers, caller, rets
  <2>9. Recovered' = Recovered
    <3>1. RecoveredFrom(work, spare) = work.data
      BY <1>1 DEF RecoveredFrom
    <3>2. RecoveredFrom(work', spare) = work'.data
      BY <2>3, RecoverableSettled
    <3> QED BY <1>4, <2>3, <3>1, <3>2, RecoveredIs
  <2> QED BY <1>4, <2>3, <2>6, <2>7, <2>8, <2>9 DEF After, Safe
<1> QED BY <1>5, <1>6

(* WorkSpaceRefresh: memory agrees with flash, and a reclaim starts only     *)
(* with nothing in progress.                                                 *)
LEMMA RefreshSafe ==
  ASSUME Before, pc \notin JobLabels, NEW ret, ret \notin JobLabels,
         WorkSpaceRefresh(ret), UNCHANGED flash
  PROVE  /\ WorkThen' = work' /\ SpareThen' = spare' /\ JobOK' /\ st' = "ok"
         /\ mws' = work'.ws /\ last' = GetLastRecord(work'.ws)
         /\ \/ at' = "reclaim" /\ retC' = ret /\ Holds'
            \/ at' = ret /\ retC' = retC
<1>1. /\ st = "ok" /\ Recoverable(work, spare)
      /\ work.ws \in WorkSpace /\ spare.ws \in WorkSpace
  BY AtLabel
<1>2. /\ mws' = work.ws /\ last' = GetLastRecord(work.ws)
      /\ work' = work /\ spare' = spare
  BY DEF WorkSpaceRefresh, flash
<1>3. CASE last' > Slots
  <2>1. pc' = "reclaim" /\ retC' = ret /\ st' = "ok"
    BY <1>1, <1>3 DEF WorkSpaceRefresh
  <2>2. /\ at' = "reclaim" /\ WorkThen' = work' /\ SpareThen' = spare' /\ JobOK'
    BY <2>1, OutOfJob DEF JobLabels
  <2>3. Current(work.ws) = {} /\ ~InProgress(work.ws)
    BY <1>2, <1>3, FullLast
  <2>4. Valid(work)
    <3> SUFFICES ASSUME ~Valid(work) PROVE FALSE
      OBVIOUS
    <3>1. GetLastRecord(work.ws) \in 1 .. Slots + 1 /\ GetLastRecord(spare.ws) \in 1 .. Slots + 1
      BY GetLastRecordType
    <3>2. CASE Valid(spare)
      <4>1. GetLastRecord(work.ws) =< GetLastRecord(spare.ws) /\ GetLastRecord(spare.ws) =< Slots
        BY <1>1, <3>2, TruncatedLast DEF Recoverable
      <4> QED BY <1>2, <1>3, <3>1, <4>1, FtwAssumption
    <3>3. CASE ~Valid(spare)
      <4>1. GetLastRecord(work.ws) = 1
        BY <1>1, <3>3, EmptyLast DEF Recoverable
      <4> QED BY <1>2, <1>3, <4>1, FtwAssumption
    <3> QED BY <3>2, <3>3
  <2>5. Settled(work) /\ mws'.sig /\ RecordAt(mws', last') = {}
    BY <1>2, <2>3, <2>4 DEF Settled, Current, Valid, IsValidWorkSpace
  <2>6. Holds'
    BY <1>2, <2>2, <2>5 DEF Holds, Assertion, Idle, Settled
  <2> QED BY <1>2, <2>1, <2>2, <2>6
<1>4. CASE ~(last' > Slots)
  <2>1. pc' = ret /\ retC' = retC /\ st' = "ok"
    BY <1>1, <1>4 DEF WorkSpaceRefresh, Return
  <2>2. /\ at' = ret /\ WorkThen' = work' /\ SpareThen' = spare' /\ JobOK'
    BY <2>1, OutOfJob
  <2> QED BY <1>2, <2>1, <2>2
<1> QED BY <1>3, <1>4

(* CommonFtwWrite is called.                                                 *)
LEMMA WriteCallSafe ==
  ASSUME Before, Write
  PROVE  After
<1>1. /\ pc = "idle" /\ at = pc /\ Recoverable(work, spare) /\ CallerOK /\ Settled(work)
  BY AtLabel DEF Write, JobLabels, Assertion
<1>2. /\ WorkSpaceRefresh("check") /\ req' \in Requests
      /\ UNCHANGED <<flash, retF, retA, retW>>
  BY DEF Write
<1>3. /\ WorkThen' = work' /\ SpareThen' = spare' /\ JobOK' /\ st' = "ok"
      /\ mws' = work'.ws /\ last' = GetLastRecord(work'.ws)
      /\ \/ at' = "reclaim" /\ retC' = "check" /\ Holds'
         \/ at' = "check" /\ retC' = retC
  BY <1>1, <1>2, RefreshSafe DEF JobLabels
<1>4. Settled(work')
  BY <1>1, <1>2 DEF flash, Settled
<1>5. Holds'
  BY <1>3, <1>4 DEF Holds, Assertion, Sync
<1>6. req' # NoRequest
  BY <1>2, FtwAssumption DEF Requests, Data
<1>7. CallerOK'
  BY <1>1, <1>2, <1>3, <1>6 DEF CallerOK, InCall, Effective, InRecord, InReclaim, InFlush,
       FlushLabels, ReclaimLabels, RecordLabels
<1> QED BY <1>2, <1>3, <1>5, <1>7, FlashKept DEF After, Safe

(* InitializeFtwLite starts.                                                 *)
LEMMA BootRefreshSafe ==
  ASSUME Before, BootRefresh
  PROVE  After
<1>1. pc = "boot" /\ at = pc /\ Recoverable(work, spare) /\ CallerOK
  BY AtLabel DEF BootRefresh, JobLabels
<1>2. WorkSpaceRefresh("validate") /\ UNCHANGED <<flash, caller, retF, retA, retW>>
  BY DEF BootRefresh
<1>3. /\ WorkThen' = work' /\ SpareThen' = spare' /\ JobOK' /\ st' = "ok"
      /\ mws' = work'.ws /\ last' = GetLastRecord(work'.ws)
      /\ \/ at' = "reclaim" /\ retC' = "validate" /\ Holds'
         \/ at' = "validate" /\ retC' = retC
  BY <1>1, <1>2, RefreshSafe DEF JobLabels
<1>4. Holds'
  BY <1>3 DEF Holds, Assertion, Sync, Valid
<1>5. CallerOK'
  BY <1>1, <1>2, <1>3 DEF CallerOK, InCall, Effective, InRecord, InReclaim, InFlush,
       FlushLabels, ReclaimLabels, RecordLabels, caller
<1> QED BY <1>2, <1>3, <1>4, <1>5, FlashKept DEF After, Safe

(* InitializeFtwLite reads the work space again after a recovery.            *)
LEMMA BootRefreshAgainSafe ==
  ASSUME Before, BootRefreshAgain
  PROVE  After
<1>1. pc = "refresh" /\ at = pc /\ Recoverable(work, spare) /\ CallerOK /\ Valid(work)
  BY AtLabel DEF BootRefreshAgain, JobLabels, Assertion
<1>2. WorkSpaceRefresh("rollback") /\ UNCHANGED <<flash, caller, retF, retA, retW>>
  BY DEF BootRefreshAgain
<1>3. /\ WorkThen' = work' /\ SpareThen' = spare' /\ JobOK' /\ st' = "ok"
      /\ mws' = work'.ws /\ last' = GetLastRecord(work'.ws)
      /\ \/ at' = "reclaim" /\ retC' = "rollback" /\ Holds'
         \/ at' = "rollback" /\ retC' = retC
  BY <1>1, <1>2, RefreshSafe DEF JobLabels
<1>4. Valid(work')
  BY <1>1, <1>2 DEF flash
<1>5. Holds'
  BY <1>3, <1>4 DEF Holds, Assertion, Sync
<1>6. CallerOK'
  BY <1>1, <1>2, <1>3 DEF CallerOK, InCall, Effective, InRecord, InReclaim, InFlush,
       FlushLabels, ReclaimLabels, RecordLabels, caller
<1> QED BY <1>2, <1>3, <1>5, <1>6, FlashKept DEF After, Safe

(* CommonFtwWrite returns with nothing in progress.                          *)
LEMMA WriteReturnsSafe ==
  ASSUME NEW status, WriteReturns(status), Settled(work')
  PROVE  JobOK' /\ Holds' /\ CallerOK'
<1>1. pc' = "idle" /\ req' = NoRequest /\ retW' = "none"
  BY DEF WriteReturns
<1>2. at' = "idle" /\ WorkThen' = work' /\ JobOK'
  BY <1>1, OutOfJob DEF JobLabels
<1>3. Holds'
  BY <1>2 DEF Holds, Assertion
<1>4. CallerOK'
  BY <1>1, <1>2 DEF CallerOK, InCall, Effective, InRecord, InReclaim, InFlush,
       FlushLabels, ReclaimLabels, RecordLabels
<1> QED BY <1>2, <1>3, <1>4

(* A bit other than SPARE_COMPLETED and DEST_COMPLETED is set in the last    *)
(* record, in flash and in memory.                                           *)
LEMMA OpenSafe ==
  ASSUME Before, pc \notin JobLabels, Settled(work), Sync(work), last =< Slots,
         NEW bit \in {"alloc", "body"},
         work' = [work EXCEPT !.ws = SetBit(@, last, bit)],
         mws' = SetBit(mws, last, bit), spare' = spare, last' = last
  PROVE  /\ Settled(work') /\ Recoverable(work', spare') /\ Recovered' = Recovered
         /\ mws'.recs = work'.ws.recs /\ last' = GetLastRecord(work'.ws)
<1>1. /\ Recoverable(work, spare) /\ work \in Image /\ mws \in WorkSpace
      /\ work.ws \in WorkSpace /\ last \in 1 .. Slots + 1
      /\ mws.recs = work.ws.recs /\ last = GetLastRecord(work.ws)
  BY AtLabel DEF Sync
<1>2. last \in Records
  BY <1>1, FtwAssumption DEF Records
<1>3. /\ Settled(work') /\ Recoverable(work', spare')
      /\ GetLastRecord(work'.ws) = last /\ work'.data = work.data
  BY <1>1, <1>2, RecoverableOpen
<1>4. mws'.recs = work'.ws.recs
  <2>1. work'.ws = SetBit(work.ws, last, bit)
    BY <1>1 DEF Image
  <2> QED BY <1>1, <2>1, SetBitSync
<1>5. Recovered' = Recovered
  BY <1>1, <1>3, RecoverableSettled, RecoveredIs
<1> QED BY <1>3, <1>4, <1>5

(* CommonFtwWrite: WRITE_ALLOCATED, or access denied.                        *)
LEMMA WriteAllocateSafe ==
  ASSUME Before, WriteAllocate
  PROVE  After
<1>1. /\ pc = "check" /\ at = pc /\ st = "ok" /\ CallerOK
      /\ Settled(work) /\ Sync(work)
  BY AtLabel DEF WriteAllocate, JobLabels, Assertion
<1>2. last =< Slots
  BY <1>1 DEF Before, TypeInv, ControlOK, LastUnbounded
<1>3. /\ spare' = spare /\ st' = "ok" /\ last' = last
      /\ UNCHANGED <<retC, retF, retA>>
  BY <1>1 DEF WriteAllocate
<1>4. CASE work' = work /\ \E status : WriteReturns(status)
  <2>1. JobOK' /\ Holds' /\ CallerOK'
    BY <1>1, <1>4, WriteReturnsSafe DEF Settled
  <2> QED BY <1>3, <1>4, <2>1, FlashKept DEF After, Safe, flash
<1>5. CASE /\ work' = [work EXCEPT !.ws = SetBit(@, last, "alloc")]
           /\ mws' = SetBit(mws, last, "alloc")
           /\ pc' = "body" /\ UNCHANGED <<req, retW>>
  <2>1. /\ Settled(work') /\ Recoverable(work', spare') /\ Recovered' = Recovered
        /\ mws'.recs = work'.ws.recs /\ last' = GetLastRecord(work'.ws)
    BY <1>1, <1>2, <1>3, <1>5, OpenSafe DEF JobLabels
  <2>2. at' = "body" /\ WorkThen' = work' /\ SpareThen' = spare' /\ JobOK'
    BY <1>5, OutOfJob DEF JobLabels
  <2>3. Holds'
    BY <2>1, <2>2 DEF Holds, Assertion, Sync
  <2>4. CallerOK'
    BY <1>1, <1>5, <2>2 DEF CallerOK, InCall, Effective, InRecord, InReclaim, InFlush,
         FlushLabels, ReclaimLabels, RecordLabels
  <2> QED BY <1>3, <2>1, <2>2, <2>3, <2>4 DEF After, Safe
<1> QED BY <1>4, <1>5, NothingFails DEF WriteAllocate, Before

(* CommonFtwWrite: the body of the record.                                   *)
LEMMA WriteBodySafe ==
  ASSUME Before, WriteBody
  PROVE  After
<1>1. /\ pc = "body" /\ at = pc /\ st = "ok" /\ CallerOK
      /\ Settled(work) /\ Sync(work)
  BY AtLabel DEF WriteBody, JobLabels, Assertion
<1>2. last =< Slots
  BY <1>1 DEF Before, TypeInv, ControlOK, LastUnbounded
<1>3. /\ spare' = spare /\ st' = "ok" /\ last' = last
      /\ work' = [work EXCEPT !.ws = SetBit(@, last, "body")]
      /\ mws' = SetBit(mws, last, "body") /\ pc' = "copy"
      /\ UNCHANGED <<req, retC, retF, retA, retW>>
  BY <1>1, NothingFails DEF WriteBody, Before
<1>4. /\ Settled(work') /\ Recoverable(work', spare') /\ Recovered' = Recovered
      /\ mws'.recs = work'.ws.recs /\ last' = GetLastRecord(work'.ws)
  BY <1>1, <1>2, <1>3, OpenSafe DEF JobLabels
<1>5. at' = "copy" /\ WorkThen' = work' /\ SpareThen' = spare' /\ JobOK'
  BY <1>3, OutOfJob DEF JobLabels
<1>6. Holds'
  BY <1>4, <1>5 DEF Holds, Assertion, Sync
<1>7. CallerOK'
  BY <1>1, <1>3, <1>5 DEF CallerOK, InCall, Effective, InRecord, InReclaim, InFlush,
       FlushLabels, ReclaimLabels, RecordLabels
<1> QED BY <1>3, <1>4, <1>5, <1>6, <1>7 DEF After, Safe

(* CommonFtwWrite: the modified working block goes to the spare block.       *)
LEMMA WriteSpareSafe ==
  ASSUME Before, WriteSpare
  PROVE  After
<1> DEFINE buf == [work EXCEPT !.data = Overlay(@, req)]
<1>1. /\ pc = "copy" /\ at = pc /\ st = "ok" /\ CallerOK
      /\ Settled(work) /\ Sync(work)
  BY AtLabel DEF WriteSpare, JobLabels, Assertion
<1>2. /\ StartJob("spare", buf, FALSE, "mark")
      /\ UNCHANGED <<flash, st, mws, last, caller, rets>>
  BY DEF WriteSpare, WriteTargetBlock
<1>3. work' = work /\ spare' = spare /\ mws' = mws /\ last' = last /\ req' = req
  BY <1>2 DEF flash, caller
<1>4. at' = "mark" /\ WorkThen' = work' /\ SpareThen' = buf /\ JobOK'
  <2> HIDE DEF buf
  <2> QED BY <1>1, <1>2, <1>3, SpareJob DEF JobLabels
<1>5. Holds'
  BY <1>1, <1>3, <1>4 DEF Holds, Assertion, Sync, Settled
<1>6. CallerOK'
  BY <1>1, <1>2, <1>4 DEF CallerOK, InCall, Effective, InRecord, InReclaim, InFlush,
       FlushLabels, ReclaimLabels, RecordLabels, caller, rets
<1> QED BY <1>1, <1>2, <1>4, <1>5, <1>6, FlashKept DEF After, Safe

(* The step in which a write takes effect.                                   *)
LEMMA WriteMarkSafe ==
  ASSUME Before, WriteMark
  PROVE  /\ Safe' /\ Recovered' = Overlay(Recovered, req)
         /\ UNCHANGED <<req, reply>> /\ req # NoRequest
         /\ retW # "restore" /\ retW' = "restore"
<1>1. /\ pc = "mark" /\ at = pc /\ st = "ok" /\ CallerOK
      /\ Recoverable(work, spare) /\ work \in Image /\ mws \in WorkSpace
      /\ work.ws \in WorkSpace /\ last \in 1 .. Slots + 1
      /\ Settled(work) /\ Sync(work) /\ spare = [work EXCEPT !.data = Overlay(@, req)]
  BY AtLabel DEF WriteMark, JobLabels, Assertion
<1>2. last =< Slots
  BY <1>1 DEF Before, TypeInv, ControlOK, LastUnbounded
<1>3. req # NoRequest /\ retW # "restore"
  BY <1>1 DEF CallerOK, InCall, Effective, InRecord, InFlush, RecordLabels, FlushLabels
<1>4. req \in Requests
  BY <1>3 DEF Before, TypeInv, TypeOK
<1>5. /\ spare' = spare /\ st' = "ok" /\ last' = last
      /\ work' = [work EXCEPT !.ws = SetBit(@, last, "spare")]
      /\ mws' = SetBit(mws, last, "spare")
      /\ pc' = "record_spare" /\ retW' = "restore"
      /\ UNCHANGED <<req, reply, retC, retF, retA>>
  BY <1>1, NothingFails DEF WriteMark, Before
<1>6. last = GetLastRecord(work.ws) /\ mws.recs = work.ws.recs /\ last \in Records
  BY <1>1, <1>2, FtwAssumption DEF Sync, Records
<1>7. /\ Committed(work') /\ Recoverable(work', spare)
      /\ GetLastRecord(work'.ws) = GetLastRecord(work.ws)
      /\ RecoveredFrom(work, spare) = work.data
      /\ RecoveredFrom(work', spare) = Overlay(work.data, req)
  BY <1>1, <1>4, <1>5, <1>6, RecoverableCommit
<1>8. mws'.recs = work'.ws.recs
  <2>1. work'.ws = SetBit(work.ws, last, "spare")
    BY <1>1, <1>5 DEF Image
  <2> QED BY <1>1, <1>5, <1>6, <2>1, SetBitSync
<1>9. at' = "record_spare" /\ WorkThen' = work' /\ SpareThen' = spare' /\ JobOK'
  BY <1>5, OutOfJob DEF JobLabels
<1>10. Holds'
  BY <1>5, <1>6, <1>7, <1>8, <1>9 DEF Holds, Assertion, Sync
<1>11. CallerOK'
  BY <1>3, <1>5, <1>9 DEF CallerOK, InCall, Effective, InRecord, InReclaim, InFlush,
       FlushLabels, ReclaimLabels, RecordLabels
<1>12. Recovered' = Overlay(Recovered, req)
  BY <1>5, <1>7, RecoveredIs
<1> QED BY <1>3, <1>5, <1>7, <1>9, <1>10, <1>11, <1>12 DEF Safe

(* CommonFtwWrite: the spare block is put back.                              *)
LEMMA WriteRestoreSafe ==
  ASSUME Before, WriteRestore
  PROVE  After
<1>1. /\ pc = "restore" /\ at = pc /\ st = "ok" /\ CallerOK /\ Settled(work)
  BY AtLabel DEF WriteRestore, JobLabels, Assertion
<1>2. /\ StartJob("spare", saved, FALSE, "end")
      /\ UNCHANGED <<flash, st, caller, rets>>
  BY DEF WriteRestore, WriteTargetBlock
<1>3. work' = work
  BY <1>2 DEF flash
<1>4. at' = "end" /\ WorkThen' = work' /\ SpareThen' = saved /\ JobOK'
  BY <1>1, <1>2, <1>3, SpareJob DEF JobLabels
<1>5. Holds'
  BY <1>1, <1>3, <1>4 DEF Holds, Assertion, Settled
<1>6. CallerOK'
  BY <1>1, <1>2, <1>4 DEF CallerOK, InCall, Effective, InRecord, InReclaim, InFlush,
       FlushLabels, ReclaimLabels, RecordLabels, caller, rets
<1> QED BY <1>1, <1>2, <1>4, <1>5, <1>6, FlashKept DEF After, Safe

(* CommonFtwWrite: success, of a write that has had its effect.              *)
LEMMA WriteEndSafe ==
  ASSUME Before, WriteEnd
  PROVE  After /\ req # NoRequest /\ retW = "restore" /\ reply' = "success"
<1>1. /\ pc = "end" /\ at = pc /\ st = "ok" /\ CallerOK /\ Settled(work)
  BY AtLabel DEF WriteEnd, JobLabels, Assertion
<1>2. WriteReturns("success") /\ UNCHANGED <<flash, st>>
  BY <1>1 DEF WriteEnd
<1>3. JobOK' /\ Holds' /\ CallerOK'
  BY <1>1, <1>2, WriteReturnsSafe DEF flash, Settled
<1>4. req # NoRequest /\ retW = "restore"
  BY <1>1 DEF CallerOK, InCall, Effective
<1> QED BY <1>1, <1>2, <1>3, <1>4, FlashKept DEF After, Safe, WriteReturns

(* A step of the boot that does not write, and that goes to another label.   *)
LEMMA BootStepSafe ==
  ASSUME Before, pc \notin JobLabels, ~InCall, pc' \notin JobLabels, st' = "ok",
         UNCHANGED <<flash, req>>, retW' # "restore", ~InCall', Holds'
  PROVE  After
<1>1. JobOK'
  BY OutOfJob
<1>2. CallerOK'
  BY AtLabel DEF CallerOK, InCall
<1> QED BY <1>1, <1>2, FlashKept DEF After, Safe

(* InitializeFtwLite: the work space is valid, or the spare block is         *)
(* recovered, or the machine is new.                                         *)
LEMMA BootValidateSafe ==
  ASSUME Before, BootValidate
  PROVE  After
<1>1. /\ pc = "validate" /\ at = pc /\ st = "ok" /\ CallerOK
      /\ Recoverable(work, spare) /\ work.ws \in WorkSpace /\ spare.ws \in WorkSpace
      /\ Sync(work) /\ (IsValidWorkSpace(mws) <=> Valid(work))
  BY AtLabel DEF BootValidate, JobLabels, Assertion
<1>2. /\ work' = work /\ spare' = spare /\ last' = last
      /\ UNCHANGED <<flash, req, retA, retW>>
  BY DEF BootValidate, flash, caller
<1>3. ~InCall /\ retW # "restore"
  BY <1>1 DEF CallerOK, InCall, Effective, InRecord, InReclaim, InFlush, FlushLabels,
       ReclaimLabels, RecordLabels
<1>4. CASE IsValidWorkSpace(mws)
  <2>1. pc' = "rollback" /\ st' = "ok" /\ mws' = mws
    BY <1>4 DEF BootValidate, Return
  <2>2. at' = "rollback" /\ WorkThen' = work' /\ SpareThen' = spare'
    BY <2>1, OutOfJob DEF JobLabels
  <2>3. Holds'
    BY <1>1, <1>2, <1>4, <2>1, <2>2 DEF Holds, Assertion, Sync, Valid
  <2>4. ~InCall'
    BY <2>2 DEF InCall, Effective, InRecord, InReclaim, InFlush, FlushLabels,
         ReclaimLabels, RecordLabels
  <2> QED BY <1>1, <1>2, <1>3, <2>1, <2>3, <2>4, BootStepSafe DEF JobLabels
<1>5. CASE ~IsValidWorkSpace(mws) /\ IsValidWorkSpace(spare.ws)
  <2>1. pc' = "flush" /\ retF' = "recovered" /\ st' = "ok" /\ mws' = spare.ws
    BY <1>1, <1>5 DEF BootValidate, Goto
  <2>2. at' = "flush" /\ WorkThen' = work' /\ SpareThen' = spare'
    BY <2>1, OutOfJob DEF JobLabels
  <2>3. /\ ~Valid(work) /\ Valid(spare) /\ Whole(spare) /\ Tidy(spare.ws)
        /\ GetLastRecord(spare.ws) =< Slots
        /\ \E k \in 0 .. Slots : work.ws.recs = Truncated(spare.ws.recs, k)
    BY <1>1, <1>5 DEF Recoverable, Valid
  <2>4. last =< GetLastRecord(spare.ws)
    BY <1>1, <2>3, TruncatedLast DEF Sync
  <2>5. FlushSource(spare)'
    BY <1>2, <2>1, <2>3, <2>4 DEF FlushSource, Valid, IsValidWorkSpace
  <2>6. FlushReplaces(work, spare)'
    BY <1>2, <2>1, <2>3 DEF FlushReplaces
  <2>7. Holds'
    BY <1>2, <2>2, <2>5, <2>6 DEF Holds, Assertion, FlushSource, FlushReplaces, Unused,
       Settled, Committed
  <2>8. ~InCall'
    BY <2>1, <2>2 DEF InCall, Effective, InRecord, InReclaim, InFlush, FlushLabels,
         ReclaimLabels, RecordLabels
  <2> QED BY <1>1, <1>2, <1>3, <2>1, <2>7, <2>8, BootStepSafe DEF JobLabels
<1>6. CASE ~IsValidWorkSpace(mws) /\ ~IsValidWorkSpace(spare.ws)
  <2>1. /\ pc' = "reclaim" /\ retC' = "rollback" /\ st' = "ok"
        /\ mws' = InitHeader(ErasedWs)
    BY <1>1, <1>6 DEF BootValidate, Goto
  <2>2. at' = "reclaim" /\ WorkThen' = work' /\ SpareThen' = spare'
    BY <2>1, OutOfJob DEF JobLabels
  <2>3. mws'.sig /\ RecordAt(mws', last') = {}
    BY <2>1 DEF InitHeader, ErasedWs, EmptyRecords, RecordAt
  <2>4. Idle(work, spare)
    BY <1>1, <1>6 DEF Idle, Valid
  <2>5. Holds'
    BY <1>2, <2>2, <2>3, <2>4 DEF Holds, Assertion, Idle, Settled
  <2>6. ~InCall'
    BY <2>1, <2>2 DEF InCall, Effective, InRecord, InReclaim, InFlush, FlushLabels,
         ReclaimLabels, RecordLabels
  <2> QED BY <1>1, <1>2, <1>3, <2>1, <2>5, <2>6, BootStepSafe DEF JobLabels
<1> QED BY <1>4, <1>5, <1>6

(* InitializeFtwLite: the recovered work space may hold an unfinished        *)
(* record.                                                                   *)
LEMMA BootAbortSafe ==
  ASSUME Before, BootAbort
  PROVE  After
<1>1. /\ pc = "recovered" /\ at = pc /\ st = "ok" /\ CallerOK
      /\ Valid(work) /\ Whole(work) /\ mws.recs = work.ws.recs
      /\ last =< GetLastRecord(work.ws)
      /\ Committed(work) => work.data = spare.data
  BY AtLabel DEF BootAbort, JobLabels, Assertion
<1>2. /\ pc' = "abort" /\ retA' = "refresh" /\ st' = "ok"
      /\ work' = work /\ spare' = spare /\ last' = last /\ mws' = mws
      /\ UNCHANGED <<flash, req, retW>>
  BY <1>1 DEF BootAbort, Goto, flash, caller
<1>3. ~InCall /\ retW # "restore"
  BY <1>1 DEF CallerOK, InCall, Effective, InRecord, InReclaim, InFlush, FlushLabels,
       ReclaimLabels, RecordLabels
<1>4. at' = "abort" /\ WorkThen' = work' /\ SpareThen' = spare'
  BY <1>2, OutOfJob DEF JobLabels
<1>5. Holds'
  BY <1>1, <1>2, <1>4 DEF Holds, Assertion, Committed
<1>6. ~InCall'
  BY <1>4 DEF InCall, Effective, InRecord, InReclaim, InFlush, FlushLabels,
       ReclaimLabels, RecordLabels
<1> QED BY <1>1, <1>2, <1>3, <1>5, <1>6, BootStepSafe DEF JobLabels

(* InitializeFtwLite: a record without SPARE_COMPLETED is rolled back.       *)
LEMMA BootRollbackSafe ==
  ASSUME Before, BootRollback
  PROVE  After
<1>1. /\ pc = "rollback" /\ at = pc /\ st = "ok" /\ CallerOK
      /\ Recoverable(work, spare) /\ work.ws \in WorkSpace
      /\ last \in 1 .. Slots + 1 /\ Valid(work) /\ Sync(work)
  BY AtLabel DEF BootRollback, JobLabels, Assertion
<1>2. /\ st' = "ok" /\ work' = work /\ spare' = spare /\ last' = last /\ mws' = mws
      /\ UNCHANGED <<flash, req, retW>>
  BY <1>1 DEF BootRollback, flash, caller
<1>3. ~InCall /\ retW # "restore"
  BY <1>1 DEF CallerOK, InCall, Effective, InRecord, InReclaim, InFlush, FlushLabels,
       ReclaimLabels, RecordLabels
<1>4. last = GetLastRecord(work.ws) /\ mws.recs = work.ws.recs
  BY <1>1 DEF Sync
<1>5. CASE NeedsRollback(RecordAt(mws, last))
  <2>1. pc' = "abort" /\ retA' = "restart"
    BY <1>1, <1>5 DEF BootRollback
  <2>2. at' = "abort" /\ WorkThen' = work' /\ SpareThen' = spare'
    BY <2>1, OutOfJob DEF JobLabels
  <2>3. ~InProgress(work.ws)
    BY <1>4, <1>5 DEF NeedsRollback, InProgress, NeedsRestart, RecordAt
  <2>4. ~Committed(work) /\ Whole(work)
    BY <1>1, <2>3 DEF Committed, Settled, Recoverable
  <2>5. last =< last
    BY <1>1, FtwAssumption
  <2>6. Holds'
    BY <1>1, <1>2, <1>4, <2>2, <2>4, <2>5 DEF Holds, Assertion, Committed
  <2>7. ~InCall'
    BY <2>2 DEF InCall, Effective, InRecord, InReclaim, InFlush, FlushLabels,
         ReclaimLabels, RecordLabels
  <2> QED BY <1>1, <1>2, <1>3, <2>1, <2>6, <2>7, BootStepSafe DEF JobLabels
<1>6. CASE ~NeedsRollback(RecordAt(mws, last))
  <2>1. pc' = "restart"
    BY <1>1, <1>6 DEF BootRollback
  <2>2. at' = "restart" /\ WorkThen' = work' /\ SpareThen' = spare'
    BY <2>1, OutOfJob DEF JobLabels
  <2>3. Holds'
    BY <1>1, <1>2, <2>2 DEF Holds, Assertion, Sync
  <2>4. ~InCall'
    BY <2>2 DEF InCall, Effective, InRecord, InReclaim, InFlush, FlushLabels,
         ReclaimLabels, RecordLabels
  <2> QED BY <1>1, <1>2, <1>3, <2>1, <2>3, <2>4, BootStepSafe DEF JobLabels
<1> QED BY <1>5, <1>6

(* InitializeFtwLite: a record with SPARE_COMPLETED is a committed write.    *)
LEMMA BootRestartSafe ==
  ASSUME Before, BootRestart
  PROVE  After
<1>1. /\ pc = "restart" /\ at = pc /\ st = "ok" /\ CallerOK
      /\ Valid(work) /\ Sync(work)
  BY AtLabel DEF BootRestart, JobLabels, Assertion
<1>2. /\ st' = "ok" /\ work' = work /\ spare' = spare /\ last' = last /\ mws' = mws
      /\ UNCHANGED <<flash, req>>
  BY <1>1 DEF BootRestart, flash, caller
<1>3. ~InCall /\ retW # "restore"
  BY <1>1 DEF CallerOK, InCall, Effective, InRecord, InReclaim, InFlush, FlushLabels,
       ReclaimLabels, RecordLabels
<1>4. NeedsRestart(RecordAt(mws, last)) = InProgress(work.ws)
  BY <1>1 DEF Sync, InProgress, RecordAt
<1>5. CASE NeedsRestart(RecordAt(mws, last))
  <2>1. \/ pc' = "record_spare" /\ retW' = "restarted"
        \/ pc' = "dead" /\ retW' = retW
    BY <1>5 DEF BootRestart
  <2>2. at' = pc' /\ WorkThen' = work' /\ SpareThen' = spare'
    BY <2>1, OutOfJob DEF JobLabels
  <2>3. Committed(work)
    BY <1>1, <1>4, <1>5 DEF Committed
  <2>4. Holds'
    BY <1>1, <1>2, <2>1, <2>2, <2>3 DEF Holds, Assertion, Sync, Committed
  <2>5. ~InCall'
    BY <2>1, <2>2 DEF InCall, Effective, InRecord, InReclaim, InFlush, FlushLabels,
         ReclaimLabels, RecordLabels
  <2> QED BY <1>1, <1>2, <1>3, <2>1, <2>4, <2>5, BootStepSafe DEF JobLabels
<1>6. CASE ~NeedsRestart(RecordAt(mws, last))
  <2>1. pc' = "dirty" /\ retW' = retW
    BY <1>6 DEF BootRestart
  <2>2. at' = "dirty" /\ WorkThen' = work' /\ SpareThen' = spare'
    BY <2>1, OutOfJob DEF JobLabels
  <2>3. Settled(work)
    BY <1>1, <1>4, <1>6 DEF Settled
  <2>4. Holds'
    BY <1>1, <1>2, <2>2, <2>3 DEF Holds, Assertion, Sync, Settled
  <2>5. ~InCall'
    BY <2>2 DEF InCall, Effective, InRecord, InReclaim, InFlush, FlushLabels,
         ReclaimLabels, RecordLabels
  <2> QED BY <1>1, <1>2, <1>3, <2>1, <2>4, <2>5, BootStepSafe DEF JobLabels
<1> QED BY <1>5, <1>6

(* FtwRestart: the write is completed, the spare block can go.               *)
LEMMA BootRestartedSafe ==
  ASSUME Before, BootRestarted
  PROVE  After
<1>1. /\ pc = "restarted" /\ at = pc /\ st = "ok" /\ CallerOK
      /\ Settled(work) /\ mws.recs = work.ws.recs /\ last + 1 = GetLastRecord(work.ws)
  BY AtLabel DEF BootRestarted, JobLabels, Assertion
<1>2. /\ last' = last + 1 /\ mws' = mws /\ retW' = "none"
      /\ StartJob("spare", ErasedImage, TRUE, "dirty")
      /\ UNCHANGED <<flash, st, req>>
  BY DEF BootRestarted, FtwEraseSpareBlock, caller
<1>3. work' = work
  BY <1>2 DEF flash
<1>4. at' = "dirty" /\ WorkThen' = work' /\ SpareThen' = ErasedImage /\ JobOK'
  BY <1>1, <1>2, <1>3, SpareJob DEF JobLabels
<1>5. Holds'
  BY <1>1, <1>2, <1>3, <1>4 DEF Holds, Assertion, Sync, Settled
<1>6. CallerOK'
  BY <1>1, <1>2, <1>4 DEF CallerOK, InCall, Effective, InRecord, InReclaim, InFlush,
       FlushLabels, ReclaimLabels, RecordLabels
<1> QED BY <1>1, <1>2, <1>4, <1>5, <1>6, FlashKept DEF After, Safe

(* InitializeFtwLite: the journal is never dirty.                            *)
LEMMA BootDirtySafe ==
  ASSUME Before, BootDirty
  PROVE  After
<1>1. /\ pc = "dirty" /\ at = pc /\ st = "ok" /\ CallerOK
      /\ Recoverable(work, spare) /\ Settled(work) /\ Sync(work)
  BY AtLabel DEF BootDirty, JobLabels, Assertion
<1>2. ~Dirty(mws, last)
  BY <1>1 DEF Recoverable, Tidy, Sync, Dirty
<1>3. /\ pc' = "booted" /\ st' = "ok" /\ work' = work /\ spare' = spare
      /\ UNCHANGED <<flash, req, retW>>
  BY <1>2 DEF BootDirty, Return, flash, caller
<1>4. ~InCall /\ retW # "restore"
  BY <1>1 DEF CallerOK, InCall, Effective, InRecord, InReclaim, InFlush, FlushLabels,
       ReclaimLabels, RecordLabels
<1>5. at' = "booted" /\ WorkThen' = work' /\ SpareThen' = spare'
  BY <1>3, OutOfJob DEF JobLabels
<1>6. Holds'
  BY <1>1, <1>3, <1>5 DEF Holds, Assertion, Settled
<1>7. ~InCall'
  BY <1>5 DEF InCall, Effective, InRecord, InReclaim, InFlush, FlushLabels,
       ReclaimLabels, RecordLabels
<1> QED BY <1>1, <1>3, <1>4, <1>6, <1>7, BootStepSafe DEF JobLabels

(* InitializeFtwLite returns, or resets the machine.                         *)
LEMMA BootDoneSafe ==
  ASSUME Before, BootDone
  PROVE  After
<1>1. /\ pc = "booted" /\ at = pc /\ st = "ok" /\ CallerOK /\ Settled(work)
  BY AtLabel DEF BootDone, JobLabels, Assertion
<1>2. /\ pc' \in {"boot", "idle"} /\ st' = "ok" /\ work' = work /\ spare' = spare
      /\ UNCHANGED <<flash, req, retW>>
  BY <1>1 DEF BootDone, flash, caller, rets
<1>3. ~InCall /\ retW # "restore"
  BY <1>1 DEF CallerOK, InCall, Effective, InRecord, InReclaim, InFlush, FlushLabels,
       ReclaimLabels, RecordLabels
<1>4. at' = pc' /\ WorkThen' = work' /\ SpareThen' = spare'
  BY <1>2, OutOfJob DEF JobLabels
<1>5. Holds'
  BY <1>1, <1>2, <1>4 DEF Holds, Assertion, Settled
<1>6. ~InCall'
  BY <1>2, <1>4 DEF InCall, Effective, InRecord, InReclaim, InFlush, FlushLabels,
       ReclaimLabels, RecordLabels
<1> QED BY <1>1, <1>2, <1>3, <1>5, <1>6, BootStepSafe DEF JobLabels

-----------------------------------------------------------------------------
(* The invariant.                                                            *)

(* A new machine has a whole store.                                          *)
LEMMA InitSafe == Init => Safe
<1> SUFFICES ASSUME Init PROVE Safe
  OBVIOUS
<1>1. /\ pc = "boot" /\ st = "ok" /\ req = NoRequest /\ retW = "none"
      /\ spare = ErasedImage
      /\ \E w \in {ErasedWs, InitHeader(ErasedWs)} :
           work = [data |-> [b \in Data |-> Initial], healthy |-> TRUE, ws |-> w]
  BY DEF Init
<1>2. at = "boot" /\ JobOK
  BY <1>1 DEF at, JobOK, JobLabels
<1>3. Holds
  BY <1>2 DEF Holds, Assertion
<1>4. CallerOK
  BY <1>1, <1>2 DEF CallerOK, InCall, Effective, InRecord, InReclaim, InFlush,
       FlushLabels, ReclaimLabels, RecordLabels
<1>5. work.ws.recs = EmptyRecords /\ Whole(work) /\ ~Valid(spare)
  <2>1. PICK w \in {ErasedWs, InitHeader(ErasedWs)} :
          work = [data |-> [b \in Data |-> Initial], healthy |-> TRUE, ws |-> w]
    BY <1>1
  <2>2. w.recs = EmptyRecords
    <3>1. ErasedWs.recs = EmptyRecords
      BY DEF ErasedWs
    <3>2. InitHeader(ErasedWs).recs = ErasedWs.recs
      BY ConstantTypes DEF InitHeader, WorkSpace
    <3> QED BY <3>1, <3>2
  <2>3. work.ws = w /\ \A b \in Data : work.data[b] = Initial
    BY <2>1
  <2>4. ~Valid(spare)
    BY <1>1 DEF Valid, IsValidWorkSpace, ErasedImage, ErasedWs
  <2> QED BY <2>2, <2>3, <2>4, FtwAssumption DEF Whole
<1>6. ~InProgress(work.ws) /\ Tidy(work.ws)
  BY <1>5, EmptyLast
<1>7. Recoverable(work, spare)
  BY <1>5, <1>6 DEF Recoverable, Settled, Committed
<1> QED BY <1>1, <1>2, <1>3, <1>4, <1>7 DEF Safe

(* All actions together.                                                     *)
LEMMA SafeStep ==
  ASSUME Before, Next
  PROVE  Safe'
<1>1. CASE Write
  BY <1>1, WriteCallSafe DEF After
<1>2. CASE Crash
  BY <1>2, CrashSafe DEF After
<1>3. CASE EraseStep \/ WriteStep
  BY <1>3, EraseSafe, WriteSafe DEF After
<1>4. CASE ReclaimStart \/ ReclaimFlush \/ ReclaimRestore
  BY <1>4, ReclaimStartSafe, ReclaimFlushSafe, ReclaimRestoreSafe DEF After
<1>5. CASE FlushSetSpareValid \/ FlushCopy \/ FlushSetHealthy \/ FlushSetValid
  BY <1>5, FlushSetSpareValidSafe, FlushCopySafe, FlushSetHealthySafe,
     FlushSetValidSafe DEF After
<1>6. CASE WriteRecordSpare \/ WriteRecordDone \/ AbortMark
  BY <1>6, WriteRecordSpareSafe, WriteRecordDoneSafe, AbortMarkSafe DEF After
<1>7. CASE WriteAllocate \/ WriteBody \/ WriteSpare \/ WriteMark \/ WriteRestore \/ WriteEnd
  BY <1>7, WriteAllocateSafe, WriteBodySafe, WriteSpareSafe, WriteMarkSafe,
     WriteRestoreSafe, WriteEndSafe DEF After
<1>8. CASE BootRefresh \/ BootValidate \/ BootAbort \/ BootRefreshAgain \/ BootRollback
  BY <1>8, BootRefreshSafe, BootValidateSafe, BootAbortSafe, BootRefreshAgainSafe,
     BootRollbackSafe DEF After
<1>9. CASE BootRestart \/ BootRestarted \/ BootDirty \/ BootDone
  BY <1>9, BootRestartSafe, BootRestartedSafe, BootDirtySafe, BootDoneSafe DEF After
<1> QED
  BY <1>1, <1>2, <1>3, <1>4, <1>5, <1>6, <1>7, <1>8, <1>9, NoneReports DEF Next, Driver

(* An access that has failed is never forgotten.                             *)
LEMMA FaultsGrow ==
  ASSUME TypeInv, [Next]_vars, faults' = 0
  PROVE  faults = 0
<1>1. faults \in Nat
  BY FtwAssumption DEF TypeInv, TypeOK
<1>2. (\A kind : ~Fault(kind)) /\ (\A cleared : ~UpdateFails(cleared))
  BY <1>1 DEF UpdateFails, Fault, MaxTry
<1>3. CASE EraseStep \/ EraseReports \/ WriteStep \/ WriteReports
  BY <1>1, <1>2, <1>3 DEF EraseStep, EraseReports, WriteStep, WriteReports, NoFault
<1>4. CASE FlushSetSpareValid \/ FlushCopy \/ FlushSetHealthy \/ FlushSetValid
  BY <1>1, <1>2, <1>4
     DEF FlushSetSpareValid, FlushCopy, FlushSetHealthy, FlushSetValid, NoFault
<1>5. CASE WriteRecordSpare \/ WriteRecordDone \/ AbortMark
  BY <1>1, <1>2, <1>5 DEF WriteRecordSpare, WriteRecordDone, AbortMark, NoFault
<1>6. CASE WriteAllocate \/ WriteBody \/ WriteMark
  BY <1>1, <1>2, <1>6 DEF WriteAllocate, WriteBody, WriteMark, NoFault
<1>7. CASE ReclaimStart \/ ReclaimFlush \/ ReclaimRestore \/ WriteSpare \/ WriteRestore
           \/ WriteEnd
  BY <1>7 DEF ReclaimStart, ReclaimFlush, ReclaimRestore, WriteSpare, WriteRestore,
              WriteEnd, bounds
<1>8. CASE BootRefresh \/ BootValidate \/ BootAbort \/ BootRefreshAgain \/ BootRollback
           \/ BootRestart \/ BootRestarted \/ BootDirty \/ BootDone \/ BootAsserts
  BY <1>8 DEF BootRefresh, BootValidate, BootAbort, BootRefreshAgain, BootRollback,
              BootRestart, BootRestarted, BootDirty, BootDone, BootAsserts, bounds
<1>9. CASE Write \/ Crash \/ UNCHANGED vars
  BY <1>9 DEF Write, Crash, vars
<1> QED BY <1>3, <1>4, <1>5, <1>6, <1>7, <1>8, <1>9 DEF Next, Driver

(* Safe lasts as long as no access fails.                                    *)
LEMMA SafeInvStep == TypeInv /\ TypeInv' /\ SafeInv /\ [Next]_vars => SafeInv'
<1> SUFFICES ASSUME TypeInv, TypeInv', SafeInv, [Next]_vars, Reliable' PROVE Safe'
  BY DEF SafeInv
<1>1. Reliable /\ Safe
  BY FaultsGrow DEF Reliable, SafeInv
<1>2. CASE Next
  BY <1>1, <1>2, SafeStep DEF Before
<1>3. CASE UNCHANGED vars
  BY <1>1, <1>3, RecoveredIs
     DEF vars, Safe, JobOK, Holds, CallerOK, InCall, Effective, InRecord, InReclaim,
         InFlush, at, WorkThen, SpareThen, Target, Assertion, Sync, Idle, Emptied,
         Unused, FlushSource, FlushReplaces, Flushed, Settled, Committed
<1> QED BY <1>2, <1>3

(* At every moment, as long as flash works, the labels of the driver and the *)
(* contents of flash are related as FtwLiteInv says.                         *)
THEOREM SafeCorrect == Spec => []SafeInv
<1>1. Init => SafeInv
  BY InitSafe DEF SafeInv
<1> QED BY <1>1, SafeInvStep, TypeCorrect, PTL DEF Spec

(* As long as flash works and an erase is not cut in two, no loss of power   *)
(* ever leaves the next boot of InitializeFtwLite without a whole store.     *)
THEOREM StoreSurvives == Spec => [](Reliable => StoreNeverLost)
<1>1. SafeInv => (Reliable => StoreNeverLost)
  <2> SUFFICES ASSUME Safe PROVE StoreNeverLost
    BY DEF SafeInv
  <2>1. Recoverable(work, spare)
    BY DEF Safe
  <2>2. \/ Recovered = spare.data /\ Whole(spare)
        \/ Recovered = work.data /\ Whole(work)
    <3>1. CASE Settled(work)
      BY <2>1, <3>1, RecoverableSettled, RecoveredIs DEF Recoverable
    <3>2. CASE Committed(work) \/ (~Valid(work) /\ Valid(spare))
      <4>1. Whole(spare)
        BY <2>1, <3>2 DEF Recoverable
      <4>2. RecoveredFrom(work, spare) = spare.data
        BY <3>2 DEF RecoveredFrom
      <4> QED BY <4>1, <4>2, RecoveredIs
    <3>3. CASE ~Valid(work) /\ ~Valid(spare)
      BY <2>1, <3>3, RecoverableBlank, RecoveredIs DEF Recoverable
    <3> QED BY <3>1, <3>2, <3>3 DEF Settled, Committed
  <2> QED BY <2>2 DEF StoreNeverLost, Whole
<1> QED BY <1>1, SafeCorrect, PTL

(* ... and the records of the journal are completed in order.                *)
THEOREM JournalInOrder == Spec => [](Reliable => JournalOrdered)
<1>1. SafeInv => (Reliable => JournalOrdered)
  BY DEF SafeInv, Safe, Recoverable, Tidy, JournalOrdered
<1> QED BY <1>1, SafeCorrect, PTL

-----------------------------------------------------------------------------
(* The driver implements AtomicStore.                                        *)

(* The steps that AtomicStore does not see.                                  *)
LEMMA Stutters ==
  ASSUME After, UNCHANGED caller, retW' = "restore" <=> retW = "restore"
  PROVE  UNCHANGED Store!vars
<1>1. (retW' = "restore") = (retW = "restore")
  OBVIOUS
<1> QED BY <1>1 DEF After, caller, Store!vars

(* Jobs, reclaims, flushes and records: the store and the caller see         *)
(* nothing.                                                                  *)
LEMMA InternalStutters ==
  ASSUME Before,
         \/ EraseStep \/ WriteStep
         \/ ReclaimStart \/ ReclaimFlush \/ ReclaimRestore
         \/ FlushSetSpareValid \/ FlushCopy \/ FlushSetHealthy \/ FlushSetValid
         \/ WriteRecordSpare \/ WriteRecordDone \/ AbortMark
         \/ WriteSpare \/ WriteRestore
  PROVE  UNCHANGED Store!vars
<1>1. After
  BY EraseSafe, WriteSafe, ReclaimStartSafe, ReclaimFlushSafe, ReclaimRestoreSafe,
     FlushSetSpareValidSafe, FlushCopySafe, FlushSetHealthySafe, FlushSetValidSafe,
     WriteRecordSpareSafe, WriteRecordDoneSafe, AbortMarkSafe, WriteSpareSafe,
     WriteRestoreSafe
<1>2. UNCHANGED <<caller, retW>>
  <2>1. CASE EraseStep \/ WriteStep
    BY <2>1 DEF EraseStep, WriteStep, rets
  <2>2. CASE ReclaimStart \/ ReclaimFlush \/ ReclaimRestore
    BY <2>2 DEF ReclaimStart, ReclaimFlush, ReclaimRestore, rets
  <2>3. CASE FlushSetSpareValid \/ FlushCopy \/ FlushSetHealthy \/ FlushSetValid
    BY <2>3 DEF FlushSetSpareValid, FlushCopy, FlushSetHealthy, FlushSetValid, rets
  <2>4. CASE WriteRecordSpare \/ WriteRecordDone \/ AbortMark
    BY <2>4 DEF WriteRecordSpare, WriteRecordDone, AbortMark, rets
  <2>5. CASE WriteSpare \/ WriteRestore
    BY <2>5 DEF WriteSpare, WriteRestore, rets
  <2> QED BY <2>1, <2>2, <2>3, <2>4, <2>5
<1> QED BY <1>1, <1>2, Stutters

(* The boot: nobody waits for a reply, and the store is as it was.           *)
LEMMA BootStutters ==
  ASSUME Before,
         \/ BootRefresh \/ BootValidate \/ BootAbort \/ BootRefreshAgain
         \/ BootRollback \/ BootRestart \/ BootRestarted \/ BootDirty \/ BootDone
  PROVE  UNCHANGED Store!vars
<1>1. After
  BY BootRefreshSafe, BootValidateSafe, BootAbortSafe, BootRefreshAgainSafe,
     BootRollbackSafe, BootRestartSafe, BootRestartedSafe, BootDirtySafe, BootDoneSafe
<1>2. UNCHANGED caller
  BY DEF BootRefresh, BootValidate, BootAbort, BootRefreshAgain, BootRollback,
         BootRestart, BootRestarted, BootDirty, BootDone
<1>3. /\ pc \notin JobLabels
      /\ pc \in {"boot", "validate", "recovered", "refresh", "rollback", "restart",
                 "restarted", "dirty", "booted"}
  BY DEF BootRefresh, BootValidate, BootAbort, BootRefreshAgain, BootRollback,
         BootRestart, BootRestarted, BootDirty, BootDone, JobLabels
<1>4. retW # "restore"
  BY <1>3, AtLabel DEF CallerOK, InCall, Effective, InRecord, InReclaim, InFlush,
       FlushLabels, ReclaimLabels, RecordLabels
<1>5. retW' \in {retW, "restarted", "none"}
  BY DEF BootRefresh, BootValidate, BootAbort, BootRefreshAgain, BootRollback,
         BootRestart, BootRestarted, BootDirty, BootDone, rets
<1> QED BY <1>1, <1>2, <1>4, <1>5, Stutters

(* A call of CommonFtwWrite is Ask.                                          *)
LEMMA CallImplements ==
  ASSUME Before, Write
  PROVE  Store!Ask
<1>1. After /\ pc = "idle" /\ req' \in Requests /\ reply' = "none" /\ retW' = retW
  BY WriteCallSafe DEF Write
<1>2. req = NoRequest
  BY <1>1, AtLabel DEF CallerOK, InCall, Effective, InRecord, InReclaim, InFlush,
       FlushLabels, ReclaimLabels, RecordLabels, JobLabels
<1> QED BY <1>1, <1>2 DEF After, Store!Ask, Store!Requests, Requests

(* A call that returns before SPARE_COMPLETED is set has no effect.          *)
LEMMA ReturnImplements ==
  ASSUME Before, After, pc \in {"check", "body"},
         NEW status \in {"aborted", "denied"}, WriteReturns(status)
  PROVE  Store!Fail
<1>1. req # NoRequest /\ retW # "restore"
  BY AtLabel DEF CallerOK, InCall, Effective, InRecord, InReclaim, InFlush,
       FlushLabels, ReclaimLabels, RecordLabels, JobLabels
<1>2. req' = NoRequest /\ reply' = status /\ retW' = "none"
  BY DEF WriteReturns
<1> QED BY <1>1, <1>2 DEF After, Store!Fail

(* The steps of CommonFtwWrite are Fail, Commit, Succeed, or invisible.      *)
LEMMA WriteImplements ==
  ASSUME Before, WriteAllocate \/ WriteBody \/ WriteMark \/ WriteEnd
  PROVE  Store!Next \/ UNCHANGED Store!vars
<1>1. CASE WriteAllocate
  <2>1. After /\ pc = "check"
    BY <1>1, WriteAllocateSafe DEF WriteAllocate
  <2>2. \/ \E status \in {"aborted", "denied"} : WriteReturns(status)
        \/ UNCHANGED <<req, reply, retW>>
    BY <1>1 DEF WriteAllocate
  <2> QED BY <2>1, <2>2, ReturnImplements, Stutters DEF Store!Next, caller
<1>2. CASE WriteBody
  <2>1. After /\ pc = "body"
    BY <1>2, WriteBodySafe DEF WriteBody
  <2>2. \/ \E status \in {"aborted", "denied"} : WriteReturns(status)
        \/ UNCHANGED <<req, reply, retW>>
    BY <1>2 DEF WriteBody
  <2> QED BY <2>1, <2>2, ReturnImplements, Stutters DEF Store!Next, caller
<1>3. CASE WriteMark
  <2>1. /\ Recovered' = Overlay(Recovered, req) /\ UNCHANGED <<req, reply>>
        /\ req # NoRequest /\ retW # "restore" /\ retW' = "restore"
    BY <1>3, WriteMarkSafe
  <2>2. Store!Commit
    BY <2>1 DEF Store!Commit, Store!Overlay, Overlay
  <2> QED BY <2>2 DEF Store!Next
<1>4. CASE WriteEnd
  <2>1. After /\ req # NoRequest /\ retW = "restore" /\ reply' = "success"
    BY <1>4, WriteEndSafe
  <2>2. req' = NoRequest /\ retW' = "none"
    BY <1>4 DEF WriteEnd, WriteReturns
  <2>3. Store!Succeed
    BY <2>1, <2>2 DEF After, Store!Succeed
  <2> QED BY <2>3 DEF Store!Next
<1> QED BY <1>1, <1>2, <1>3, <1>4

(* A loss of power is PowerLoss: the store is the old one or the new one.    *)
LEMMA CrashImplements ==
  ASSUME Before, Crash
  PROVE  Store!PowerLoss
<1>1. After /\ req' = NoRequest /\ reply' = "none" /\ retW' = "none"
  BY CrashSafe DEF Crash
<1> QED BY <1>1 DEF After, Store!PowerLoss

(* Every step of the driver is a step of AtomicStore, or invisible to it.    *)
LEMMA StepImplements ==
  ASSUME Before, [Next]_vars
  PROVE  [Store!Next]_(Store!vars)
<1>1. CASE Write \/ Crash
  BY <1>1, CallImplements, CrashImplements DEF Store!Next
<1>2. CASE WriteAllocate \/ WriteBody \/ WriteMark \/ WriteEnd
  BY <1>2, WriteImplements
<1>3. CASE \/ EraseStep \/ WriteStep
           \/ ReclaimStart \/ ReclaimFlush \/ ReclaimRestore
           \/ FlushSetSpareValid \/ FlushCopy \/ FlushSetHealthy \/ FlushSetValid
           \/ WriteRecordSpare \/ WriteRecordDone \/ AbortMark
           \/ WriteSpare \/ WriteRestore
  BY <1>3, InternalStutters
<1>4. CASE \/ BootRefresh \/ BootValidate \/ BootAbort \/ BootRefreshAgain
           \/ BootRollback \/ BootRestart \/ BootRestarted \/ BootDirty \/ BootDone
  BY <1>4, BootStutters
<1>5. CASE UNCHANGED vars
  BY <1>5, RecoveredIs DEF vars, Store!vars
<1> QED BY <1>1, <1>2, <1>3, <1>4, <1>5, NoneReports DEF Next, Driver

(* A new machine holds the initial store.                                    *)
LEMMA InitImplements == Init => Store!Init
<1> SUFFICES ASSUME Init PROVE Store!Init
  OBVIOUS
<1>1. Safe
  BY InitSafe
<1>2. Recovered = work.data
  <2>1. work.ws.recs = EmptyRecords /\ ~Valid(spare)
    <3>1. PICK w \in {ErasedWs, InitHeader(ErasedWs)} :
            work = [data |-> [b \in Data |-> Initial], healthy |-> TRUE, ws |-> w]
      BY DEF Init
    <3>2. ErasedWs.recs = EmptyRecords /\ ~ErasedWs.valid
      BY DEF ErasedWs
    <3>3. InitHeader(ErasedWs).recs = ErasedWs.recs
      BY ConstantTypes DEF InitHeader, WorkSpace
    <3>4. spare.ws = ErasedWs
      BY DEF Init, ErasedImage
    <3> QED BY <3>1, <3>2, <3>3, <3>4 DEF Valid, IsValidWorkSpace
  <2>2. ~InProgress(work.ws)
    BY <2>1, EmptyLast
  <2> QED BY <2>1, <2>2, RecoveredIs DEF RecoveredFrom, Committed
<1>3. work.data = [b \in Data |-> Initial]
  BY DEF Init
<1>4. req = NoRequest /\ reply = "none" /\ retW # "restore"
  BY DEF Init
<1> QED BY <1>2, <1>3, <1>4 DEF Store!Init

(* CommonFtwWrite: "either the original contents or the modified contents    *)
(* are available".  As long as flash works and an erase is not cut in two, a *)
(* write takes effect in one step or not at all, whenever power is lost.     *)
THEOREM WritesAreAtomic == Spec /\ []Reliable => ImplementsStore
<1>1. /\ TypeInv /\ TypeInv' /\ SafeInv /\ Reliable /\ Reliable' /\ [Next]_vars
      => [Store!Next]_(Store!vars)
  BY StepImplements DEF Before, SafeInv
<1> QED BY <1>1, InitImplements, TypeCorrect, SafeCorrect, PTL
        DEF Spec, ImplementsStore, Store!Spec

-----------------------------------------------------------------------------
(* Records and marks.                                                        *)

(* The order of the flags depends on the records alone.                      *)
LEMMA OrderSame ==
  ASSUME NEW a, NEW b, a.recs = b.recs, InOrder(a)
  PROVE  InOrder(b)
BY DEF InOrder

(* Blank records are in order.                                               *)
LEMMA OrderEmpty ==
  ASSUME NEW ws, ws.recs = EmptyRecords
  PROVE  InOrder(ws)
BY DEF InOrder, EmptyRecords

(* What is left of a work space that was torn is in order.                   *)
LEMMA OrderTruncated ==
  ASSUME NEW ws, InOrder(ws), NEW short, NEW k, short.recs = Truncated(ws.recs, k)
  PROVE  InOrder(short)
<1>1. \A r \in Records : short.recs[r] = {} \/ short.recs[r] = ws.recs[r]
  BY DEF Truncated
<1> QED BY <1>1 DEF InOrder

(* A bit of a record that has been allocated, or the one that allocates or   *)
(* completes it.                                                             *)
LEMMA OrderSetBit ==
  ASSUME NEW ws \in WorkSpace, InOrder(ws), NEW l \in Records, NEW bit,
         bit \in {"alloc", "done"} \/ "alloc" \in ws.recs[l]
  PROVE  InOrder(SetBit(ws, l, bit))
<1> DEFINE new == SetBit(ws, l, bit)
<1>1. /\ new.recs[l] = ws.recs[l] \cup {bit}
      /\ \A r \in Records \ {l} : new.recs[r] = ws.recs[r]
  BY SetBitRecs
<1> HIDE DEF new
<1>2. "alloc" \in new.recs[l] \/ "done" \in new.recs[l]
  BY <1>1
<1>3. InOrder(new)
  BY <1>1, <1>2 DEF InOrder
<1> QED BY <1>3 DEF new

(* The last record has been allocated, if anything is in it.                 *)
LEMMA OrderLast ==
  ASSUME NEW ws, InOrder(ws)
  PROVE  Current(ws) = {} \/ "alloc" \in Current(ws)
<1>1. GetLastRecord(ws) \in Records => "done" \notin ws.recs[GetLastRecord(ws)]
  BY GetLastRecordType
<1> QED BY <1>1 DEF InOrder, Current, RecordAt

(* Behind a record that is completed the next one is free.                   *)
LEMMA NextIsFree ==
  ASSUME NEW ws \in WorkSpace, Tidy(ws), GetLastRecord(ws) \in Records
  PROVE  Current(SetBit(ws, GetLastRecord(ws), "done")) = {}
<1> DEFINE l == GetLastRecord(ws)
           new == SetBit(ws, l, "done")
<1>1. GetLastRecord(new) = l + 1
  BY SetDone
<1>2. \A r \in Records \ {l} : new.recs[r] = ws.recs[r]
  BY SetBitRecs
<1>3. \A r \in Records : r > l => ws.recs[r] = {}
  BY DEF Tidy, Dirty
<1>4. l \in Records /\ l + 1 > l /\ l + 1 # l
  BY DEF Records
<1> HIDE DEF l, new
<1>5. l + 1 \in Records => new.recs[l + 1] = {}
  BY <1>2, <1>3, <1>4
<1>6. Current(new) = {}
  BY <1>1, <1>5 DEF Current, RecordAt
<1> QED BY <1>6 DEF l, new

(* Nothing of the spare block matters while it may be overwritten.           *)
LEMMA MarkedSpare ==
  ASSUME NEW w, NEW s, NEW s2, Marked(w, s),
         Settled(w) \/ (~Valid(w) /\ ~Valid(s) /\ ~Valid(s2))
  PROVE  Marked(w, s2)
BY DEF Marked, Settled, Committed

(* Nothing of the working block matters while the spare block is recovered,  *)
(* if the mark has been taken away.                                          *)
LEMMA MarkedWork ==
  ASSUME NEW w, NEW s, Valid(s), s.healthy, ~Valid(w), ~w.healthy
  PROVE  Marked(w, s)
BY DEF Marked, Committed

(* Changes of the work space that leave it as valid as it was, and nothing   *)
(* more in progress.                                                         *)
LEMMA MarkedSame ==
  ASSUME NEW w, NEW s, NEW w2, NEW s2, Marked(w, s),
         w2.data = w.data, w2.healthy = w.healthy, Valid(w2) = Valid(w),
         s2.healthy = s.healthy, Valid(s2) = Valid(s),
         Committed(w2) => Committed(w) \/ s2.healthy
  PROVE  Marked(w2, s2)
BY DEF Marked, Whole

(* ErasedImage.                                                              *)
LEMMA ErasedIs ==
  /\ ErasedImage \in Image /\ ~Valid(ErasedImage) /\ ~ErasedImage.healthy
  /\ ErasedImage.ws.recs = EmptyRecords /\ InOrder(ErasedImage.ws)
<1>1. ErasedImage.ws = ErasedWs /\ ~ErasedImage.healthy
  BY DEF ErasedImage
<1>2. ErasedWs.recs = EmptyRecords /\ ~ErasedWs.valid
  BY DEF ErasedWs
<1> QED BY <1>1, <1>2, OrderEmpty, ConstantTypes DEF Valid, IsValidWorkSpace

-----------------------------------------------------------------------------
(* Jobs.                                                                     *)

(* What is known of the state before a step.                                 *)
Ready == Before /\ Clean

(* The types and the flags that every step needs.                            *)
LEMMA ReadyTypes ==
  ASSUME Ready
  PROVE  /\ work \in Image /\ spare \in Image /\ saved \in Image
         /\ work.ws \in WorkSpace /\ spare.ws \in WorkSpace
         /\ mws \in WorkSpace /\ last \in 1 .. Slots + 1
         /\ InOrder(work.ws) /\ InOrder(spare.ws) /\ InOrder(saved.ws)
         /\ LastRecordAt(at, work.ws) /\ Marked(work, spare)
BY DEF Ready, Before, TypeInv, TypeOK, Image, Clean, Tended, JournalsOK, MarkOK

(* A job in progress.                                                        *)
LEMMA ReadyJob ==
  ASSUME Ready, pc \in JobLabels
  PROVE  /\ job \in Job /\ job.buf \in Image /\ job.dst \in {"work", "spare"}
         /\ job.idx \in AllBlocks /\ job.ret \notin JobLabels /\ at = job.ret
         /\ InOrder(job.buf.ws)
         /\ SpareThen = IF job.dst = "spare" THEN job.buf ELSE spare
<1>1. job \in Job /\ job.ret \notin JobLabels
  BY DEF Ready, Before, TypeInv, ControlOK
<1>2. at = job.ret /\ SpareThen = IF job.dst = "spare" THEN job.buf ELSE spare
  BY DEF at, SpareThen
<1> QED BY <1>1, <1>2 DEF Job, Ready, Clean, Tended, JournalsOK

(* While the working block is replaced, the spare block is recovered.        *)
LEMMA WorkJobKnown ==
  ASSUME Ready, pc \in JobLabels, job.dst = "work"
  PROVE  /\ at = "flush_healthy" /\ job.buf = FlushBuffer(spare)
         /\ Valid(spare) /\ spare.healthy /\ wasHealthy
         /\ ~Valid(job.buf) /\ ~job.buf.healthy
<1>1. at = "flush_healthy"
  BY DEF Ready, Before, Safe, JobOK
<1>2. WorkThen = job.buf /\ SpareThen = spare
  BY DEF WorkThen, SpareThen
<1>3. /\ FlushSource(spare) /\ spare.ws.valid /\ job.buf = FlushBuffer(spare)
  BY <1>1, <1>2 DEF Ready, Before, Safe, Holds, Assertion
<1>4. Valid(spare)
  BY <1>3 DEF FlushSource, Valid, IsValidWorkSpace
<1>5. spare.healthy /\ wasHealthy
  BY <1>1, <1>2 DEF Ready, Clean, Tended, MarkOK, InFlush, FlushLabels
<1>6. ~FlushBuffer(spare).healthy /\ ~FlushBuffer(spare).ws.valid
  BY ReadyTypes, FlushBufferIs DEF FlushBuffer, Image
<1> QED BY <1>1, <1>3, <1>4, <1>5, <1>6 DEF Valid, IsValidWorkSpace

(* While the spare block is replaced, the working block is recovered.        *)
LEMMA SpareJobKnown ==
  ASSUME Ready, pc \in JobLabels, job.dst = "spare"
  PROVE  Settled(work) \/ (~Valid(work) /\ ~Valid(spare) /\ ~job.buf.ws.valid)
BY DEF Ready, Before, Safe, JobOK

(* A step of a job leaves an image that is as good, and goes on to the same  *)
(* label.                                                                    *)
LEMMA JobClean ==
  ASSUME Ready, pc \in JobLabels, NEW img, InOrder(img.ws),
         IF job.dst = "work" THEN work' = img /\ spare' = spare
                             ELSE spare' = img /\ work' = work,
         job.dst = "work" => ~Valid(img) /\ ~img.healthy,
         ~job.buf.ws.valid => ~Valid(img),
         at' = at, SpareThen' = SpareThen,
         pc' \in JobLabels => job'.buf = job.buf /\ job'.dst = job.dst,
         UNCHANGED <<saved, wasHealthy, retF>>
  PROVE  Tended'
<1>1. InOrder(work.ws) /\ InOrder(spare.ws) /\ InOrder(saved.ws) /\ InOrder(job.buf.ws)
  BY ReadyTypes, ReadyJob
<1>2. JournalsOK'
  BY <1>1 DEF JournalsOK
<1>3. CASE job.dst = "work"
  <2>1. /\ at = "flush_healthy" /\ Valid(spare) /\ spare.healthy /\ wasHealthy
    BY <1>3, WorkJobKnown
  <2>2. Marked(work', spare')
    BY <1>3, <2>1, MarkedWork
  <2>3. SpareThen.healthy
    BY <2>1 DEF MarkOK, InFlush, FlushLabels, Ready, Clean, Tended
  <2>4. ~work'.healthy /\ at' = "flush_healthy" /\ wasHealthy' /\ SpareThen'.healthy
    BY <1>3, <2>1, <2>3
  <2>5. MarkOK'
    BY <2>2, <2>4 DEF MarkOK
  <2>6. LastRecordAt(at', work'.ws)
    BY <2>1 DEF LastRecordAt, FreeLabels, OpenLabels
  <2> QED BY <1>2, <2>5, <2>6 DEF Tended
<1>4. CASE job.dst = "spare"
  <2>1. Settled(work) \/ (~Valid(work) /\ ~Valid(spare) /\ ~Valid(img))
    BY <1>4, SpareJobKnown
  <2>2. Marked(work', spare')
    BY <1>4, <2>1, ReadyTypes, MarkedSpare
  <2>3. MarkOK
    BY DEF Ready, Clean, Tended
  <2>4. /\ ~(pc' = "write" /\ job'.dst = "work") /\ work' = work
        /\ (InFlush)' = InFlush
    BY <1>4 DEF JobLabels, InFlush
  <2>5. MarkOK'
    BY <2>2, <2>3, <2>4 DEF MarkOK
  <2>6. LastRecordAt(at', work'.ws)
    BY <1>4, ReadyTypes
  <2> QED BY <1>2, <2>5, <2>6 DEF Tended
<1> QED BY <1>3, <1>4, ReadyJob

(* FtwEraseBlock.                                                            *)
LEMMA EraseClean ==
  ASSUME Ready, EraseStep
  PROVE  Tended'
<1>1. /\ pc = "erase" /\ job \in Job
      /\ IF job.dst = "work" THEN work' = ErasedImage /\ spare' = spare
                             ELSE spare' = ErasedImage /\ work' = work
      /\ IF job.eraseOnly
         THEN pc' = job.ret /\ st' = "ok" /\ job' = NoJob
         ELSE pc' = "write" /\ st' = st /\ job' = [job EXCEPT !.idx = 1, !.etry = 0]
      /\ UNCHANGED <<mws, last, recovering, caller, saved, wasHealthy, rets>>
  BY EraseErases DEF Ready
<1>2. /\ pc \in JobLabels /\ job.ret \notin JobLabels /\ at = job.ret
      /\ job.dst \in {"work", "spare"}
      /\ SpareThen = IF job.dst = "spare" THEN job.buf ELSE spare
  BY <1>1, ReadyJob DEF JobLabels
<1>3. job.eraseOnly => job.buf = ErasedImage /\ job.dst = "spare"
  <2>1. job.eraseOnly => job.buf = ErasedImage
    BY <1>2 DEF Ready, Before, Safe, JobOK
  <2>2. job.dst = "work" => job.buf = FlushBuffer(spare)
    BY <1>2, WorkJobKnown
  <2>3. FlushBuffer(spare).ws.sig /\ ~ErasedImage.ws.sig
    BY ReadyTypes, FlushBufferIs DEF ErasedImage, ErasedWs
  <2> QED BY <1>2, <2>1, <2>2, <2>3
<1>4. ~job.eraseOnly => job'.buf = job.buf /\ job'.dst = job.dst /\ job'.ret = job.ret
  BY <1>1 DEF Job
<1>5. at' = at /\ SpareThen' = SpareThen
      /\ (pc' \in JobLabels => job'.buf = job.buf /\ job'.dst = job.dst)
  BY <1>1, <1>2, <1>3, <1>4 DEF at, SpareThen, JobLabels
<1> QED BY <1>1, <1>2, <1>5, ErasedIs, JobClean DEF rets

(* What a block is written with comes from the buffer or was erased.         *)
LEMMA PutIs ==
  ASSUME Ready, pc = "write"
  PROVE  LET img == PutBlock(Target, job.buf, job.idx)
         IN /\ img.ws = ErasedWs \/ img.ws = job.buf.ws
            /\ job.dst = "work" => ~img.healthy
<1>1. /\ Target \in Image /\ Target.ws = ErasedWs
  BY DEF Ready, Before, TypeInv, TypeOK, Safe, JobOK, JobLabels, Target
<1>2. job.dst = "work" => ~Target.healthy
  BY DEF Ready, Clean, Tended, MarkOK, Target
<1>3. job.dst = "work" => ~job.buf.healthy
  BY WorkJobKnown DEF JobLabels
<1>4. CASE job.idx = WorkSpaceBlock
  BY <1>1, <1>2, <1>4 DEF PutBlock, Image
<1>5. CASE job.idx # WorkSpaceBlock
  BY <1>1, <1>2, <1>3, <1>5 DEF PutBlock, Image
<1> QED BY <1>4, <1>5

(* WriteTargetBlock.                                                         *)
LEMMA WriteClean ==
  ASSUME Ready, WriteStep
  PROVE  Tended'
<1> DEFINE img == PutBlock(Target, job.buf, job.idx)
<1>1. /\ pc = "write" /\ job \in Job /\ Target \in Image
      /\ IF job.dst = "work" THEN work' = img /\ spare' = spare
                             ELSE spare' = img /\ work' = work
      /\ IF job.idx = WorkSpaceBlock
         THEN img = job.buf /\ pc' = job.ret /\ st' = "ok" /\ job' = NoJob
         ELSE pc' = "write" /\ st' = st /\ job' = [job EXCEPT !.idx = @ + 1]
      /\ UNCHANGED <<mws, last, recovering, caller, saved, wasHealthy, rets>>
  BY WriteWrites DEF Ready
<1>2. /\ pc \in JobLabels /\ job.ret \notin JobLabels /\ at = job.ret
      /\ job.dst \in {"work", "spare"} /\ InOrder(job.buf.ws)
      /\ SpareThen = IF job.dst = "spare" THEN job.buf ELSE spare
  BY <1>1, ReadyJob DEF JobLabels
<1>3. /\ img.ws = ErasedWs \/ img.ws = job.buf.ws
      /\ job.dst = "work" => ~img.healthy
  BY <1>1, PutIs
<1> HIDE DEF img
<1>4. InOrder(img.ws)
  BY <1>2, <1>3, ErasedIs DEF ErasedImage
<1>5. ~job.buf.ws.valid => ~Valid(img)
  BY <1>3 DEF Valid, IsValidWorkSpace, ErasedWs
<1>6. job.dst = "work" => ~Valid(img) /\ ~img.healthy
  <2>1. job.dst = "work" => ~job.buf.ws.valid
    BY <1>2, WorkJobKnown, ReadyTypes, FlushBufferIs
  <2> QED BY <1>3, <1>5, <2>1
<1>7. job.idx # WorkSpaceBlock =>
        job'.buf = job.buf /\ job'.dst = job.dst /\ job'.ret = job.ret
  BY <1>1 DEF Job
<1>8. at' = at /\ SpareThen' = SpareThen
      /\ (pc' \in JobLabels => job'.buf = job.buf /\ job'.dst = job.dst)
  <2>1. CASE job.idx = WorkSpaceBlock
    BY <1>1, <1>2, <2>1 DEF at, SpareThen
  <2>2. CASE job.idx # WorkSpaceBlock
    BY <1>1, <1>2, <1>7, <2>2 DEF at, SpareThen, JobLabels
  <2> QED BY <2>1, <2>2
<1> QED BY <1>1, <1>2, <1>4, <1>5, <1>6, <1>8, JobClean DEF rets

-----------------------------------------------------------------------------
(* Power is lost.                                                            *)

(* A torn block is not marked unless the buffer was, and never behind the    *)
(* erase of the working block.                                               *)
LEMMA TornIs ==
  ASSUME Ready, pc = "write", NEW torn \in TornBlock(job.buf)
  PROVE  LET img == PutBlock(Target, torn, job.idx)
         IN /\ InOrder(img.ws)
            /\ ~job.buf.ws.valid => ~Valid(img)
            /\ job.dst = "work" => ~img.healthy
<1> DEFINE img == PutBlock(Target, torn, job.idx)
<1>1. /\ job.buf \in Image /\ job.buf.ws \in WorkSpace /\ InOrder(job.buf.ws)
  BY ReadyJob DEF JobLabels, Image
<1>2. \/ img.ws = ErasedWs
      \/ \E k \in 0 .. Slots :
           img.ws = [job.buf.ws EXCEPT !.recs = Truncated(job.buf.ws.recs, k)]
  BY TornWorkSpace DEF Ready
<1>3. job.dst = "work" => ~img.healthy
  <2>1. job.dst = "work" => ~Target.healthy /\ ~job.buf.healthy
    BY WorkJobKnown DEF Ready, Clean, Tended, MarkOK, Target, JobLabels
  <2>2. torn.healthy \in {FALSE, job.buf.healthy}
    <3> DEFINE W == {ErasedWs} \cup
                    {[job.buf.ws EXCEPT !.recs = [r \in Records |->
                       IF r =< k THEN job.buf.ws.recs[r] ELSE {}]] : k \in 0 .. Slots}
    <3>1. PICK h \in {FALSE, job.buf.healthy}, w \in W :
            torn = [data |-> [b \in Data |-> Torn], healthy |-> h, ws |-> w]
      BY DEF TornBlock
    <3> HIDE DEF W
    <3>2. torn.healthy = h
      BY <3>1
    <3> QED BY <3>2
  <2>3. Target \in Image
    BY DEF Ready, Before, TypeInv, TypeOK, Target
  <2>4. img.healthy \in {torn.healthy, Target.healthy}
    BY <2>3 DEF PutBlock, Image
  <2> QED BY <2>1, <2>2, <2>4
<1> HIDE DEF img
<1>4. \A k : /\ [job.buf.ws EXCEPT !.recs = Truncated(job.buf.ws.recs, k)].valid
                  = job.buf.ws.valid
             /\ [job.buf.ws EXCEPT !.recs = Truncated(job.buf.ws.recs, k)].recs
                  = Truncated(job.buf.ws.recs, k)
  BY <1>1 DEF WorkSpace
<1>5. ~job.buf.ws.valid => ~Valid(img)
  <2>1. ~ErasedWs.valid
    BY DEF ErasedWs
  <2>2. img.ws.valid => job.buf.ws.valid
    BY <1>2, <1>4, <2>1
  <2> QED BY <2>2 DEF Valid, IsValidWorkSpace
<1>6. InOrder(img.ws)
  <2>1. CASE img.ws = ErasedWs
    BY <2>1, ErasedIs DEF ErasedImage
  <2>2. ASSUME NEW k \in 0 .. Slots,
               img.ws = [job.buf.ws EXCEPT !.recs = Truncated(job.buf.ws.recs, k)]
        PROVE  InOrder(img.ws)
    BY <1>1, <1>4, <2>2, OrderTruncated
  <2> QED BY <1>2, <2>1, <2>2
<1> QED BY <1>3, <1>5, <1>6 DEF img

(* A loss of power, anywhere.                                                *)
LEMMA CrashClean ==
  ASSUME Ready, Crash
  PROVE  Tended'
<1>1. pc' = "boot" /\ saved' = ErasedImage /\ PowerLossTears
  BY DEF Crash
<1>2. at' = "boot"
  BY <1>1, OutOfJob DEF JobLabels
<1>3. InOrder(work'.ws) /\ InOrder(spare'.ws) /\ Marked(work', spare')
  <2>1. CASE UNCHANGED flash
    BY <2>1, ReadyTypes DEF flash
  <2>2. ASSUME pc = "write", NEW torn \in TornBlock(job.buf),
               SetTarget(PutBlock(Target, torn, job.idx))
        PROVE  InOrder(work'.ws) /\ InOrder(spare'.ws) /\ Marked(work', spare')
    <3> DEFINE img == PutBlock(Target, torn, job.idx)
    <3>1. /\ InOrder(img.ws) /\ (~job.buf.ws.valid => ~Valid(img))
          /\ job.dst = "work" => ~img.healthy
      BY <2>2, TornIs
    <3>2. IF job.dst = "work" THEN work' = img /\ spare' = spare
                              ELSE spare' = img /\ work' = work
      BY <2>2 DEF SetTarget
    <3> HIDE DEF img
    <3>3. pc \in JobLabels
      BY <2>2 DEF JobLabels
    <3>4. CASE job.dst = "work"
      <4>1. Valid(spare) /\ spare.healthy /\ ~job.buf.ws.valid
        BY <3>3, <3>4, WorkJobKnown, ReadyTypes, FlushBufferIs
      <4>2. Marked(work', spare')
        BY <3>1, <3>2, <3>4, <4>1, MarkedWork
      <4> QED BY <3>1, <3>2, <3>4, <4>2, ReadyTypes
    <3>5. CASE job.dst = "spare"
      <4>1. Settled(work) \/ (~Valid(work) /\ ~Valid(spare) /\ ~Valid(img))
        BY <3>1, <3>3, <3>5, SpareJobKnown
      <4>2. Marked(work', spare')
        BY <3>2, <3>5, <4>1, ReadyTypes, MarkedSpare
      <4> QED BY <3>1, <3>2, <3>5, <4>2, ReadyTypes
    <3> QED BY <3>3, <3>4, <3>5, ReadyJob
  <2> QED BY <1>1, <2>1, <2>2 DEF PowerLossTears
<1>4. JournalsOK'
  BY <1>1, <1>3, ErasedIs DEF JournalsOK, JobLabels
<1>5. MarkOK'
  BY <1>1, <1>2, <1>3 DEF MarkOK, InFlush, FlushLabels
<1>6. LastRecordAt(at', work'.ws)
  BY <1>2 DEF LastRecordAt, FreeLabels, OpenLabels
<1> QED BY <1>4, <1>5, <1>6 DEF Tended

-----------------------------------------------------------------------------
(* Steps between jobs.                                                       *)

(* A step that leaves flash alone, outside of a job.                         *)
LEMMA QuietClean ==
  ASSUME Ready, pc \notin JobLabels, pc' \notin JobLabels,
         UNCHANGED <<flash, saved>>,
         pc' \notin {"reclaim_flush", "flush_copy", "flush_healthy", "flush_valid"},
         pc' = "flush" => spare.healthy,
         LastRecordAt(pc', work.ws)
  PROVE  Tended'
<1>1. work' = work /\ spare' = spare /\ saved' = saved
  BY DEF flash
<1>2. at' = pc' /\ SpareThen' = spare
  BY <1>1, OutOfJob
<1>3. JournalsOK'
  BY <1>1, ReadyTypes DEF JournalsOK
<1>4. Marked(work', spare')
  BY <1>1, ReadyTypes
<1>5. MarkOK'
  BY <1>2, <1>4 DEF MarkOK, InFlush, FlushLabels, JobLabels
<1>6. LastRecordAt(at', work'.ws)
  BY <1>1, <1>2
<1> QED BY <1>3, <1>5, <1>6 DEF Tended

(* At a label, what is known of the last record and of the marks.            *)
LEMMA ReadyAt ==
  ASSUME Ready, pc \notin JobLabels
  PROVE  /\ at = pc /\ LastRecordAt(pc, work.ws)
         /\ pc \in FlushLabels \cup {"reclaim_flush"} => spare.healthy
         /\ pc = "flush_healthy" => wasHealthy
         /\ pc = "flush_valid" => work.healthy
<1>1. at = pc /\ SpareThen = spare
  BY DEF at, SpareThen
<1> QED BY <1>1 DEF Ready, Clean, Tended, MarkOK, InFlush

(* A job on the spare block starts.                                          *)
LEMMA SpareStartClean ==
  ASSUME Ready, NEW buf, NEW eraseOnly, NEW ret, ret \notin JobLabels \cup FlushLabels,
         StartJob("spare", buf, eraseOnly, ret),
         InOrder(buf.ws), ret = "reclaim_flush" => buf.healthy,
         UNCHANGED spare, saved' \in {saved, spare},
         InOrder(work'.ws), Marked(work', spare'), LastRecordAt(ret, work'.ws)
  PROVE  Tended'
<1>1. pc' = "erase" /\ job'.dst = "spare" /\ job'.buf = buf /\ job'.ret = ret
  BY DEF StartJob
<1>2. at' = ret /\ SpareThen' = buf
  BY <1>1 DEF at, SpareThen, JobLabels
<1>3. JournalsOK'
  BY <1>1, ReadyTypes DEF JournalsOK
<1>4. MarkOK'
  BY <1>1, <1>2 DEF MarkOK, InFlush, FlushLabels
<1> QED BY <1>2, <1>3, <1>4 DEF Tended

(* FtwReclaimWorkSpace: the copy is marked, like the working block.          *)
LEMMA ReclaimStartClean ==
  ASSUME Ready, ReclaimStart
  PROVE  Tended'
<1> DEFINE clean == CleanupWorkSpace(mws, last)
           buf == [work EXCEPT !.ws = [clean EXCEPT !.valid = FALSE, !.invalid = FALSE]]
<1>1. /\ pc = "reclaim" /\ saved' = spare
      /\ StartJob("spare", buf, FALSE, "reclaim_flush")
      /\ work' = work /\ spare' = spare
  BY DEF ReclaimStart, WriteTargetBlock, flash
<1>2. RecordAt(mws, last) = {} /\ Idle(work, spare)
  BY <1>1, AtLabel DEF Ready, JobLabels, Assertion
<1>3. clean \in WorkSpace /\ clean.recs = EmptyRecords
  BY <1>2, ReadyTypes, ConstantTypes DEF CleanupWorkSpace, WorkSpace
<1> HIDE DEF clean
<1>4. buf.healthy = work.healthy /\ buf.ws.recs = EmptyRecords
  BY <1>3, ReadyTypes DEF Image, WorkSpace
<1>5. work.healthy
  BY <1>2, ReadyTypes DEF Idle, Settled, Marked
<1> HIDE DEF buf
<1>6. InOrder(buf.ws)
  BY <1>4, OrderEmpty
<1>7. LastRecordAt("reclaim_flush", work.ws)
  BY DEF LastRecordAt, FreeLabels, OpenLabels
<1> QED BY <1>1, <1>4, <1>5, <1>6, <1>7, ReadyTypes, SpareStartClean
        DEF JobLabels, FlushLabels

(* FtwReclaimWorkSpace: the copy is complete.                                *)
LEMMA ReclaimFlushClean ==
  ASSUME Ready, ReclaimFlush
  PROVE  Tended'
<1>1. pc = "reclaim_flush" /\ st = "ok"
  BY AtLabel DEF Ready, ReclaimFlush, JobLabels
<1>2. pc' = "flush" /\ UNCHANGED <<flash, saved>>
  BY <1>1 DEF ReclaimFlush
<1>3. spare.healthy
  BY <1>1, ReadyAt DEF JobLabels
<1> QED BY <1>1, <1>2, <1>3, QuietClean
        DEF JobLabels, LastRecordAt, FreeLabels, OpenLabels

(* FtwReclaimWorkSpace: the journal is empty.                                *)
LEMMA ReclaimRestoreClean ==
  ASSUME Ready, ReclaimRestore
  PROVE  Tended'
<1>1. pc = "reclaim_restore" /\ st = "ok" /\ work.ws.recs = EmptyRecords
  BY AtLabel DEF Ready, ReclaimRestore, JobLabels, Assertion
<1>2. StartJob("spare", saved, FALSE, retC) /\ work' = work /\ spare' = spare /\ saved' = saved
  BY <1>1 DEF ReclaimRestore, WriteTargetBlock, flash
<1>3. retC \in ReclaimCallers
  BY <1>1, AtLabel DEF Ready, Before, TypeInv, ControlOK, InReclaim, ReclaimLabels, JobLabels
<1>4. Current(work.ws) = {}
  BY <1>1, EmptyLast
<1>5. LastRecordAt(retC, work.ws)
  BY <1>3, <1>4 DEF LastRecordAt, ReclaimCallers, OpenLabels
<1>6. retC \notin JobLabels \cup FlushLabels /\ retC # "reclaim_flush"
  BY <1>3 DEF ReclaimCallers, JobLabels, FlushLabels
<1> QED BY <1>2, <1>5, <1>6, ReadyTypes, SpareStartClean

-----------------------------------------------------------------------------
(* FlushSpareBlockToWorkingBlock.                                            *)

(* The flags of the work spaces change, their records do not.                *)
LEMMA HeaderOrder ==
  ASSUME Ready, pc \notin JobLabels, UNCHANGED saved,
         work'.ws.recs = work.ws.recs, spare'.ws.recs = spare.ws.recs,
         pc' \in JobLabels => job'.buf.ws.recs = spare.ws.recs
  PROVE  JournalsOK'
<1>1. InOrder(work'.ws) /\ InOrder(spare'.ws)
  BY ReadyTypes, OrderSame
<1>2. pc' \in JobLabels => InOrder(job'.buf.ws)
  BY ReadyTypes, OrderSame
<1> QED BY <1>1, <1>2, ReadyTypes DEF JournalsOK

(* What is copied is marked.                                                 *)
LEMMA FlushSetSpareValidClean ==
  ASSUME Ready, FlushSetSpareValid
  PROVE  Tended'
<1>1. /\ pc = "flush" /\ FlushSource(spare) /\ FlushReplaces(work, spare)
      /\ Recoverable(work, spare)
  BY AtLabel DEF Ready, FlushSetSpareValid, JobLabels, Assertion
<1>2. /\ spare' = [spare EXCEPT !.ws.valid = TRUE] /\ pc' = "flush_copy"
      /\ work' = work /\ saved' = saved
  BY NothingFails DEF FlushSetSpareValid, Goto, Ready, Before
<1>3. /\ spare'.ws.recs = spare.ws.recs /\ spare'.healthy = spare.healthy
  BY <1>2, ReadyTypes DEF Image, WorkSpace
<1>4. spare.healthy
  BY <1>1, ReadyAt DEF JobLabels, FlushLabels
<1>5. Marked(work', spare')
  <2>1. Valid(spare')
    BY <1>1, <1>2, ReadyTypes DEF FlushSource, Valid, IsValidWorkSpace, Image, WorkSpace
  <2> QED BY <1>2, <1>3, <1>4, <2>1, ReadyTypes DEF Marked
<1>6. at' = "flush_copy" /\ SpareThen' = spare'
  BY <1>2, OutOfJob DEF JobLabels
<1>7. MarkOK'
  BY <1>2, <1>3, <1>4, <1>5, <1>6 DEF MarkOK
<1>8. JournalsOK'
  BY <1>1, <1>2, <1>3, HeaderOrder DEF JobLabels
<1>9. LastRecordAt(at', work'.ws)
  BY <1>6 DEF LastRecordAt, FreeLabels, OpenLabels
<1> QED BY <1>7, <1>8, <1>9 DEF Tended

(* The mark of the spare block is remembered, and not copied.                *)
LEMMA FlushCopyClean ==
  ASSUME Ready, FlushCopy
  PROVE  Tended'
<1>1. pc = "flush_copy" /\ FlushSource(spare) /\ spare.ws.valid
  BY AtLabel DEF Ready, FlushCopy, JobLabels, Assertion
<1>2. /\ work' = [work EXCEPT !.ws.invalid = TRUE]
      /\ wasHealthy' = spare.healthy
      /\ StartJob("work", FlushBuffer(spare), FALSE, "flush_healthy")
      /\ spare' = spare /\ saved' = saved
  BY NothingFails DEF FlushCopy, WriteTargetBlock, Ready, Before
<1>3. /\ work'.data = work.data /\ work'.healthy = work.healthy
      /\ work'.ws.recs = work.ws.recs /\ work'.ws.valid = work.ws.valid
      /\ work'.ws.sig = work.ws.sig
  BY <1>2, ReadyTypes DEF Image, WorkSpace
<1>4. spare.healthy
  BY <1>1, ReadyAt DEF JobLabels, FlushLabels
<1>5. Marked(work', spare')
  <2>1. Valid(work') = Valid(work)
    BY <1>3 DEF Valid, IsValidWorkSpace
  <2> QED BY <1>2, <1>3, <1>4, <2>1, ReadyTypes, MarkedSame
<1>6. pc' = "erase" /\ job'.buf = FlushBuffer(spare)
  BY <1>2 DEF StartJob
<1>7. at' = "flush_healthy" /\ SpareThen' = spare'
  <2>1. "flush_healthy" \notin JobLabels
    BY DEF JobLabels
  <2> QED BY <1>2, <2>1, WorkJob
<1>8. MarkOK'
  BY <1>2, <1>4, <1>5, <1>6, <1>7 DEF MarkOK
<1>9. JournalsOK'
  <2>1. FlushBuffer(spare).ws.recs = spare.ws.recs
    BY ReadyTypes, FlushBufferIs
  <2> QED BY <1>1, <1>2, <1>3, <1>6, <2>1, HeaderOrder DEF JobLabels
<1>10. LastRecordAt(at', work'.ws)
  BY <1>7 DEF LastRecordAt, FreeLabels, OpenLabels
<1> QED BY <1>8, <1>9, <1>10 DEF Tended

(* The copy has been read back, and is marked.                               *)
LEMMA FlushSetHealthyClean ==
  ASSUME Ready, FlushSetHealthy
  PROVE  Tended'
<1>1. /\ pc = "flush_healthy" /\ st = "ok"
      /\ FlushSource(spare) /\ spare.ws.valid /\ work = FlushBuffer(spare)
  BY AtLabel DEF Ready, FlushSetHealthy, JobLabels, Assertion
<1>2. spare.healthy /\ wasHealthy
  BY <1>1, ReadyAt DEF JobLabels, FlushLabels
<1>3. /\ pc' = "flush_valid" /\ work' = [work EXCEPT !.healthy = TRUE]
      /\ spare' = spare /\ saved' = saved
  BY <1>1, <1>2, NothingFails DEF FlushSetHealthy, Ready, Before
<1>4. work'.data = work.data /\ work'.ws = work.ws /\ work'.healthy
  BY <1>3, ReadyTypes DEF Image
<1>5. /\ Whole(work') /\ ~Valid(work')
  <2>1. work.data = spare.data /\ ~work.ws.valid
    BY <1>1, ReadyTypes, FlushBufferIs
  <2> QED BY <1>1, <1>4, <2>1 DEF FlushSource, Whole, Valid, IsValidWorkSpace
<1>6. Marked(work', spare')
  BY <1>2, <1>3, <1>4, <1>5 DEF Marked, Committed
<1>7. at' = "flush_valid" /\ SpareThen' = spare'
  BY <1>3, OutOfJob DEF JobLabels
<1>8. MarkOK'
  BY <1>2, <1>3, <1>4, <1>6, <1>7 DEF MarkOK
<1>9. JournalsOK'
  BY <1>1, <1>3, <1>4, HeaderOrder DEF JobLabels
<1>10. LastRecordAt(at', work'.ws)
  BY <1>7 DEF LastRecordAt, FreeLabels, OpenLabels
<1> QED BY <1>8, <1>9, <1>10 DEF Tended

(* The work space of a marked copy becomes valid.                            *)
LEMMA FlushSetValidClean ==
  ASSUME Ready, FlushSetValid
  PROVE  Tended'
<1>1. /\ pc = "flush_valid" /\ FlushSource(spare) /\ Flushed(work, spare)
  BY AtLabel DEF Ready, FlushSetValid, JobLabels, Assertion
<1>2. /\ work' = [work EXCEPT !.ws.valid = TRUE] /\ pc' = retF
      /\ spare' = spare /\ saved' = saved
  BY NothingFails DEF FlushSetValid, Return, Ready, Before
<1>3. retF \in FlushCallers
  <2>1. ControlOK /\ at = "flush_valid"
    BY <1>1, ReadyAt DEF Ready, Before, TypeInv, JobLabels
  <2> QED BY <2>1 DEF ControlOK, InFlush, FlushLabels
<1>4. /\ work'.data = work.data /\ work'.healthy = work.healthy
      /\ work'.ws.recs = work.ws.recs
  BY <1>2, ReadyTypes DEF Image, WorkSpace
<1>5. spare.healthy /\ work.healthy
  BY <1>1, ReadyAt DEF JobLabels, FlushLabels
<1>6. Marked(work', spare')
  <2>1. Whole(work')
    BY <1>1, <1>4 DEF FlushSource, Flushed, Whole
  <2> QED BY <1>2, <1>4, <1>5, <2>1 DEF Marked
<1>7. at' = retF /\ SpareThen' = spare'
  BY <1>2, <1>3, OutOfJob DEF JobLabels, FlushCallers
<1>8. MarkOK'
  BY <1>2, <1>3, <1>4, <1>5, <1>6, <1>7 DEF MarkOK, FlushCallers
<1>9. JournalsOK'
  BY <1>1, <1>2, <1>3, <1>4, HeaderOrder DEF JobLabels, FlushCallers
<1>10. LastRecordAt(at', work'.ws)
  BY <1>3, <1>7 DEF LastRecordAt, FreeLabels, OpenLabels, FlushCallers
<1> QED BY <1>8, <1>9, <1>10 DEF Tended

-----------------------------------------------------------------------------
(* Records.                                                                  *)

(* A bit is set in the last record of the working block, which stays as      *)
(* valid and as marked as it was.                                            *)
LEMMA BitClean ==
  ASSUME Ready, pc \notin JobLabels, last \in Records, last = GetLastRecord(work.ws),
         NEW bit, bit \in {"alloc", "done"} \/ "alloc" \in Current(work.ws),
         bit = "spare" => spare.healthy,
         bit \in Bits,
         work' = [work EXCEPT !.ws = SetBit(@, last, bit)], UNCHANGED spare
  PROVE  InOrder(work'.ws) /\ Marked(work', spare') /\ work'.ws = SetBit(work.ws, last, bit)
<1>1. /\ work'.ws = SetBit(work.ws, last, bit) /\ work'.data = work.data
      /\ work'.healthy = work.healthy
  BY ReadyTypes DEF Image
<1>2. /\ work'.ws.recs[last] = work.ws.recs[last] \cup {bit}
      /\ \A r \in Records \ {last} : work'.ws.recs[r] = work.ws.recs[r]
      /\ work'.ws.sig = work.ws.sig /\ work'.ws.valid = work.ws.valid
  BY <1>1, ReadyTypes, SetBitRecs
<1>3. InOrder(work'.ws)
  <2>1. bit \in {"alloc", "done"} \/ "alloc" \in work.ws.recs[last]
    BY DEF Current, RecordAt
  <2> QED BY <1>1, <2>1, ReadyTypes, OrderSetBit
<1>4. Valid(work') = Valid(work)
  BY <1>2 DEF Valid, IsValidWorkSpace
<1>5. Recoverable(work, spare)
  BY DEF Ready, Before, Safe
<1>6. Committed(work') => Committed(work) \/ spare.healthy
  <2>1. CASE bit = "done"
    <3>1. ~InProgress(work'.ws)
      BY <1>1, <1>5, <2>1, ReadyTypes, SetDone DEF Recoverable
    <3> QED BY <3>1 DEF Committed
  <2>2. CASE bit \notin {"done", "spare"}
    <3>1. Current(work'.ws) = Current(work.ws) \cup {bit}
      BY <1>1, <1>5, <2>2, ReadyTypes, SetOpen DEF Recoverable
    <3>2. InProgress(work'.ws) => InProgress(work.ws)
      BY <2>2, <3>1 DEF InProgress, NeedsRestart, Current
    <3> QED BY <1>4, <3>2 DEF Committed
  <2> QED BY <2>1, <2>2
<1>7. Marked(work', spare')
  BY <1>1, <1>4, <1>6, ReadyTypes, MarkedSame
<1> QED BY <1>1, <1>3, <1>7

(* A step between jobs that changes the working block.                       *)
LEMMA WorkClean ==
  ASSUME Ready, pc' \notin JobLabels \cup FlushLabels \cup {"reclaim_flush"},
         UNCHANGED <<spare, saved>>,
         InOrder(work'.ws), Marked(work', spare'), LastRecordAt(pc', work'.ws)
  PROVE  Tended'
<1>1. at' = pc'
  BY OutOfJob
<1>2. JournalsOK'
  BY ReadyTypes DEF JournalsOK
<1>3. MarkOK'
  BY <1>1 DEF MarkOK, InFlush, FlushLabels, JobLabels
<1> QED BY <1>1, <1>2, <1>3 DEF Tended

(* FtwWriteRecord: the record in the spare block.                            *)
LEMMA WriteRecordSpareClean ==
  ASSUME Ready, WriteRecordSpare
  PROVE  Tended'
<1>1. /\ pc = "record_spare" /\ Recoverable(work, spare)
      /\ Committed(work) /\ last = GetLastRecord(work.ws)
  BY AtLabel DEF Ready, WriteRecordSpare, JobLabels, Assertion, Sync
<1>2. /\ spare' = [spare EXCEPT !.ws = SetBit(@, last, "spare")]
      /\ pc' = "flush" /\ work' = work /\ saved' = saved
  BY NothingFails DEF WriteRecordSpare, Ready, Before
<1>3. spare'.ws.recs = work.ws.recs /\ spare'.healthy = spare.healthy
  BY <1>1, <1>2, ReadyTypes, RecoverableMarked DEF Image
<1>4. spare.healthy /\ Valid(work)
  BY <1>1, ReadyTypes DEF Marked, Committed
<1>5. Marked(work', spare')
  BY <1>2, <1>3, <1>4, ReadyTypes DEF Marked
<1>6. at' = "flush" /\ SpareThen' = spare'
  BY <1>2, OutOfJob DEF JobLabels
<1>7. MarkOK'
  BY <1>2, <1>3, <1>4, <1>5, <1>6 DEF MarkOK
<1>8. JournalsOK'
  <2>1. InOrder(spare'.ws)
    BY <1>3, ReadyTypes, OrderSame
  <2> QED BY <1>2, <2>1, ReadyTypes DEF JournalsOK, JobLabels
<1>9. LastRecordAt(at', work'.ws)
  BY <1>6 DEF LastRecordAt, FreeLabels, OpenLabels
<1> QED BY <1>7, <1>8, <1>9 DEF Tended

(* FtwWriteRecord: the record is completed, and the next one is free.        *)
LEMMA WriteRecordDoneClean ==
  ASSUME Ready, WriteRecordDone
  PROVE  Tended'
<1>1. /\ pc = "record_done" /\ Recoverable(work, spare)
      /\ Committed(work) /\ last = GetLastRecord(work.ws)
  BY AtLabel DEF Ready, WriteRecordDone, JobLabels, Assertion, Sync
<1>2. /\ work' = [work EXCEPT !.ws = SetBit(@, last, "done")]
      /\ pc' = retW /\ spare' = spare /\ saved' = saved
  BY NothingFails, NoneReports DEF WriteRecordDone, Return, Ready, Before
<1>3. retW \in RecordCallers
  <2>1. ControlOK /\ at = "record_done"
    BY <1>1, ReadyAt DEF Ready, Before, TypeInv, JobLabels
  <2> QED BY <2>1 DEF ControlOK, InRecord, RecordLabels
<1>4. last \in Records /\ Tidy(work.ws)
  BY <1>1, ReadyTypes, SetBitAgain DEF Committed, Recoverable
<1>5. /\ InOrder(work'.ws) /\ Marked(work', spare')
      /\ work'.ws = SetBit(work.ws, last, "done")
  BY <1>1, <1>2, <1>4, BitClean DEF JobLabels, Bits
<1>6. Current(work'.ws) = {}
  BY <1>1, <1>4, <1>5, ReadyTypes, NextIsFree
<1>7. LastRecordAt(pc', work'.ws)
  BY <1>2, <1>3, <1>6 DEF LastRecordAt, RecordCallers, OpenLabels
<1>8. pc' \notin JobLabels \cup FlushLabels \cup {"reclaim_flush"}
  BY <1>2, <1>3 DEF JobLabels, FlushLabels, RecordCallers
<1> QED BY <1>2, <1>5, <1>7, <1>8, WorkClean

(* FtwAbort.                                                                 *)
LEMMA AbortMarkClean ==
  ASSUME Ready, AbortMark
  PROVE  Tended'
<1>1. /\ pc = "abort" /\ Recoverable(work, spare) /\ Valid(work)
      /\ mws.recs = work.ws.recs /\ last =< GetLastRecord(work.ws)
      /\ retA = "restart" => last = GetLastRecord(work.ws)
  BY AtLabel DEF Ready, AbortMark, JobLabels, Assertion
<1>2. retA \in AbortCallers /\ last =< Slots
  <2>1. ControlOK /\ at = "abort"
    BY <1>1, ReadyAt DEF Ready, Before, TypeInv, JobLabels
  <2> QED BY <2>1 DEF ControlOK, LastUnbounded
<1>3. last \in Records /\ last \in 1 .. Slots + 1
  BY <1>2, ReadyTypes, FtwAssumption DEF Records
<1>4. spare' = spare /\ saved' = saved
  BY DEF AbortMark
<1>5. CASE "done" \in RecordAt(mws, last)
  <2>1. pc' = retA /\ work' = work
    BY <1>5 DEF AbortMark
  <2>2. retA # "restart"
    <3>1. "done" \notin RecordAt(work.ws, GetLastRecord(work.ws))
      BY GetLastRecordType DEF RecordAt
    <3> QED BY <1>1, <1>5, <3>1 DEF RecordAt
  <2>3. LastRecordAt(pc', work'.ws)
    BY <1>2, <2>1, <2>2 DEF LastRecordAt, AbortCallers, FreeLabels, OpenLabels
  <2>4. pc' \notin JobLabels \cup FlushLabels \cup {"reclaim_flush"}
    BY <1>2, <2>1 DEF JobLabels, FlushLabels, AbortCallers
  <2> QED BY <1>4, <2>1, <2>3, <2>4, ReadyTypes, WorkClean
<1>6. CASE "done" \notin RecordAt(mws, last)
  <2>1. /\ work' = [work EXCEPT !.ws = SetBit(@, last, "done")]
        /\ StartJob("spare", ErasedImage, TRUE, retA)
    BY <1>6, NothingFails DEF AbortMark, Ready, Before, FtwEraseSpareBlock
  <2>2. last = GetLastRecord(work.ws)
    <3>1. "done" \notin work.ws.recs[last]
      BY <1>1, <1>3, <1>6 DEF RecordAt
    <3>2. ~(last < GetLastRecord(work.ws))
      BY <1>3, <3>1, GetLastRecordType
    <3>3. GetLastRecord(work.ws) \in 1 .. Slots + 1
      BY GetLastRecordType
    <3> QED BY <1>1, <1>3, <3>2, <3>3, FtwAssumption
  <2>3. /\ InOrder(work'.ws) /\ Marked(work', spare')
        /\ work'.ws = SetBit(work.ws, last, "done")
    BY <1>1, <1>3, <1>4, <2>1, <2>2, BitClean DEF JobLabels, Bits
  <2>4. Current(work'.ws) = {}
    BY <1>1, <1>3, <2>2, <2>3, ReadyTypes, NextIsFree DEF Recoverable
  <2>5. LastRecordAt(retA, work'.ws)
    BY <1>2, <2>4 DEF LastRecordAt, AbortCallers, FreeLabels, OpenLabels, NeedsRollback
  <2>6. retA \notin JobLabels \cup FlushLabels /\ retA # "reclaim_flush"
    BY <1>2 DEF AbortCallers, JobLabels, FlushLabels
  <2> QED BY <1>4, <2>1, <2>3, <2>5, <2>6, ErasedIs, SpareStartClean
<1> QED BY <1>5, <1>6

-----------------------------------------------------------------------------
(* CommonFtwWrite.                                                           *)

(* FtwWorkSpace and FtwLastRecord show the last record of the flash.         *)
LEMMA SyncCurrent ==
  ASSUME NEW w, Sync(w)
  PROVE  RecordAt(mws, last) = Current(w.ws)
BY DEF Sync, Current, RecordAt

(* CommonFtwWrite finds the last record free, and allocates it.              *)
LEMMA WriteAllocateClean ==
  ASSUME Ready, WriteAllocate
  PROVE  Tended'
<1>1. /\ pc = "check" /\ st = "ok" /\ Sync(work) /\ Recoverable(work, spare)
  BY AtLabel DEF Ready, WriteAllocate, JobLabels, Assertion
<1>2. last \in Records /\ last = GetLastRecord(work.ws)
  <2>1. ControlOK /\ at = "check"
    BY <1>1, ReadyAt DEF Ready, Before, TypeInv, JobLabels
  <2>2. last =< Slots
    BY <2>1 DEF ControlOK, LastUnbounded
  <2> QED BY <1>1, <2>2, ReadyTypes, FtwAssumption DEF Records, Sync
<1>3. Current(work.ws) = {}
  <2>1. LastRecordAt("check", work.ws)
    BY <1>1, ReadyAt DEF JobLabels
  <2> QED BY <2>1 DEF LastRecordAt, FreeLabels
<1>4. spare' = spare /\ saved' = saved
  BY DEF WriteAllocate
<1>5. CASE work' = work /\ pc' = "idle"
  <2>1. LastRecordAt(pc', work'.ws)
    BY <1>3, <1>5 DEF LastRecordAt, OpenLabels
  <2> QED BY <1>4, <1>5, <2>1, ReadyTypes, WorkClean DEF JobLabels, FlushLabels
<1>6. CASE work' = [work EXCEPT !.ws = SetBit(@, last, "alloc")] /\ pc' = "body"
  <2>1. /\ InOrder(work'.ws) /\ Marked(work', spare')
        /\ work'.ws = SetBit(work.ws, last, "alloc")
    BY <1>1, <1>2, <1>4, <1>6, BitClean DEF JobLabels, Bits
  <2>2. Current(work'.ws) = Current(work.ws) \cup {"alloc"}
    BY <1>1, <1>2, <2>1, ReadyTypes, SetOpen DEF Recoverable
  <2>3. LastRecordAt(pc', work'.ws)
    BY <1>6, <2>2 DEF LastRecordAt, FreeLabels
  <2> QED BY <1>4, <1>6, <2>1, <2>3, WorkClean DEF JobLabels, FlushLabels
<1> QED BY <1>5, <1>6, NothingFails DEF WriteAllocate, WriteReturns, Ready, Before

(* The body is filled in of a record that is allocated.                      *)
LEMMA WriteBodyClean ==
  ASSUME Ready, WriteBody
  PROVE  Tended'
<1>1. /\ pc = "body" /\ Sync(work) /\ Recoverable(work, spare)
  BY AtLabel DEF Ready, WriteBody, JobLabels, Assertion
<1>2. last \in Records /\ last = GetLastRecord(work.ws)
  <2>1. ControlOK /\ at = "body"
    BY <1>1, ReadyAt DEF Ready, Before, TypeInv, JobLabels
  <2>2. last =< Slots
    BY <2>1 DEF ControlOK, LastUnbounded
  <2> QED BY <1>1, <2>2, ReadyTypes, FtwAssumption DEF Records, Sync
<1>3. "alloc" \in Current(work.ws)
  <2>1. LastRecordAt("body", work.ws)
    BY <1>1, ReadyAt DEF JobLabels
  <2> QED BY <2>1 DEF LastRecordAt, OpenLabels
<1>4. /\ spare' = spare /\ saved' = saved /\ pc' = "copy"
      /\ work' = [work EXCEPT !.ws = SetBit(@, last, "body")]
  BY NothingFails DEF WriteBody, Ready, Before
<1>5. /\ InOrder(work'.ws) /\ Marked(work', spare')
      /\ work'.ws = SetBit(work.ws, last, "body")
  BY <1>1, <1>2, <1>3, <1>4, BitClean DEF JobLabels, Bits
<1>6. Current(work'.ws) = Current(work.ws) \cup {"body"}
  BY <1>1, <1>2, <1>5, ReadyTypes, SetOpen DEF Recoverable
<1>7. LastRecordAt(pc', work'.ws)
  BY <1>3, <1>4, <1>6 DEF LastRecordAt, FreeLabels
<1> QED BY <1>4, <1>5, <1>7, WorkClean DEF JobLabels, FlushLabels

(* The modified copy is marked like the working block.                       *)
LEMMA WriteSpareClean ==
  ASSUME Ready, WriteSpare
  PROVE  Tended'
<1> DEFINE buf == [work EXCEPT !.data = Overlay(@, req)]
<1>1. /\ pc = "copy" /\ StartJob("spare", buf, FALSE, "mark")
      /\ work' = work /\ spare' = spare /\ saved' = spare
  BY DEF WriteSpare, WriteTargetBlock, flash
<1>2. buf.ws = work.ws
  BY ReadyTypes DEF Image
<1> HIDE DEF buf
<1>3. LastRecordAt("mark", work.ws)
  <2>1. LastRecordAt("copy", work.ws)
    BY <1>1, ReadyAt DEF JobLabels
  <2> QED BY <2>1 DEF LastRecordAt, OpenLabels, FreeLabels
<1> QED BY <1>1, <1>2, <1>3, ReadyTypes, SpareStartClean DEF JobLabels, FlushLabels

(* SPARE_COMPLETED: what is going to be recovered is marked.                 *)
LEMMA WriteMarkClean ==
  ASSUME Ready, WriteMark
  PROVE  Tended'
<1>1. /\ pc = "mark" /\ st = "ok" /\ Sync(work) /\ Settled(work)
      /\ spare = [work EXCEPT !.data = Overlay(@, req)]
  BY AtLabel DEF Ready, WriteMark, JobLabels, Assertion
<1>2. last \in Records /\ last = GetLastRecord(work.ws)
  <2>1. ControlOK /\ at = "mark"
    BY <1>1, ReadyAt DEF Ready, Before, TypeInv, JobLabels
  <2>2. last =< Slots
    BY <2>1 DEF ControlOK, LastUnbounded
  <2> QED BY <1>1, <2>2, ReadyTypes, FtwAssumption DEF Records, Sync
<1>3. "alloc" \in Current(work.ws)
  <2>1. LastRecordAt("mark", work.ws)
    BY <1>1, ReadyAt DEF JobLabels
  <2> QED BY <2>1 DEF LastRecordAt, OpenLabels
<1>4. spare.healthy
  <2>1. spare.healthy = work.healthy
    BY <1>1, ReadyTypes DEF Image
  <2> QED BY <1>1, <2>1, ReadyTypes DEF Marked, Settled
<1>5. /\ spare' = spare /\ saved' = saved /\ pc' = "record_spare"
      /\ work' = [work EXCEPT !.ws = SetBit(@, last, "spare")]
  BY <1>1, NothingFails DEF WriteMark, Ready, Before
<1>6. InOrder(work'.ws) /\ Marked(work', spare')
  BY <1>1, <1>2, <1>3, <1>4, <1>5, BitClean DEF JobLabels, Bits
<1>7. LastRecordAt(pc', work'.ws)
  BY <1>5 DEF LastRecordAt, FreeLabels, OpenLabels
<1> QED BY <1>5, <1>6, <1>7, WorkClean DEF JobLabels, FlushLabels

(* The spare block is put back.                                              *)
LEMMA WriteRestoreClean ==
  ASSUME Ready, WriteRestore
  PROVE  Tended'
<1>1. /\ pc = "restore" /\ StartJob("spare", saved, FALSE, "end")
      /\ work' = work /\ spare' = spare /\ saved' = saved
  BY DEF WriteRestore, WriteTargetBlock, flash
<1>2. LastRecordAt("end", work.ws)
  <2>1. LastRecordAt("restore", work.ws)
    BY <1>1, ReadyAt DEF JobLabels
  <2> QED BY <2>1 DEF LastRecordAt, OpenLabels, FreeLabels
<1> QED BY <1>1, <1>2, ReadyTypes, SpareStartClean DEF JobLabels, FlushLabels

(* CommonFtwWrite returns.                                                   *)
LEMMA WriteEndClean ==
  ASSUME Ready, WriteEnd
  PROVE  Tended'
<1>1. pc = "end" /\ pc' = "idle" /\ UNCHANGED <<flash, saved>>
  BY DEF WriteEnd, WriteReturns
<1>2. LastRecordAt("idle", work.ws)
  <2>1. LastRecordAt("end", work.ws)
    BY <1>1, ReadyAt DEF JobLabels
  <2> QED BY <2>1 DEF LastRecordAt, OpenLabels, FreeLabels
<1> QED BY <1>1, <1>2, QuietClean DEF JobLabels

(* WorkSpaceRefresh, where the last record is free if it has to be.          *)
LEMMA RefreshClean ==
  ASSUME Ready, pc \notin JobLabels, NEW ret \in {"check", "validate", "rollback"},
         WorkSpaceRefresh(ret), UNCHANGED <<flash, saved>>,
         ret = "check" => Current(work.ws) = {}
  PROVE  Tended'
<1>1. pc' \in {"reclaim", ret}
  BY DEF WorkSpaceRefresh, Return
<1>2. LastRecordAt(pc', work.ws)
  BY <1>1 DEF LastRecordAt, FreeLabels, OpenLabels
<1> QED BY <1>1, <1>2, QuietClean DEF JobLabels

(* A call: the work space is read back.                                      *)
LEMMA WriteCallClean ==
  ASSUME Ready, Write
  PROVE  Tended'
<1>1. /\ pc = "idle" /\ WorkSpaceRefresh("check") /\ UNCHANGED <<flash, saved>>
  BY DEF Write
<1>2. Current(work.ws) = {}
  <2>1. LastRecordAt("idle", work.ws)
    BY <1>1, ReadyAt DEF JobLabels
  <2> QED BY <2>1 DEF LastRecordAt, FreeLabels
<1> QED BY <1>1, <1>2, RefreshClean DEF JobLabels

-----------------------------------------------------------------------------
(* InitializeFtwLite.                                                        *)

(* The steps of the boot that only read.                                     *)
LEMMA BootReadsClean ==
  ASSUME Ready, BootRefresh \/ BootRefreshAgain \/ BootAbort \/ BootDirty \/ BootDone
  PROVE  Tended'
<1>1. CASE BootRefresh
  <2>1. /\ pc = "boot" /\ WorkSpaceRefresh("validate") /\ UNCHANGED <<flash, saved>>
    BY <1>1 DEF BootRefresh
  <2> QED BY <2>1, RefreshClean DEF JobLabels
<1>2. CASE BootRefreshAgain
  <2>1. /\ pc = "refresh" /\ WorkSpaceRefresh("rollback") /\ UNCHANGED <<flash, saved>>
    BY <1>2 DEF BootRefreshAgain
  <2> QED BY <2>1, RefreshClean DEF JobLabels
<1>3. CASE BootAbort
  <2>1. pc = "recovered" /\ pc' = "abort" /\ UNCHANGED <<flash, saved>>
    BY <1>3 DEF BootAbort, Goto
  <2>2. LastRecordAt(pc', work.ws)
    BY <2>1 DEF LastRecordAt, FreeLabels, OpenLabels
  <2> QED BY <2>1, <2>2, QuietClean DEF JobLabels
<1>4. CASE BootDirty
  <2>1. pc = "dirty" /\ pc' \in {"reclaim", "booted"} /\ UNCHANGED <<flash, saved>>
    BY <1>4 DEF BootDirty, Goto, Return
  <2>2. LastRecordAt("dirty", work.ws)
    BY <2>1, ReadyAt DEF JobLabels
  <2>3. LastRecordAt(pc', work.ws)
    BY <2>1, <2>2 DEF LastRecordAt, FreeLabels, OpenLabels
  <2> QED BY <2>1, <2>3, QuietClean DEF JobLabels
<1>5. CASE BootDone
  <2>1. pc = "booted" /\ pc' \in {"dead", "boot", "idle"} /\ UNCHANGED <<flash, saved>>
    BY <1>5 DEF BootDone
  <2>2. LastRecordAt("booted", work.ws)
    BY <2>1, ReadyAt DEF JobLabels
  <2>3. LastRecordAt(pc', work.ws)
    BY <2>1, <2>2 DEF LastRecordAt, FreeLabels, OpenLabels
  <2> QED BY <2>1, <2>3, QuietClean DEF JobLabels
<1> QED BY <1>1, <1>2, <1>3, <1>4, <1>5

(* What is recovered from the spare block is marked.                         *)
LEMMA BootValidateClean ==
  ASSUME Ready, BootValidate
  PROVE  Tended'
<1>1. pc = "validate" /\ (IsValidWorkSpace(mws) <=> Valid(work))
  BY AtLabel DEF Ready, BootValidate, JobLabels, Assertion
<1>2. UNCHANGED <<flash, saved>> /\ pc' \in {"rollback", "flush", "reclaim"}
  BY DEF BootValidate, Goto, Return
<1>3. pc' = "flush" => ~Valid(work) /\ Valid(spare)
  BY <1>1 DEF BootValidate, Goto, Return, Valid
<1>4. pc' = "flush" => spare.healthy
  BY <1>3, ReadyTypes DEF Marked
<1>5. LastRecordAt(pc', work.ws)
  BY <1>2 DEF LastRecordAt, FreeLabels, OpenLabels
<1> QED BY <1>1, <1>2, <1>4, <1>5, QuietClean DEF JobLabels

(* A write whose spare copy is not complete is not restarted ...             *)
LEMMA BootRollbackClean ==
  ASSUME Ready, BootRollback
  PROVE  Tended'
<1>1. pc = "rollback" /\ st = "ok" /\ Sync(work)
  BY AtLabel DEF Ready, BootRollback, JobLabels, Assertion
<1>2. /\ UNCHANGED <<flash, saved>> /\ pc' \in {"abort", "restart"}
      /\ pc' = "restart" => ~NeedsRollback(RecordAt(mws, last))
  BY <1>1 DEF BootRollback
<1>3. LastRecordAt(pc', work.ws)
  BY <1>1, <1>2, SyncCurrent DEF LastRecordAt, FreeLabels, OpenLabels
<1> QED BY <1>1, <1>2, <1>3, QuietClean DEF JobLabels

(* ... and when there is nothing to restart either the last record is free.  *)
LEMMA BootRestartClean ==
  ASSUME Ready, BootRestart
  PROVE  Tended'
<1>1. pc = "restart" /\ Sync(work)
  BY AtLabel DEF Ready, BootRestart, JobLabels, Assertion
<1>2. /\ UNCHANGED <<flash, saved>> /\ pc' \in {"record_spare", "dead", "dirty"}
      /\ pc' = "dirty" => ~NeedsRestart(RecordAt(mws, last))
  BY DEF BootRestart
<1>3. ASSUME pc' = "dirty" PROVE Current(work.ws) = {}
  <2>1. ~NeedsRestart(Current(work.ws))
    BY <1>1, <1>2, <1>3, SyncCurrent
  <2>2. ~NeedsRollback(Current(work.ws))
    <3>1. LastRecordAt("restart", work.ws)
      BY <1>1, ReadyAt DEF JobLabels
    <3> QED BY <3>1 DEF LastRecordAt
  <2>3. "done" \notin Current(work.ws)
    BY GetLastRecordType DEF Current, RecordAt
  <2>4. Current(work.ws) = {} \/ "alloc" \in Current(work.ws)
    BY ReadyTypes, OrderLast
  <2> QED BY <2>1, <2>2, <2>3, <2>4 DEF NeedsRestart, NeedsRollback
<1>4. LastRecordAt(pc', work.ws)
  BY <1>2, <1>3 DEF LastRecordAt, FreeLabels, OpenLabels
<1> QED BY <1>1, <1>2, <1>4, QuietClean DEF JobLabels

(* FtwRestart: the spare block is erased.                                    *)
LEMMA BootRestartedClean ==
  ASSUME Ready, BootRestarted
  PROVE  Tended'
<1>1. /\ pc = "restarted" /\ StartJob("spare", ErasedImage, TRUE, "dirty")
      /\ work' = work /\ spare' = spare /\ saved' = saved
  BY DEF BootRestarted, FtwEraseSpareBlock, flash
<1>2. LastRecordAt("dirty", work.ws)
  <2>1. LastRecordAt("restarted", work.ws)
    BY <1>1, ReadyAt DEF JobLabels
  <2> QED BY <2>1 DEF LastRecordAt, OpenLabels, FreeLabels
<1> QED BY <1>1, <1>2, ReadyTypes, ErasedIs, SpareStartClean DEF JobLabels, FlushLabels

(* All actions together.                                                     *)
LEMMA TendedStep ==
  ASSUME Ready, Next
  PROVE  Tended'
<1>1. CASE Write \/ Crash
  BY <1>1, WriteCallClean, CrashClean
<1>2. CASE EraseStep \/ WriteStep
  BY <1>2, EraseClean, WriteClean
<1>3. CASE ReclaimStart \/ ReclaimFlush \/ ReclaimRestore
  BY <1>3, ReclaimStartClean, ReclaimFlushClean, ReclaimRestoreClean
<1>4. CASE FlushSetSpareValid \/ FlushCopy \/ FlushSetHealthy \/ FlushSetValid
  BY <1>4, FlushSetSpareValidClean, FlushCopyClean, FlushSetHealthyClean,
     FlushSetValidClean
<1>5. CASE WriteRecordSpare \/ WriteRecordDone \/ AbortMark
  BY <1>5, WriteRecordSpareClean, WriteRecordDoneClean, AbortMarkClean
<1>6. CASE WriteAllocate \/ WriteBody \/ WriteSpare \/ WriteMark \/ WriteRestore \/ WriteEnd
  BY <1>6, WriteAllocateClean, WriteBodyClean, WriteSpareClean, WriteMarkClean,
     WriteRestoreClean, WriteEndClean
<1>7. CASE BootRefresh \/ BootRefreshAgain \/ BootAbort \/ BootDirty \/ BootDone
  BY <1>7, BootReadsClean
<1>8. CASE BootValidate \/ BootRollback \/ BootRestart \/ BootRestarted
  BY <1>8, BootValidateClean, BootRollbackClean, BootRestartClean, BootRestartedClean
<1> QED
  BY <1>1, <1>2, <1>3, <1>4, <1>5, <1>6, <1>7, <1>8, NoneReports DEF Next, Driver, Ready

-----------------------------------------------------------------------------
(* The caller.                                                               *)

(* CommonFtwWrite denies access to nobody: it finds the last record free.    *)
LEMMA NobodyDenied ==
  ASSUME Ready, Next
  PROVE  reply' # "denied"
<1>1. reply # "denied"
  BY DEF Ready, Clean
<1>2. CASE Write \/ Crash
  BY <1>2 DEF Write, Crash
<1>3. CASE EraseStep \/ WriteStep \/ ReclaimStart \/ ReclaimFlush \/ ReclaimRestore
           \/ WriteRecordSpare \/ WriteRecordDone \/ AbortMark
  BY <1>1, <1>3 DEF EraseStep, WriteStep, ReclaimStart, ReclaimFlush, ReclaimRestore,
     WriteRecordSpare, WriteRecordDone, AbortMark, caller
<1>4. CASE FlushSetSpareValid \/ FlushCopy \/ FlushSetHealthy \/ FlushSetValid
  BY <1>1, <1>4 DEF FlushSetSpareValid, FlushCopy, FlushSetHealthy, FlushSetValid, caller
<1>5. CASE WriteAllocate
  <2>1. pc = "check" /\ Sync(work)
    BY <1>5, AtLabel DEF Ready, WriteAllocate, JobLabels, Assertion
  <2>2. LastRecordAt("check", work.ws)
    BY <2>1, ReadyAt DEF JobLabels
  <2>3. RecordAt(mws, last) = {}
    BY <2>1, <2>2, SyncCurrent DEF LastRecordAt, FreeLabels
  <2> QED BY <1>1, <1>5, <2>3 DEF WriteAllocate, WriteReturns
<1>6. CASE WriteBody \/ WriteSpare \/ WriteMark \/ WriteRestore \/ WriteEnd
  BY <1>1, <1>6 DEF WriteBody, WriteSpare, WriteMark, WriteRestore, WriteEnd,
     WriteReturns, caller
<1>7. CASE BootRefresh \/ BootValidate \/ BootAbort \/ BootRefreshAgain \/ BootRollback
           \/ BootRestart \/ BootRestarted \/ BootDirty \/ BootDone
  BY <1>1, <1>7 DEF BootRefresh, BootValidate, BootAbort, BootRefreshAgain, BootRollback,
     BootRestart, BootRestarted, BootDirty, BootDone, caller
<1> QED BY <1>2, <1>3, <1>4, <1>5, <1>6, <1>7, NoneReports DEF Next, Driver, Ready

(* A request that has taken effect is not lost again.                        *)
LEMMA LandedStep ==
  ASSUME Ready, [Next]_vars, retW' = "restore"
  PROVE  Landed(Recovered)'
<1>1. [Store!Next]_(Store!vars)
  BY StepImplements DEF Ready
<1>2. retW = "restore" => \A b \in Data : req[b] # Keep => Recovered[b] = req[b]
  BY DEF Ready, Clean, Landed
<1>3. retW = "restore" => req # NoRequest
  <2>1. CallerOK
    BY DEF Ready, Before, Safe
  <2> QED BY <2>1 DEF CallerOK, InCall
<1>4. CASE UNCHANGED Store!vars
  <2>1. Recovered' = Recovered /\ req' = req /\ (retW' = "restore") = (retW = "restore")
    BY <1>4 DEF Store!vars
  <2> QED BY <1>2, <2>1 DEF Landed
<1>5. CASE Store!Commit
  <2>1. Recovered' = Overlay(Recovered, req) /\ req' = req
    BY <1>5 DEF Store!Commit, Store!Overlay, Overlay
  <2> QED BY <2>1 DEF Landed, Overlay
<1>6. CASE Store!Ask
  <2>1. retW # "restore"
    BY <1>3, <1>6 DEF Store!Ask
  <2>2. (retW' = "restore") = (retW = "restore")
    BY <1>6 DEF Store!Ask
  <2> QED BY <2>1, <2>2
<1>7. CASE Store!Succeed \/ Store!PowerLoss
  BY <1>7 DEF Store!Succeed, Store!PowerLoss
<1>8. CASE Store!Fail
  <2>1. retW # "restore" /\ (retW' = "restore") = (retW = "restore")
    BY <1>8 DEF Store!Fail
  <2> QED BY <2>1
<1> QED BY <1>1, <1>4, <1>5, <1>6, <1>7, <1>8 DEF Store!Next

(* A new machine is marked, and its journal is empty.                        *)
LEMMA InitClean == Init => Clean
<1> SUFFICES ASSUME Init PROVE Clean
  OBVIOUS
<1>1. PICK w \in {ErasedWs, InitHeader(ErasedWs)} :
        work = [data |-> [b \in Data |-> Initial], healthy |-> TRUE, ws |-> w]
  BY DEF Init
<1>2. work.ws.recs = EmptyRecords /\ work.healthy /\ Whole(work)
  <2>1. ErasedWs.recs = EmptyRecords
    BY DEF ErasedWs
  <2>2. InitHeader(ErasedWs).recs = ErasedWs.recs
    BY ConstantTypes DEF InitHeader, WorkSpace
  <2>3. work.ws = w /\ work.healthy /\ \A b \in Data : work.data[b] = Initial
    BY <1>1
  <2> QED BY <2>1, <2>2, <2>3, FtwAssumption DEF Whole
<1>3. spare = ErasedImage /\ saved = ErasedImage /\ pc = "boot" /\ retW = "none"
      /\ reply = "none"
  BY DEF Init
<1>4. JournalsOK
  BY <1>2, <1>3, OrderEmpty, ErasedIs DEF JournalsOK, JobLabels
<1>5. Marked(work, spare)
  <2>1. ~Committed(work)
    BY <1>2, EmptyLast DEF Committed
  <2> QED BY <1>2, <1>3, <2>1, ErasedIs DEF Marked
<1>6. at = "boot"
  BY <1>3 DEF at, JobLabels
<1>7. MarkOK
  BY <1>3, <1>5, <1>6 DEF MarkOK, InFlush, FlushLabels
<1>8. LastRecordAt(at, work.ws)
  BY <1>6 DEF LastRecordAt, FreeLabels, OpenLabels
<1> QED BY <1>3, <1>4, <1>7, <1>8 DEF Clean, Tended

(* Clean lasts as long as no access fails.                                   *)
LEMMA CleanInvStep ==
  TypeInv /\ TypeInv' /\ SafeInv /\ CleanInv /\ [Next]_vars => CleanInv'
<1> SUFFICES ASSUME TypeInv, TypeInv', SafeInv, CleanInv, [Next]_vars, Reliable'
             PROVE  Clean'
  BY DEF CleanInv
<1>1. Ready
  BY FaultsGrow DEF Ready, Before, Reliable, SafeInv, CleanInv
<1>2. CASE Next
  <2>1. Tended' /\ reply' # "denied"
    BY <1>1, <1>2, TendedStep, NobodyDenied
  <2>2. retW' = "restore" => Landed(Recovered)'
    BY <1>1, LandedStep
  <2> QED BY <2>1, <2>2 DEF Clean
<1>3. CASE UNCHANGED vars
  <2>1. Clean
    BY <1>1 DEF Ready
  <2>2. Recovered' = Recovered
    BY <1>3, RecoveredIs DEF vars
  <2>3. Tended'
    BY <1>3, <2>1 DEF vars, Clean, Tended, JournalsOK, MarkOK, InFlush, at, SpareThen
  <2>4. Landed(Recovered)' <=> Landed(Recovered)
    BY <1>3, <2>2 DEF vars, Landed
  <2> QED BY <1>3, <2>1, <2>3, <2>4 DEF vars, Clean
<1> QED BY <1>2, <1>3

(* At every moment, as long as flash works, the last record and the mark     *)
(* VARIABLE_STORE_HEALTHY are what the label of the driver says (FtwMisc.c,  *)
(* FtwLite.c and FtwWorkSpace.c): nothing is left to clean up by a caller.   *)
THEOREM CleanCorrect == Spec => []CleanInv
<1>1. Init => CleanInv
  BY InitClean DEF CleanInv
<1> QED BY <1>1, CleanInvStep, TypeCorrect, SafeCorrect, PTL DEF Spec

(* As long as flash works, whoever finds the variable store marked           *)
(* VARIABLE_STORE_HEALTHY, at any moment and after any loss of power, finds  *)
(* no block of it erased or half written: FlushSpareBlockToWorkingBlock      *)
(* takes the mark away before it erases and writes it last.                  *)
THEOREM MarkedIsWhole == Spec => [](Reliable => HealthyIsWhole)
<1>1. CleanInv => (Reliable => HealthyIsWhole)
  BY DEF CleanInv, Clean, Tended, MarkOK, Marked, HealthyIsWhole
<1> QED BY <1>1, CleanCorrect, PTL

(* As long as flash works, a boot of InitializeFtwLite leaves the driver     *)
(* with a valid header, a store marked healthy and a free record, whatever   *)
(* was interrupted before, and CommonFtwWrite denies access to nobody.       *)
THEOREM IdleAfterAnything == Spec => [](Reliable => IdleIsClean)
<1>1. SafeInv /\ CleanInv => (Reliable => IdleIsClean)
  <2> SUFFICES ASSUME Safe, Clean PROVE IdleIsClean
    BY DEF SafeInv, CleanInv
  <2>1. reply # "denied" /\ Marked(work, spare) /\ LastRecordAt(at, work.ws)
    BY DEF Clean, Tended, MarkOK
  <2>2. ASSUME pc = "idle"
        PROVE  /\ IsValidWorkSpace(work.ws) /\ work.healthy
               /\ RecordAt(work.ws, GetLastRecord(work.ws)) = {}
    <3>1. at = "idle" /\ WorkThen = work
      BY <2>2 DEF at, WorkThen, JobLabels
    <3>2. Settled(work)
      BY <3>1 DEF Safe, Holds, Assertion
    <3>3. Current(work.ws) = {}
      BY <2>1, <3>1 DEF LastRecordAt, FreeLabels
    <3> QED BY <2>1, <3>2, <3>3 DEF Marked, Settled, Valid, Current
  <2> QED BY <2>1, <2>2 DEF IdleIsClean
<1> QED BY <1>1, SafeCorrect, CleanCorrect, PTL

(* The step that reports success.                                            *)
LEMMA SuccessStep ==
  ASSUME Ready, [Next]_vars, reply' = "success", reply # "success"
  PROVE  \A b \in Data : req[b] # Keep => work.data[b] = req[b]
<1>1. WriteEnd
  <2>1. ~(Write \/ Crash \/ WriteAllocate \/ WriteBody \/ WriteMark)
    BY DEF Write, Crash, WriteAllocate, WriteBody, WriteMark, WriteReturns
  <2>2. ~(EraseStep \/ WriteStep \/ ReclaimStart \/ ReclaimFlush \/ ReclaimRestore
          \/ WriteRecordSpare \/ WriteRecordDone \/ AbortMark \/ WriteSpare
          \/ WriteRestore)
    BY DEF EraseStep, WriteStep, ReclaimStart, ReclaimFlush, ReclaimRestore,
       WriteRecordSpare, WriteRecordDone, AbortMark, WriteSpare, WriteRestore, caller
  <2>3. ~(FlushSetSpareValid \/ FlushCopy \/ FlushSetHealthy \/ FlushSetValid)
    BY DEF FlushSetSpareValid, FlushCopy, FlushSetHealthy, FlushSetValid, caller
  <2>4. ~(BootRefresh \/ BootValidate \/ BootAbort \/ BootRefreshAgain \/ BootRollback
          \/ BootRestart \/ BootRestarted \/ BootDirty \/ BootDone)
    BY DEF BootRefresh, BootValidate, BootAbort, BootRefreshAgain, BootRollback,
       BootRestart, BootRestarted, BootDirty, BootDone, caller
  <2>5. ~UNCHANGED vars
    BY DEF vars
  <2> QED BY <2>1, <2>2, <2>3, <2>4, <2>5, NoneReports DEF Next, Driver, Ready
<1>2. /\ pc = "end" /\ Settled(work) /\ Recoverable(work, spare) /\ CallerOK
  BY <1>1, AtLabel DEF Ready, WriteEnd, JobLabels, Assertion
<1>3. retW = "restore"
  <2>1. at = "end"
    BY <1>2, ReadyAt DEF JobLabels
  <2> QED BY <1>2, <2>1 DEF CallerOK, Effective
<1>4. Recovered = work.data
  BY <1>2, RecoverableSettled, RecoveredIs
<1> QED BY <1>3, <1>4 DEF Ready, Clean, Landed

(* As long as flash works, a caller of CommonFtwWrite that is told           *)
(* EFI_SUCCESS has its data in the working block, wherever power was lost    *)
(* before, and not only in the spare block, which is restored.               *)
THEOREM SuccessIsThere == Spec /\ []Reliable => SuccessIsInFlash
<1> DEFINE Told == reply' = "success" /\ reply # "success"
                     => \A b \in Data : req[b] # Keep => work.data[b] = req[b]
<1>1. TypeInv /\ TypeInv' /\ SafeInv /\ CleanInv /\ Reliable /\ Reliable' /\ [Next]_vars
      => [Told]_vars
  BY SuccessStep DEF Ready, Before, SafeInv, CleanInv
<1>2. SuccessIsInFlash <=> [][Told]_vars
  BY DEF SuccessIsInFlash
<1> QED BY <1>1, <1>2, TypeCorrect, SafeCorrect, CleanCorrect, PTL DEF Spec
=============================================================================
