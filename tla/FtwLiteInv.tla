----------------------------- MODULE FtwLiteInv -----------------------------
(* The inductive invariants of FtwLite: what holds at each of its labels.    *)
EXTENDS FtwLite

(* Where the procedures that are called return to.                           *)
ReclaimCallers == {"check", "validate", "rollback", "booted"}
FlushCallers   == {"reclaim_restore", "record_done", "recovered"}
AbortCallers   == {"refresh", "restart"}
RecordCallers  == {"restore", "restarted"}

ReclaimLabels == {"reclaim", "reclaim_flush", "reclaim_restore"}
FlushLabels   == {"flush", "flush_copy", "flush_healthy", "flush_valid"}
RecordLabels  == {"record_spare", "record_done"}
JobLabels     == {"erase", "write"}

(* The label reached, when nothing interrupts it, by the erase or write in   *)
(* progress, if any.                                                         *)
at == IF pc \in JobLabels THEN job.ret ELSE pc

InFlush   == at \in FlushLabels
InReclaim == at \in ReclaimLabels \/ (InFlush /\ retF = "reclaim_restore")
InRecord  == at \in RecordLabels \/ (InFlush /\ retF = "record_done")

(* Labels at which FtwLastRecord may be past the last slot.                  *)
LastUnbounded == {"reclaim", "idle", "end", "boot", "refresh", "restart",
                  "dirty", "booted", "dead"}

(* A procedure knows where to return, and a write what to write.             *)
ControlOK ==
  /\ pc \in JobLabels => job \in Job /\ job.ret \notin JobLabels
  /\ InFlush => retF \in FlushCallers
  /\ InReclaim => retC \in ReclaimCallers
  /\ InRecord => retW \in RecordCallers
  /\ at = "abort" => retA \in AbortCallers
  /\ at \in {"check", "body", "copy"} \/ (InReclaim /\ retC = "check")
       => req \in Requests
  /\ at \notin LastUnbounded => last =< Slots

(* FtwLastRecord points at a record wherever the driver touches one, the     *)
(* loops stay in their bounds, and every procedure returns to a caller.      *)
TypeInv == TypeOK /\ ControlOK

-----------------------------------------------------------------------------
(* Safety of the store, as long as no access to flash fails and an erase is  *)
(* not cut in two.  w and s are what the working and the spare block hold.   *)

Valid(img) == IsValidWorkSpace(img.ws)
Current(ws) == RecordAt(ws, GetLastRecord(ws))
Tidy(ws) == ~Dirty(ws, GetLastRecord(ws))

(* The first k records of recs.                                              *)
Truncated(recs, k) == [r \in Records |-> IF r =< k THEN recs[r] ELSE {}]

(* The spare block, or the working block, is what the next boot recovers.    *)
Committed(w) == Valid(w) /\ InProgress(w.ws)
Settled(w)   == Valid(w) /\ ~InProgress(w.ws)

RecoveredFrom(w, s) ==
  IF Committed(w) \/ (~Valid(w) /\ Valid(s)) THEN s.data ELSE w.data

(* What flash must hold for the next boot, at any moment.                    *)
Recoverable(w, s) ==
  /\ Tidy(w.ws)
  /\ Settled(w) => Whole(w)
  /\ Committed(w) =>
       /\ Whole(s) /\ s.ws.sig
       /\ w.ws.recs = SetBit(s.ws, GetLastRecord(w.ws), "spare").recs
  /\ ~Valid(w) /\ Valid(s) =>
       /\ Whole(s) /\ Tidy(s.ws) /\ GetLastRecord(s.ws) =< Slots
       /\ \E k \in 0 .. Slots : w.ws.recs = Truncated(s.ws.recs, k)
  /\ ~Valid(w) /\ ~Valid(s) => Whole(w) /\ w.ws.recs = EmptyRecords

(* FtwWorkSpace and FtwLastRecord are what is in flash.                      *)
Sync(w) == mws.recs = w.ws.recs /\ last = GetLastRecord(w.ws)

(* A reclaim is entered with nothing in progress, and empties the journal.   *)
Idle(w, s) == Settled(w) \/ (~Valid(w) /\ ~Valid(s))
Emptied == mws.sig /\ mws.recs = EmptyRecords /\ last = 1
Unused(w) == Settled(w) \/ (~Valid(w) /\ w.ws.recs = EmptyRecords)

(* What a flush copies, for each of its callers.                             *)
FlushSource(s) ==
  /\ Whole(s) /\ Tidy(s.ws) /\ s.ws.sig
  /\ GetLastRecord(s.ws) =< Slots
  /\ mws.recs = s.ws.recs
  /\ last =< GetLastRecord(s.ws)
  /\ retF = "record_done" => last = GetLastRecord(s.ws) /\ InProgress(s.ws)
  /\ retF = "reclaim_restore" => Emptied

FlushReplaces(w, s) ==
  /\ retF = "record_done" => Committed(w) /\ w.ws.recs = s.ws.recs
  /\ retF = "recovered" => ~Valid(w) /\ Valid(s)
  /\ retF = "reclaim_restore" => s.data = w.data /\ Unused(w)

Flushed(w, s) == w.data = s.data /\ w.ws.sig /\ w.ws.recs = s.ws.recs

(* What holds when the driver is at label l.                                 *)
Assertion(l, w, s) ==
  /\ l \in {"idle", "booted", "restore", "end"} => Settled(w)
  /\ l \in {"check", "body", "copy", "dirty"} => Settled(w) /\ Sync(w)
  /\ l = "mark" =>
       Settled(w) /\ Sync(w) /\ s = [w EXCEPT !.data = Overlay(@, req)]
  /\ l = "record_spare" => Committed(w) /\ Sync(w)
  /\ l = "validate" => Sync(w) /\ (IsValidWorkSpace(mws) <=> Valid(w))
  /\ l \in {"rollback", "restart"} => Valid(w) /\ Sync(w)
  /\ l = "restarted" =>
       Settled(w) /\ mws.recs = w.ws.recs /\ last + 1 = GetLastRecord(w.ws)
  /\ l = "refresh" => Valid(w)
  /\ l \in {"recovered", "abort"} =>
       /\ Valid(w) /\ Whole(w) /\ mws.recs = w.ws.recs
       /\ last =< GetLastRecord(w.ws)
       /\ Committed(w) => w.data = s.data
  /\ l = "abort" /\ retA = "restart" => last = GetLastRecord(w.ws)
  /\ l = "reclaim" => mws.sig /\ RecordAt(mws, last) = {} /\ Idle(w, s)
  /\ l = "reclaim_flush" =>
       /\ Emptied /\ Unused(w)
       /\ s.data = w.data /\ s.ws.sig /\ ~s.ws.valid
       /\ s.ws.recs = EmptyRecords
  /\ l = "reclaim_restore" =>
       /\ Emptied /\ mws.valid
       /\ Valid(w) /\ w.ws.recs = EmptyRecords
  /\ l = "flush" => FlushSource(s) /\ FlushReplaces(w, s)
  /\ l = "flush_copy" => FlushSource(s) /\ FlushReplaces(w, s) /\ s.ws.valid
  /\ l = "flush_healthy" => FlushSource(s) /\ s.ws.valid /\ w = FlushBuffer(s)
  /\ l = "flush_valid" =>
       FlushSource(s) /\ s.ws.valid /\ Flushed(w, s) /\ ~w.ws.valid
  /\ l = "record_done" =>
       /\ Flushed(w, s) /\ Committed(w) /\ Sync(w) /\ Whole(w)

(* The assertion at the label a job returns to holds of what the job writes. *)
WorkThen  == IF pc \in JobLabels /\ job.dst = "work" THEN job.buf ELSE work
SpareThen == IF pc \in JobLabels /\ job.dst = "spare" THEN job.buf ELSE spare
Holds == Assertion(at, WorkThen, SpareThen)

(* The blocks of img before block i are those of buf.                        *)
CopiedTo(i, img, buf) ==
  /\ \A b \in Data : b < i => img.data[b] = buf.data[b]
  /\ i > 1 => img.healthy = buf.healthy

(* What a job overwrites is not needed.                                      *)
JobOK ==
  pc \in JobLabels =>
    /\ pc = "erase" => job.idx = 1
    /\ pc = "write" =>
         /\ ~job.eraseOnly
         /\ Target.ws = ErasedWs /\ CopiedTo(job.idx, Target, job.buf)
    /\ job.eraseOnly => job.buf = ErasedImage
    /\ job.dst = "work" => at = "flush_healthy" /\ Recovered = spare.data
    /\ job.dst = "spare" =>
         Settled(work) \/ (~Valid(work) /\ ~Valid(spare) /\ ~job.buf.ws.valid)

(* The labels at which a call of Write is in progress, and has taken effect. *)
Effective == at \in {"restore", "end"} \/ (InRecord /\ retW = "restore")
InCall == \/ at \in {"check", "body", "copy", "mark"}
          \/ InReclaim /\ retC = "check"
          \/ Effective

CallerOK ==
  /\ InCall <=> req # NoRequest
  /\ Effective <=> retW = "restore"

(* No access to flash has failed so far.                                     *)
Reliable == faults = 0 /\ ~TornErase

Safe == st = "ok" /\ Recoverable(work, spare) /\ JobOK /\ Holds /\ CallerOK

(* On flash that works, wherever power is lost, what a job of the driver is   *)
(* overwriting is never what the next boot needs.                            *)
SafeInv == Reliable => Safe

-----------------------------------------------------------------------------
(* What a caller finds, on flash that works.                                 *)

(* A record is allocated before anything else is written to it, except that  *)
(* FtwAbort may complete a free one.                                         *)
InOrder(ws) ==
  \A r \in Records : ws.recs[r] = {} \/ "alloc" \in ws.recs[r] \/ "done" \in ws.recs[r]

JournalsOK ==
  /\ InOrder(work.ws) /\ InOrder(spare.ws) /\ InOrder(saved.ws)
  /\ pc \in JobLabels => InOrder(job.buf.ws)

(* Whether the last record is free, allocated, or to be completed.           *)
FreeLabels == {"idle", "check", "restore", "end", "restarted", "dirty", "booted"}
OpenLabels == {"body", "copy", "mark"}

LastRecordAt(l, ws) ==
  /\ l \in FreeLabels => Current(ws) = {}
  /\ l \in OpenLabels => "alloc" \in Current(ws)
  /\ l = "restart" => ~NeedsRollback(Current(ws))

(* VARIABLE_STORE_HEALTHY: a working block with a valid work space is        *)
(* marked, and so is whatever a boot recovers.                               *)
Marked(w, s) ==
  /\ w.healthy => Whole(w)
  /\ Valid(w) \/ ~Valid(s) => w.healthy
  /\ Committed(w) \/ (~Valid(w) /\ Valid(s)) => s.healthy

(* The mark is not written before the copy has been read back, and then it   *)
(* is what the mark of the spare block was.                                  *)
MarkOK ==
  /\ Marked(work, spare)
  /\ pc = "write" /\ job.dst = "work" => ~work.healthy
  /\ InFlush \/ at = "reclaim_flush" => SpareThen.healthy
  /\ at = "flush_healthy" => wasHealthy
  /\ at = "flush_valid" => work.healthy

(* Once a write has taken effect, its data are what a boot recovers.         *)
Landed(data) == \A b \in Data : req[b] # Keep => data[b] = req[b]

Tended == JournalsOK /\ LastRecordAt(at, work.ws) /\ MarkOK
Clean  == Tended /\ reply # "denied" /\ (retW = "restore" => Landed(Recovered))

(* On flash that works, whatever was interrupted before leaves a caller      *)
(* nothing to clean up.                                                      *)
CleanInv == Reliable => Clean
=============================================================================
