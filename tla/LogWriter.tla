------------------------------- MODULE LogWriter -------------------------------
(***************************************************************************)
(* The encrypted body log.  Writers append records to the file of the      *)
(* current hour and hand out references "path:offset:length"; readers read *)
(* that many bytes at that offset.  The key of a record is derived from    *)
(* its offset, so a reference opens a record only where it was written.    *)
(*                                                                         *)
(* A file is its sequence of bytes, each marked with the record it belongs *)
(* to and its place in it.  Records of Size bytes; all of Write is one     *)
(* step because of the mutex, except that the process may crash in it      *)
(* with any part of the record written.                                    *)
(***************************************************************************)
EXTENDS Naturals, Sequences

CONSTANTS
  Size,              \* bytes of a record
  Hours,             \* bound: hours that pass, each with a file of its own
  MaxRecords,        \* bound: calls of Write
  MaxFaults          \* bound: crashes, failed opens and failed writes

ASSUME SizeAssumption == Size \in Nat \ {0}
ASSUME WriterBounds ==
  Hours \in Nat \ {0} /\ MaxRecords \in Nat /\ MaxFaults \in Nat

VARIABLES
  hour,              \* the current hour
  file,              \* the file of each hour
  state,             \* Writer.fh: "none", "open" or "closed"
  cur, pos,          \* Writer.cur, an hour or 0, and Writer.pos
  refs,              \* references handed out: record, hour and offset
  nextRecord,        \* the record of the next Write
  spoiled,           \* history: hours in which a write ended short
  faults             \* counter of the bound

handle == <<state, cur, pos>>
writerVars == <<hour, file, handle, refs, nextRecord, spoiled, faults>>

Hour == 1 .. Hours
Record == 1 .. MaxRecords
Byte == [record : Record, at : 0 .. Size - 1]
Ref == [record : Record, hour : Hour, offset : 0 .. MaxRecords * Size]

WriterTypeOK ==
  /\ hour \in Hour
  /\ file \in [Hour -> Seq(Byte)]
  /\ state \in {"none", "open", "closed"}
  /\ cur \in 0 .. Hours /\ pos \in 0 .. MaxRecords * Size
  /\ refs \subseteq Ref
  /\ nextRecord \in 1 .. MaxRecords + 1
  /\ spoiled \subseteq Hour
  /\ faults \in 0 .. MaxFaults

WriterInit ==
  /\ hour = 1 /\ file = [h \in Hour |-> << >>]
  /\ state = "none" /\ cur = 0 /\ pos = 0
  /\ refs = {}
  /\ nextRecord = 1 /\ spoiled = {}
  /\ faults = 0

(* The first n bytes of the framed record. *)
Bytes(record, n) == [i \in 1 .. n |-> [record |-> record, at |-> i - 1]]

(* Rotation: a new hour's file is opened at its end; the same path is not  *)
(* opened again, whether the handle is still open or not.                  *)
Rotates == cur # hour

(* slip: the position of the old file is kept *)
StartKeepsPos == IF cur = 0 THEN Len(file[hour]) ELSE pos

Start == IF Rotates THEN Len(file[hour]) ELSE pos
Usable == Rotates \/ state = "open"

(* fh.Write; O_APPEND puts the bytes at the end, wherever pos is. *)
AppendBytes(n) == file' = [file EXCEPT ![hour] = @ \o Bytes(nextRecord, n)]

(* Write succeeds. *)
Write ==
  /\ nextRecord <= MaxRecords
  /\ Usable
  /\ AppendBytes(Size)
  /\ state' = "open" /\ cur' = hour /\ pos' = Start + Size
  /\ refs' = refs \cup {[record |-> nextRecord, hour |-> hour, offset |-> Start]}
  /\ nextRecord' = nextRecord + 1
  /\ UNCHANGED <<hour, spoiled, faults>>

Fault == faults < MaxFaults /\ faults' = faults + 1

(* fh.Write writes n bytes and fails, as when the disk is full; Write      *)
(* returns before it moves pos.                                            *)
WriteEndsShort(n) ==
  /\ Fault
  /\ nextRecord <= MaxRecords
  /\ Usable
  /\ AppendBytes(n)
  /\ state' = "open" /\ cur' = hour /\ pos' = Start
  /\ nextRecord' = nextRecord + 1
  /\ spoiled' = IF n > 0 THEN spoiled \cup {hour} ELSE spoiled
  /\ UNCHANGED <<hour, refs>>

(* The new hour's file cannot be opened; the old one is closed by then. *)
OpenFails ==
  /\ Fault
  /\ nextRecord <= MaxRecords
  /\ Rotates
  /\ state' = IF state = "open" THEN "closed" ELSE state
  /\ nextRecord' = nextRecord + 1
  /\ UNCHANGED <<hour, file, cur, pos, refs, spoiled>>

(* The handle is closed and the path is still the current one: Write fails *)
(* until the hour is over, though the comment of Close says it reopens.    *)
WriteToClosed ==
  /\ nextRecord <= MaxRecords
  /\ ~Usable
  /\ nextRecord' = nextRecord + 1
  /\ UNCHANGED <<hour, file, handle, refs, spoiled, faults>>

(* A new process has a new Writer. *)
NewWriter == state' = "none" /\ cur' = 0 /\ pos' = 0

(* The process dies in Write with n bytes of the record in the file. *)
CrashInWrite(n) ==
  /\ Fault
  /\ nextRecord <= MaxRecords
  /\ Usable
  /\ AppendBytes(n)
  /\ NewWriter
  /\ nextRecord' = nextRecord + 1
  /\ UNCHANGED <<hour, refs, spoiled>>

(* Proxy.Stop: cur stays. *)
Close ==
  /\ state = "open"
  /\ state' = "closed"
  /\ UNCHANGED <<hour, file, cur, pos, refs, nextRecord, spoiled, faults>>

(* main returns after Close. *)
Restart ==
  /\ state # "none"
  /\ NewWriter
  /\ UNCHANGED <<hour, file, refs, nextRecord, spoiled, faults>>

HourPasses ==
  /\ hour < Hours
  /\ hour' = hour + 1
  /\ UNCHANGED <<file, handle, refs, nextRecord, spoiled, faults>>

WriterStep ==
  \/ Write
  \/ \E n \in 0 .. Size - 1 : WriteEndsShort(n)
  \/ OpenFails \/ WriteToClosed \/ Close \/ HourPasses

WriterDies == Restart \/ \E n \in 0 .. Size : CrashInWrite(n)

WriterNext == WriterStep \/ WriterDies

WriterSpec == WriterInit /\ [][WriterNext]_writerVars
-----------------------------------------------------------------------------
(* ReadRecord and streamBody: the bytes at the reference decrypt if they   *)
(* are a whole record that was written at this offset.                     *)
Readable(ref) ==
  LET f == file[ref.hour] IN
    /\ ref.offset + Size <= Len(f)
    /\ \A i \in 1 .. Size : f[ref.offset + i] = [record |-> ref.record, at |-> i - 1]

(* writer.go Write, crypto/index.js: a reference that was handed out can   *)
(* be read for ever, whatever crashes, restarts and rotations follow; a    *)
(* write that ends short does harm in the file of its hour only.           *)
RefsSurvive == \A ref \in refs : ref.hour \notin spoiled => Readable(ref)

(* Why: the writer knows where its file ends. *)
WriterIsAtTheEnd == state = "open" /\ cur \notin spoiled => pos = Len(file[cur])
=============================================================================
