---------------------------- MODULE JournalStore ----------------------------
(***************************************************************************)
(* familyclaw-durable's FileJournal and the pending-approval store built   *)
(* on it (JournalPendingStore; the agent's JournalResumableStore is the    *)
(* same code without a capacity).  A store appends put and delete rows to  *)
(* one file, its state is the replay of the file, and it compacts the file *)
(* now and then.  Several threads share a store; the journal's mutex makes *)
(* one append, one read or one whole compaction exclusive, and nothing     *)
(* else.                                                                   *)
(*                                                                         *)
(* The file is a list of terminated lines and a tail, which is what a      *)
(* crash or a failed write can leave without a line break.  A row that is  *)
(* written after a tail lands on the same physical line.                   *)
(***************************************************************************)
EXTENDS Naturals, Sequences, FiniteSets, SequencesExt

CONSTANTS
  Callers,     (* threads that use the store                               *)
  Keys,        (* approval identifiers                                     *)
  Values,      (* records                                                  *)
  Absent,      (* the value of a tombstone                                 *)
  None,        (* no thread, no row, no call                               *)
  Clean,       (* the file ends with a line break                          *)
  Fragment,    (* the file ends with a part of a row                       *)
  Junk,        (* a terminated line that does not parse                    *)
  Capacity,    (* PendingCapacity: records a put of a new key is let add to *)
  Faults,      (* what may go wrong: a subset of FaultKinds                *)
  MinRows,     (* AUTO_COMPACT_MIN_ROWS                                    *)
  Factor,      (* auto_compact_factor; 0 disables compaction by appends    *)
  MaxLines     (* bound of the model: appends stop at this length          *)

\* lost: a write or a rename fails and leaves nothing; unsynced: the row is in
\* the file but its fsync fails; short: a write fails after part of the row;
\* reopen: the file cannot be opened again after a compaction's rename.
FaultKinds == {"lost", "unsynced", "short", "reopen"}

Rows == [key : Keys, val : Values \cup {Absent}]

ASSUME StoreAssumption ==
  /\ Absent \notin Values
  /\ Clean \notin Rows /\ Fragment \notin Rows /\ Clean # Fragment
  /\ Junk \notin Rows
  /\ None \notin Callers /\ \A us \in SUBSET Rows : us # None
  /\ Faults \subseteq FaultKinds
  /\ \A n \in {Capacity, MinRows, Factor, MaxLines} : n \in Nat

VARIABLES
  lines,    (* the terminated lines of the file                            *)
  tail,     (* the unterminated rest: Clean, Fragment or a whole row       *)
  handle,   (* the write handle: closed, live, or on the unlinked old file *)
  holder,   (* the thread that holds the journal's mutex                   *)
  call,     (* what each thread is doing                                   *)
  owed      (* history: a call was cut off, no compaction has ended since  *)

file == <<lines, tail>>
vars == <<lines, tail, handle, holder, call, owed>>

\* pc: where the thread is; todo: rows it has still to append; row: the one
\* being written; rows: physical rows it counted; kept: what a compaction keeps.
Call(pc, todo) == [pc |-> pc, todo |-> todo, row |-> None, rows |-> 0, kept |-> <<>>]
Idle == Call("idle", {})

At(c, pc)  == call[c].pc = pc
Become(c, record) == call' = [call EXCEPT ![c] = record]
Goto(c, pc) == call' = [call EXCEPT ![c].pc = pc]
Return(c)  == Become(c, Idle)
Free       == holder = None /\ handle # "closed"   \* the mutex can be taken
Release    == holder' = None

-----------------------------------------------------------------------------
(* What is in the file *)

\* parse_entries_from_path: an unterminated last line is a row if it parses and
\* is skipped if it does not.
Entries == IF tail \in Rows THEN Append(lines, tail) ELSE lines

\* Any other line that does not parse makes every read an error.
Readable == \A i \in DOMAIN lines : lines[i] # Junk

\* reconstruct_state: a later row wins.
RowsOf(s, k)  == {i \in DOMAIN s : s[i] # Junk /\ s[i].key = k}
ValueOf(s, k) == IF RowsOf(s, k) = {} THEN Absent ELSE s[Max(RowsOf(s, k))].val
LiveIn(s)     == {k \in Keys : ValueOf(s, k) # Absent}

\* What a compaction keeps: one put row per live record, in the order of a hash
\* map.  No key has two rows, so the order shows nowhere.
KeptOf(s) == SetToSeq({[key |-> k, val |-> ValueOf(s, k)] : k \in LiveIn(s)})

Live == LiveIn(Entries)

\* Write all, part or all but the line break of a row at the end of the file.
WriteAll(r)  == /\ lines' = Append(lines, IF tail = Clean THEN r ELSE Junk)
                /\ tail' = Clean
WritePart(r) == /\ tail' \in IF tail = Clean THEN {Fragment, r} ELSE {Fragment}
                /\ UNCHANGED lines

\* A handle on the unlinked file writes where nobody reads.
Write(r) == IF handle = "live" THEN WriteAll(r) ELSE UNCHANGED file

Init ==
  /\ lines = <<>>
  /\ tail = Clean
  /\ handle = "live"
  /\ holder = None
  /\ call = [c \in Callers |-> Idle]
  /\ owed = FALSE

-----------------------------------------------------------------------------
(* put, remove, evict_expired *)

\* insert replays the file first for its capacity check, and fails if it cannot.
Put(c, k, v) ==
  /\ At(c, "idle") /\ Free /\ Readable
  /\ k \in Live \/ Cardinality(Live) < Capacity
  /\ Become(c, Call("append", {[key |-> k, val |-> v]}))
  /\ UNCHANGED <<file, handle, holder, owed>>

\* remove and evict_expired replay the file and write a tombstone for each
\* record found; the file may change between the two.
Delete(c, ks) ==
  /\ At(c, "idle") /\ Free /\ Readable
  /\ ks # {} /\ ks \subseteq Live
  /\ Become(c, Call("append", [key : ks, val : {Absent}]))
  /\ UNCHANGED <<file, handle, holder, owed>>

\* FileJournal::append takes the mutex.
AppendLock(c) ==
  /\ At(c, "append") /\ Free
  /\ Len(lines) < MaxLines
  /\ \E r \in call[c].todo : Become(c, [call[c] EXCEPT !.pc = "write", !.row = r])
  /\ holder' = c
  /\ UNCHANGED <<file, handle, owed>>

\* Mutant of Appended: removals do not look whether the log should be compacted.
Appended_NoCheckAfterDelete(c) ==
  LET left == call[c].todo \ {call[c].row}
  IN Become(c, Call(IF left # {} THEN "append"
                    ELSE IF call[c].row.val = Absent THEN "idle" ELSE "count", left))

\* After a row: the next one, or the compaction check.
Appended(c) ==
  LET left == call[c].todo \ {call[c].row}
  IN Become(c, Call(IF left # {} THEN "append" ELSE "count", left))

AppendOk(c) ==
  /\ At(c, "write")
  /\ Write(call[c].row)
  /\ Appended(c)
  /\ Release
  /\ UNCHANGED <<handle, owed>>

\* write_all, flush or sync_all fails: the call ends with an error.
AppendError(c) ==
  /\ At(c, "write")
  /\ \/ "lost" \in Faults /\ UNCHANGED file
     \/ "unsynced" \in Faults /\ Write(call[c].row)
     \/ "short" \in Faults /\ handle = "live" /\ WritePart(call[c].row)
  /\ owed' = TRUE
  /\ Return(c)
  /\ Release
  /\ UNCHANGED handle

-----------------------------------------------------------------------------
(* maybe_auto_compact, compact and FileJournal::compact_with *)

CountRows(c) ==
  /\ At(c, "count") /\ Free
  /\ IF Factor # 0 /\ Readable /\ Len(Entries) >= MinRows
     THEN Become(c, [call[c] EXCEPT !.pc = "decide", !.rows = Len(Entries)])
     ELSE Return(c)
  /\ UNCHANGED <<file, handle, holder, owed>>

\* The live records are counted in a read of their own.
Decide(c) ==
  /\ At(c, "decide") /\ Free
  /\ IF Readable /\ call[c].rows > Factor * Cardinality(Live)
     THEN Goto(c, "compact") ELSE Return(c)
  /\ UNCHANGED <<file, handle, holder, owed>>

\* compact, called by the operator.
Compact(c) ==
  /\ At(c, "idle") /\ Free
  /\ Become(c, Call("compact", {}))
  /\ UNCHANGED <<file, handle, holder, owed>>

\* Mutant of CompactRead: the rows are read, then the mutex is taken again.
CompactRead_Unlocks(c) ==
  /\ At(c, "compact") /\ Free
  /\ IF Readable
     THEN Become(c, [call[c] EXCEPT !.pc = "swap", !.kept = KeptOf(Entries)])
     ELSE Return(c)
  /\ UNCHANGED <<file, handle, holder, owed>>

\* The mutex is taken once, for the read and the swap.
CompactRead(c) ==
  /\ At(c, "compact") /\ Free
  /\ IF Readable
     THEN Become(c, [call[c] EXCEPT !.pc = "swap", !.kept = KeptOf(Entries)]) /\ holder' = c
     ELSE Return(c) /\ UNCHANGED holder
  /\ UNCHANGED <<file, handle, owed>>

\* atomic_swap_locked up to the rename: the temporary file holds the kept rows
\* and takes the place of the old one, on which the handle still is.
CompactRename(c) ==
  /\ At(c, "swap")
  /\ lines' = call[c].kept
  /\ tail' = Clean
  /\ handle' = "unlinked"
  /\ Goto(c, "reopen")
  /\ owed' = FALSE
  /\ UNCHANGED holder

\* The temporary file cannot be written, or not renamed.
CompactError(c) ==
  /\ At(c, "swap")
  /\ "lost" \in Faults
  /\ owed' = TRUE
  /\ Return(c)
  /\ Release
  /\ UNCHANGED <<file, handle>>

\* Mutant of CompactReopen: the new handle is opened and not stored.
CompactReopen_KeepsHandle(c) ==
  /\ At(c, "reopen")
  /\ Return(c)
  /\ Release
  /\ UNCHANGED <<file, handle, owed>>

\* The new handle; when it cannot be opened the old one stays.
CompactReopen(c) ==
  /\ At(c, "reopen")
  /\ handle' \in {"live"} \cup (IF "reopen" \in Faults THEN {"unlinked"} ELSE {})
  /\ Return(c)
  /\ Release
  /\ UNCHANGED <<file, owed>>

-----------------------------------------------------------------------------
(* the process *)

\* Every thread dies; a row that was being written is in the file in whole, in
\* part, or not at all.
Crash ==
  /\ handle # "closed"
  /\ IF holder # None /\ handle = "live" /\ call[holder].pc = "write"
     THEN \/ UNCHANGED file
          \/ WritePart(call[holder].row)
          \/ WriteAll(call[holder].row)
     ELSE UNCHANGED file
  /\ handle' = "closed"
  /\ Release
  /\ call' = [c \in Callers |-> Idle]
  /\ owed' = (owed \/ \E c \in Callers : call[c].pc \notin {"idle", "reopen"})

\* Mutant of Open: the fragment is tolerated and not removed.
Open_NoHeal ==
  /\ handle = "closed" /\ Readable
  /\ handle' = "live"
  /\ UNCHANGED <<file, holder, call, owed>>

\* FileJournal::open and the store's first read: heal_torn_trailing_fragment
\* removes a fragment and terminates a whole row.
Open ==
  /\ handle = "closed" /\ Readable
  /\ lines' = Entries
  /\ tail' = Clean
  /\ handle' = "live"
  /\ UNCHANGED <<holder, call, owed>>

Next ==
  \/ \E c \in Callers :
       \/ \E k \in Keys, v \in Values : Put(c, k, v)
       \/ \E ks \in SUBSET Keys : Delete(c, ks)
       \/ AppendLock(c) \/ AppendOk(c) \/ AppendError(c)
       \/ CountRows(c) \/ Decide(c) \/ Compact(c)
       \/ CompactRead(c) \/ CompactRename(c) \/ CompactError(c) \/ CompactReopen(c)
  \/ Crash \/ Open

Spec == Init /\ [][Next]_vars

-----------------------------------------------------------------------------
(* Properties *)

\* The mutex is held by a thread that is in a critical section, a closed
\* journal has no calls, and the handle is off the file only during a swap
\* (or after one that could not open the new file).
TypeOK ==
  /\ lines \in Seq(Rows \cup {Junk})
  /\ tail \in Rows \cup {Clean, Fragment}
  /\ handle \in {"closed", "live", "unlinked"}
  /\ holder \in Callers \cup {None}
  /\ \A c \in Callers :
       /\ call[c].todo \subseteq Rows
       /\ holder = c <=> call[c].pc \in {"write", "swap", "reopen"}
       /\ call[c].pc = "write" => call[c].row \in call[c].todo
       /\ handle = "closed" => call[c] = Idle
  /\ handle = "unlinked" => "reopen" \in Faults \/ \E c \in Callers : At(c, "reopen")
  /\ owed \in BOOLEAN

\* No crash, at whatever byte of a write, makes the file unreadable, also after
\* more rows have been appended (heal-on-open).
ReadsSucceed == Readable

\* A row whose append returned without an error is in the file that reads see
\* (FileJournal::append's fsync, "the crux of the crash-resistance guarantee").
AppendIsDurable ==
  [][\A c \in Callers :
       (At(c, "write") /\ call'[c].pc \in {"append", "count"})
         => /\ Len(Entries') > 0
            /\ Entries'[Len(Entries')] = call[c].row]_vars

\* Compaction keeps the log from growing: when no call is in progress it is
\* short, or at most Factor times the live records, unless a crash or an error
\* kept a call from its check since the last compaction.
LogBounded ==
  (\A c \in Callers : At(c, "idle")) /\ ~owed /\ Factor # 0
    => Len(Entries) < MinRows \/ Len(Entries) <= Factor * Cardinality(Live)

\* The map of DurableMap is the replay of the file; an update is due until its
\* row is in the file.
Promise == INSTANCE DurableMap
             WITH NoCall <- None, map <- [k \in Keys |-> ValueOf(Entries, k)],
                  due <- [c \in Callers |-> IF At(c, "idle") THEN None ELSE call[c].todo]

\* A store on FileJournal is a crash-safe map: replayed after any crash, failed
\* write or compaction it holds every update that was reported, and no other.
ImplementsDurableMap == Promise!Spec
=============================================================================
