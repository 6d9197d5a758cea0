------------------------------- MODULE Trail -------------------------------
(***************************************************************************)
(* The sinks of the audit log (security/audit.py, security/audit_sink.py)  *)
(* and of the trace recorder (observability/trace_sink.py).  Both keep     *)
(* what they are given in memory, up to a limit, and write it to a file    *)
(* that is rotated; they differ in what they remember: the audit sink the  *)
(* last entries, the trace sink the spans of each correlation id, by the   *)
(* age of the id.  A lock makes each call one step.                        *)
(*                                                                         *)
(* An entry is its number; log says which correlation id it carries.  Not  *)
(* modelled: the other fields, a line that is written in part.  The import *)
(* of a file appends to a copy of the entries and changes nothing.         *)
(***************************************************************************)
EXTENDS Naturals, Sequences, FiniteSets

CONSTANTS
  Ids,         \* correlation ids
  MemoryLimit, \* max_entries, max_traces
  MaxLines,    \* max_bytes, in lines
  MaxLogged    \* bound: the entries ever made

ASSUME TrailConstantsOK ==
  MemoryLimit \in Nat \ {0} /\ MaxLines \in Nat \ {0} /\ MaxLogged \in Nat

VARIABLES
  sink,     \* "audit" or "trace"
  memory,   \* the entries of the deque; the groups of the dict, oldest first
  file,     \* the lines of the current file
  rotated,  \* the lines of <path>.1
  log,      \* history: the correlation id of every entry that was handed in
  written,  \* history: the entries whose line was written, in order
  fresh,    \* history: how many entries were handed in before memory was cleared
  evicted   \* history: ids whose group was dropped since

trailVars == <<sink, memory, file, rotated, log, written, fresh, evicted>>

-----------------------------------------------------------------------------
(* What is kept in memory.                                                 *)

LastOf(s, n) == SubSeq(s, IF Len(s) > n THEN Len(s) - n + 1 ELSE 1, Len(s))

\* The entries that were handed in for some ids since memory was cleared.
Since(ids) == {i \in fresh + 1 .. Len(log) : log[i] \in ids}

\* The sequence has the entries of the set, oldest first.
Lists(s, entries) ==
  /\ {s[i] : i \in DOMAIN s} = entries
  /\ \A i, j \in DOMAIN s : i < j => s[i] < s[j]

\* setdefault(): a group keeps the place it got when its id was new.
Grouped(groups, id, n) ==
  IF \E i \in DOMAIN groups : groups[i].id = id
  THEN [i \in DOMAIN groups |->
          IF groups[i].id = id THEN [groups[i] EXCEPT !.spans = Append(@, n)] ELSE groups[i]]
  ELSE Append(groups, [id |-> id, spans |-> <<n>>])

\* A fault: the newest group makes room.
RememberOldGroups(id, n) ==
  /\ sink = "trace"
  /\ LET groups == Grouped(memory, id, n)
     IN  /\ memory' = SubSeq(groups, 1, IF Len(groups) > MemoryLimit THEN MemoryLimit ELSE Len(groups))
         /\ evicted' = evicted

RememberSpan(id, n) ==
  /\ sink = "trace"
  /\ LET groups == Grouped(memory, id, n)
         gone   == 1 .. (Len(groups) - Len(LastOf(groups, MemoryLimit)))
     IN  /\ memory' = LastOf(groups, MemoryLimit)
         /\ evicted' = evicted \cup {groups[i].id : i \in gone}

\* A fault: the entries in memory are not limited.
RememberEveryEntry(n) ==
  /\ sink = "audit"
  /\ memory' = Append(memory, n)
  /\ UNCHANGED evicted

RememberEntry(n) ==
  /\ sink = "audit"
  /\ memory' = LastOf(Append(memory, n), MemoryLimit)
  /\ UNCHANGED evicted

-----------------------------------------------------------------------------
(* The file.                                                               *)

\* A fault: the rotation does not look at the size.
StoreLineAlways(n) ==
  \E rotates, writes \in BOOLEAN :
    /\ rotated' = IF rotates THEN file ELSE rotated
    /\ LET rest == IF rotates THEN <<>> ELSE file
       IN  file' = IF writes THEN Append(rest, n) ELSE rest
    /\ written' = IF writes THEN Append(written, n) ELSE written

\* A rotation that fails is logged, a write that fails raises; the entry is in
\* memory by then.
StoreLine(n) ==
  \E rotates, writes \in BOOLEAN :
    /\ rotates => Len(file) >= MaxLines
    /\ rotated' = IF rotates THEN file ELSE rotated
    /\ LET rest == IF rotates THEN <<>> ELSE file
       IN  file' = IF writes THEN Append(rest, n) ELSE rest
    /\ written' = IF writes THEN Append(written, n) ELSE written

Store(id) ==
  /\ Len(log) < MaxLogged
  /\ log' = Append(log, id)
  /\ LET n == Len(log) + 1
     IN  (RememberEntry(n) \/ RememberSpan(id, n)) /\ StoreLine(n)
  /\ UNCHANGED <<sink, fresh>>

\* clear(), or a new process: the files stay.
Forget ==
  /\ memory # <<>>
  /\ memory' = <<>> /\ evicted' = {} /\ fresh' = Len(log)
  /\ UNCHANGED <<sink, file, rotated, log, written>>

TrailInit ==
  /\ sink \in {"audit", "trace"}
  /\ memory = <<>> /\ file = <<>> /\ rotated = <<>>
  /\ log = <<>> /\ written = <<>> /\ fresh = 0 /\ evicted = {}

TrailNext == Forget \/ \E id \in Ids : Store(id)

-----------------------------------------------------------------------------

TrailTypeOK ==
  /\ sink \in {"audit", "trace"} /\ evicted \subseteq Ids /\ fresh \in 0 .. Len(log)
  /\ Len(memory) <= MemoryLimit /\ log \in Seq(Ids)
  /\ written \in Seq(1 .. Len(log)) /\ Len(file) <= Len(log) /\ Len(rotated) <= Len(log)

\* The two files hold, in order and without a gap, the last lines that could be
\* written, and never fewer than fill one file, whichever rotations and writes
\* fail and whenever the process starts anew (FileAuditSink, FileTraceSink:
\* "the file is the durable copy").
FilesKeepTheLatest ==
  LET disk == rotated \o file
  IN  /\ disk = LastOf(written, Len(disk))
      /\ Len(disk) = Len(written) \/ Len(disk) >= MaxLines

\* Memory holds the latest entries whatever the file does, and a trace that is
\* there is whole, unless its id was dropped before to make room.
MemoryIsWhole ==
  /\ sink = "audit" => Lists(memory, {i \in Since(Ids) : i + MemoryLimit > Len(log)})
  /\ sink = "trace" =>
       \A id \in Ids \ evicted :
         LET mine == {i \in DOMAIN memory : memory[i].id = id}
         IN  IF mine = {} THEN Since({id}) = {}
             ELSE \A i \in mine : Lists(memory[i].spans, Since({id}))
=============================================================================
