----------------------------- MODULE RunHistory -----------------------------
(***************************************************************************)
(* The record of run events (core/run_history.py): the events kept in      *)
(* memory for queries, the queue of the ones waiting to be written, the    *)
(* writer thread that comes and goes, the file and its compaction, and the *)
(* runs folded from the events (core/run_lifecycle.py).                    *)
(*                                                                         *)
(* Events are published in the order of a script; an event is named by its *)
(* place in it.  What the fold needs of an event is its run and its kind.  *)
(* Of the file the model keeps the lines that can be read, each an event,  *)
(* and the number of the others, whose places tell nothing: an interrupted *)
(* write may leave the last line without its end (torn), and the next line *)
(* written then continues it.                                              *)
(***************************************************************************)
EXTENDS Integers, Sequences, FiniteSets, SequencesExt

CONSTANTS
  Scripts,       \* sequences of events: run, kind
  Capacity,      \* max_events: events kept in memory, waiting and after a compaction
  BatchSize,     \* events written at once
  Slack,         \* lines the file may have beyond Capacity before it is compacted
  MaxCrashes,    \* bound: restarts
  MaxFailures    \* bound: writes and compactions that fail

ASSUME HistoryAssumption ==
  /\ Capacity \in Nat \ {0} /\ BatchSize \in Nat \ {0} /\ Slack \in Nat
  /\ MaxCrashes \in Nat /\ MaxFailures \in Nat

VARIABLES
  script,
  published,   \* events published so far
  memory,      \* _events
  pending,     \* _pending
  writer,      \* the writer thread: none, looking, waiting, writing, compacting
  batch,       \* what it has taken
  file,        \* the lines of the file that can be read
  junk,        \* its other lines
  torn,        \* the last line has no end
  lines,       \* _event_count
  error,       \* _write_error is set
  since,       \* events published before this process started
  swallowed,   \* history: events written onto a torn line
  crashes, failures

historyVars == <<script, published, memory, pending, writer, batch, file, junk, torn, lines,
                 error, since, swallowed, crashes, failures>>
fileVars == <<file, junk, torn, lines, swallowed>>

Recorded == {"rule_triggered", "workflow_failed", "workflow_completed", "action_executed",
             "run_queued", "run_dropped", "run_replaced"}
Terminal == {"failed", "succeeded", "dropped", "replaced"}

LastOf(s) == SubSeq(s, (IF Len(s) > Capacity THEN Len(s) - Capacity ELSE 0) + 1, Len(s))

HistoryInit ==
  /\ script \in Scripts
  /\ published = 0 /\ since = 0
  /\ memory = <<>> /\ pending = <<>> /\ batch = <<>>
  /\ writer = "none"
  /\ file = <<>> /\ junk = 0 /\ torn = FALSE /\ lines = 0
  /\ error = FALSE
  /\ swallowed = {}
  /\ crashes = 0 /\ failures = 0

(***************************************************************************)
(* Recording and writing.                                                  *)
(***************************************************************************)

\* record_async: the oldest waiting event makes room in a full queue, which is an error.
Enqueue(e) ==
  /\ memory' = LastOf(Append(memory, e))
  /\ pending' = LastOf(Append(pending, e))
  /\ error' = (error \/ Len(pending) = Capacity)
  /\ writer' = IF writer = "none" THEN "looking" ELSE writer

\* An event is published; kinds that tell nothing about a run are not recorded.
Publish ==
  /\ published < Len(script)
  /\ published' = published + 1
  /\ IF script[published + 1].kind \in Recorded
       THEN Enqueue(published + 1)
       ELSE UNCHANGED <<memory, pending, error, writer>>
  /\ UNCHANGED <<script, batch, fileVars, since, crashes, failures>>

\* The writer finds nothing and waits for a quarter of a second.
WriterWaits ==
  /\ writer = "looking" /\ pending = <<>>
  /\ writer' = "waiting"
  /\ UNCHANGED <<script, published, memory, pending, batch, fileVars, error, since, crashes, failures>>

\* Mutant: it ends without another look at the queue.
WriterExitsAnyway ==
  /\ writer = "waiting"
  /\ writer' = "none"
  /\ UNCHANGED <<script, published, memory, pending, batch, fileVars, error, since, crashes, failures>>

\* It has waited in vain and ends, under the lock.
WriterExits ==
  /\ writer = "waiting" /\ pending = <<>>
  /\ writer' = "none"
  /\ UNCHANGED <<script, published, memory, pending, batch, fileVars, error, since, crashes, failures>>

WriterTakes ==
  /\ writer \in {"looking", "waiting"} /\ pending # <<>>
  /\ LET n == IF Len(pending) < BatchSize THEN Len(pending) ELSE BatchSize
     IN  /\ batch' = SubSeq(pending, 1, n)
         /\ pending' = SubSeq(pending, n + 1, Len(pending))
  /\ writer' = "writing"
  /\ UNCHANGED <<script, published, memory, fileVars, error, since, crashes, failures>>

\* Whole lines are appended: the first of them continues a torn one, and both are lost.
Appends(events) ==
  /\ file' = file \o (IF torn THEN Tail(events) ELSE events)
  /\ swallowed' = IF torn THEN swallowed \cup {Head(events)} ELSE swallowed

BatchWritten ==
  /\ writer = "writing"
  /\ Appends(batch)
  /\ torn' = FALSE
  /\ lines' = lines + Len(batch)
  /\ UNCHANGED junk
  /\ batch' = <<>>
  /\ writer' = IF lines + Len(batch) > Capacity + Slack THEN "compacting" ELSE "looking"
  /\ UNCHANGED <<script, published, memory, pending, error, since, crashes, failures>>

\* What an interrupted write leaves in the file: the first n lines and perhaps a piece of the next.
WrittenUpTo(n, piece) ==
  /\ piece => n < Len(batch)
  /\ IF n = 0
       THEN /\ junk' = IF piece /\ ~torn THEN junk + 1 ELSE junk
            /\ torn' = (torn \/ piece)
            /\ UNCHANGED <<file, swallowed>>
       ELSE /\ file' = file \o (IF torn THEN SubSeq(batch, 2, n) ELSE SubSeq(batch, 1, n))
            /\ junk' = IF piece THEN junk + 1 ELSE junk
            /\ torn' = piece
            /\ swallowed' = IF torn THEN swallowed \cup {batch[1]} ELSE swallowed

\* The write fails; the batch is not tried again.
BatchFails ==
  /\ writer = "writing" /\ failures < MaxFailures
  /\ \E n \in 0..Len(batch), piece \in BOOLEAN : WrittenUpTo(n, piece)
  /\ failures' = failures + 1
  /\ error' = TRUE
  /\ batch' = <<>>
  /\ writer' = "looking"
  /\ UNCHANGED <<script, published, memory, pending, lines, since, crashes>>

\* The last events that can be read go to a new file that replaces the old one.
Compacts ==
  /\ writer = "compacting"
  /\ file' = LastOf(file)
  /\ junk' = 0 /\ torn' = FALSE
  /\ lines' = Len(LastOf(file))
  /\ writer' = "looking"
  /\ UNCHANGED <<script, published, memory, pending, batch, error, since, swallowed, crashes, failures>>

CompactionFails ==
  /\ writer = "compacting" /\ failures < MaxFailures
  /\ failures' = failures + 1
  /\ error' = TRUE
  /\ writer' = "looking"
  /\ UNCHANGED <<script, published, memory, pending, batch, fileVars, since, crashes>>

\* The process dies, in the middle of a write or elsewhere, and a new one reads the file.
Restart ==
  /\ crashes < MaxCrashes
  /\ IF writer = "writing"
       THEN \E n \in 0..Len(batch), piece \in BOOLEAN : WrittenUpTo(n, piece)
       ELSE UNCHANGED <<file, junk, torn, swallowed>>
  /\ crashes' = crashes + 1
  /\ memory' = LastOf(file')
  /\ lines' = Len(file') + junk'
  /\ pending' = <<>> /\ batch' = <<>>
  /\ writer' = "none" /\ error' = FALSE
  /\ since' = published
  /\ UNCHANGED <<script, published, failures>>

WriterStep == WriterWaits \/ WriterExits \/ WriterTakes \/ BatchWritten \/ Compacts
Disturbance == BatchFails \/ CompactionFails \/ Restart
HistoryNext == Publish \/ WriterStep \/ Disturbance

HistorySpec == HistoryInit /\ [][HistoryNext]_historyVars /\ WF_historyVars(WriterStep)

(***************************************************************************)
(* The runs shown.                                                         *)
(***************************************************************************)

\* Mutant: an event that comes late is applied to a run that is over.
StatusAfterAnyway(kind, current) ==
  CASE kind = "run_queued" -> "queued"
    [] kind = "run_dropped" -> "dropped"
    [] kind = "run_replaced" -> "replaced"
    [] kind = "workflow_failed" -> "failed"
    [] kind = "workflow_completed" -> "succeeded"
    [] kind = "action_executed" /\ current = "queued" -> "running"
    [] OTHER -> current

\* status_after, as _apply_event uses it: nothing follows a terminal status.
StatusAfter(kind, current) ==
  IF current \in Terminal THEN current
  ELSE CASE kind = "run_queued" -> "queued"
         [] kind = "run_dropped" -> "dropped"
         [] kind = "run_replaced" -> "replaced"
         [] kind = "workflow_failed" -> "failed"
         [] kind = "workflow_completed" -> "succeeded"
         [] kind = "action_executed" /\ current = "queued" -> "running"
         [] OTHER -> current

\* Events of other runs are passed over; the first of its own makes the run.
Applied(run, e, status) ==
  IF script[e].run # run THEN status
  ELSE StatusAfter(script[e].kind, IF status = "unknown" THEN "running" ELSE status)

\* build_runs for one run, event by event: "unknown" while no event of it was met.
Statuses(run, events) ==
  LET status[n \in 0..Len(events)] ==
        IF n = 0 THEN "unknown" ELSE Applied(run, events[n], status[n - 1])
  IN  status

Shown(run) == Statuses(run, memory)[Len(memory)]

(***************************************************************************)
(* Properties.                                                             *)
(***************************************************************************)

RunsOf == {script[i].run : i \in 1..published}

\* What is kept is in the order of publication and without repetition, in memory and on its
\* way to the file and in it: a batch that failed is not written again behind later ones.
OrderKept ==
  LET written == file \o batch \o pending
  IN  /\ \A i, j \in DOMAIN written : i < j => written[i] < written[j]
      /\ \A i, j \in DOMAIN memory : i < j => memory[i] < memory[j]

\* When flush() returns True, every event this process has recorded can be read from the file,
\* except those a compaction had no room for and the one event that an earlier process's torn
\* line may have swallowed: no event is left in the queue by a writer that ended as it came in,
\* and none was lost without the error that makes flush() return False.  What is written keeps
\* its order.
FlushHonest ==
  /\ OrderKept
  /\ (writer = "none" /\ ~error) =>
       \A e \in {e \in since + 1..published : script[e].kind \in Recorded} :
         \/ \E i \in DOMAIN file : file[i] = e
         \/ e \in swallowed
         \/ Cardinality({i \in DOMAIN file : file[i] > e}) >= Capacity

\* A run that has been shown at an end is not shown at another one, across failures of the
\* writer and restarts, as long as none of its own events has been lost: late events of a run
\* that is over change nothing (run_lifecycle.py: the end, once decided, stands).
KeepsAll(run, events) ==
  \A e \in 1..published : (script[e].run = run /\ script[e].kind \in Recorded)
                            => \E i \in DOMAIN events : events[i] = e
EndStands ==
  [][\A run \in RunsOf :
       (Shown(run) \in Terminal /\ KeepsAll(run, memory) /\ KeepsAll(run, memory)')
         => Shown(run)' = Shown(run)]_historyVars

=============================================================================
