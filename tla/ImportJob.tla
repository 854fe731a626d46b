----------------------------- MODULE ImportJob -----------------------------
(***************************************************************************)
(* The bookmark import: the endpoint creates a job and sends a task         *)
(* (api/routers/import_export.py), the task runs ImportBookmarksUseCase     *)
(* (tasks/import_tasks.py, application/use_cases/import_pipeline.py).  The   *)
(* broker's stream delivers a message again until a run has acknowledged it, *)
(* also while a slow run is still at work; a worker may die at any step.    *)
(***************************************************************************)
EXTENDS Naturals, Sequences, FiniteSets

CONSTANTS
  Jobs, NoJob,
  Unanswered,     \* in the place of the job whose commit was carried out without an answer
  Bookmarks(_),   \* the addresses a job's file holds, in its order
  Tasks,          \* executions of the task
  TaskOf(_),      \* the job whose message an execution takes
  FlushInterval   \* progress_flush_interval

\* The endpoint refuses a file without bookmarks.
ASSUME ImportAssumption ==
  /\ NoJob \notin Jobs /\ Unanswered \notin Jobs
  /\ \A j \in Jobs : /\ Bookmarks(j) \in Seq({Bookmarks(j)[n] : n \in DOMAIN Bookmarks(j)})
                     /\ Bookmarks(j) # <<>>
  /\ FlushInterval \in Nat \ {0}
  /\ \A t \in Tasks : TaskOf(t) \in Jobs

VARIABLES
  status,         \* of the job rows; "none" before and after there is one
  progress,       \* their counters
  importer,       \* the requests by address: the job that has created each and knows it,
                  \* NoJob if there is none, Unanswered if it counts as failed
  task,           \* the executions: where, and the counters they keep
  acked,          \* jobs whose message has been acknowledged
  passes,         \* history: executions that have begun the job
  racedJobs,          \* history: jobs two executions found pending before either wrote
  abandoned       \* history: jobs an execution has left before a last status

importVars == <<status, progress, importer, task, acked, passes, racedJobs, abandoned>>

Addresses == UNION {{Bookmarks(j)[n] : n \in DOMAIN Bookmarks(j)} : j \in Jobs}
NoProgress == [processed |-> 0, created |-> 0, skipped |-> 0, failed |-> 0]
JobCounters == [{"processed", "created", "skipped", "failed"} -> Nat]
Finished == {"completed", "failed"}

ImportTypeOK ==
  /\ status \in [Jobs -> {"none", "pending", "processing", "deleted"} \cup Finished]
  /\ progress \in [Jobs -> JobCounters]
  /\ importer \in [Addresses -> Jobs \cup {NoJob, Unanswered}]
  /\ \A t \in Tasks :
       /\ task[t].at \in {"off", "read", "claim", "import", "flush", "last flush", "last status",
                          "crash flush", "crash status", "ack", "over"}
       /\ task[t].count \in JobCounters
       /\ task[t].count.processed <= Len(Bookmarks(TaskOf(t)))
  /\ passes \in [Jobs -> Nat]
  /\ acked \subseteq Jobs /\ racedJobs \subseteq Jobs /\ abandoned \subseteq Jobs

ImportInit ==
  /\ status = [j \in Jobs |-> "none"] /\ progress = [j \in Jobs |-> NoProgress]
  /\ importer = [a \in Addresses |-> NoJob]
  /\ task = [t \in Tasks |-> [at |-> "off", count |-> NoProgress]]
  /\ passes = [j \in Jobs |-> 0]
  /\ acked = {} /\ racedJobs = {} /\ abandoned = {}

To(t, place) == task' = [task EXCEPT ![t].at = place]

-----------------------------------------------------------------------------
(* The endpoint *)

\* create_import_job, then kiq; when the send raises, the job stays pending and
\* has no message, like one that was acknowledged.
CreateJob(j) ==
  /\ status[j] = "none"
  /\ status' = [status EXCEPT ![j] = "pending"]
  /\ acked' \in {acked, acked \cup {j}}
  /\ UNCHANGED <<progress, importer, task, passes, racedJobs, abandoned>>

DeleteJob(j) ==
  /\ status[j] \notin {"none", "deleted"}
  /\ status' = [status EXCEPT ![j] = "deleted"]
  /\ UNCHANGED <<progress, importer, task, acked, passes, racedJobs, abandoned>>

-----------------------------------------------------------------------------
(* The task *)

DeliverJob(t) ==
  /\ task[t].at = "off" /\ status[TaskOf(t)] # "none" /\ TaskOf(t) \notin acked
  /\ To(t, "read")
  /\ UNCHANGED <<status, progress, importer, acked, passes, racedJobs, abandoned>>

\* Faulty variant of Passes: only finished jobs are left alone.
PassesUnlessFinished(j) == status[j] \in {"pending", "processing"}

Passes(j) == status[j] = "pending"

\* async_get_job and its guard; the status is written by a later transaction.
ReadJob(t) ==
  /\ task[t].at = "read"
  /\ To(t, IF Passes(TaskOf(t)) THEN "claim" ELSE "ack")
  /\ UNCHANGED <<status, progress, importer, acked, passes, racedJobs, abandoned>>

\* A row that was deleted is not there to be updated.
SetStatus(j, s) == status' = [status EXCEPT ![j] = IF @ = "deleted" THEN @ ELSE s]

\* Another execution has passed the guard, too, and not written the status yet.
Raced(t) ==
  \E u \in Tasks \ {t} : TaskOf(u) = TaskOf(t) /\ task[u].at \in {"claim", "crash flush", "crash status"}

Claim(t) ==
  /\ task[t].at = "claim"
  /\ SetStatus(TaskOf(t), "processing")
  /\ passes' = [passes EXCEPT ![TaskOf(t)] = @ + 1]
  /\ racedJobs' = IF Raced(t) THEN racedJobs \cup {TaskOf(t)} ELSE racedJobs
  /\ To(t, "import")
  /\ UNCHANGED <<progress, importer, acked, abandoned>>

\* The bookmarks after the n-th: a flush after every FlushInterval of them, then the end.
AfterBookmark(n, last) ==
  IF n % FlushInterval = 0 THEN "flush" ELSE IF n = last THEN "last flush" ELSE "import"

\* Faulty variant of Outcomes: an address somebody has is counted as created.
OutcomesCreated(a) == {"created", "failed"}

\* async_import_bookmark: one transaction, which may raise at any of its statements, and
\* after the last one with the request stored.
Outcomes(a) == {"failed", IF importer[a] = NoJob THEN "created" ELSE "skipped"}

ImportBookmark(t) ==
  LET j == TaskOf(t)
      n == task[t].count.processed + 1
      a == Bookmarks(j)[n]
  IN /\ task[t].at = "import"
     /\ \E outcome \in Outcomes(a) :
          /\ task' = [task EXCEPT ![t] =
                        [at |-> AfterBookmark(n, Len(Bookmarks(j))),
                         count |-> [task[t].count EXCEPT !.processed = n, ![outcome] = @ + 1]]]
          /\ \/ outcome = "created" /\ importer' = [importer EXCEPT ![a] = j]
             \/ outcome # "created" /\ UNCHANGED importer
             \/ /\ outcome = "failed" /\ importer[a] = NoJob
                /\ importer' = [importer EXCEPT ![a] = Unanswered]
     /\ UNCHANGED <<status, progress, acked, passes, racedJobs, abandoned>>

WriteProgress(j, counters) ==
  progress' = [progress EXCEPT ![j] = IF status[j] = "deleted" THEN @ ELSE counters]

Flush(t) ==
  /\ task[t].at \in {"flush", "last flush"}
  /\ WriteProgress(TaskOf(t), task[t].count)
  /\ To(t, IF task[t].at = "last flush" THEN "last status"
           ELSE IF task[t].count.processed = Len(Bookmarks(TaskOf(t))) THEN "last flush" ELSE "import")
  /\ UNCHANGED <<status, importer, acked, passes, racedJobs, abandoned>>

FinalStatus(c) == IF c.created = 0 /\ c.failed > 0 THEN "failed" ELSE "completed"

SetFinalStatus(t) ==
  /\ task[t].at = "last status"
  /\ SetStatus(TaskOf(t), FinalStatus(task[t].count))
  /\ To(t, "ack")
  /\ UNCHANGED <<progress, importer, acked, passes, racedJobs, abandoned>>

\* A statement outside the bookmarks raises: the rest of them is left, and the row
\* gets the counters, one failure more, and its status.
Crash(t) ==
  /\ task[t].at \in {"claim", "flush", "last flush", "last status"}
  /\ task' = [task EXCEPT ![t].at = "crash flush", ![t].count.failed = @ + 1]
  /\ UNCHANGED <<status, progress, importer, acked, passes, racedJobs, abandoned>>

CrashFlush(t) ==
  /\ task[t].at = "crash flush"
  /\ WriteProgress(TaskOf(t), task[t].count)
  /\ To(t, "crash status")
  /\ UNCHANGED <<status, importer, acked, passes, racedJobs, abandoned>>

\* Faulty variant of CrashStatus: the handler keeps the counters only.
CrashStatusNot(t) ==
  /\ task[t].at = "crash status"
  /\ To(t, "ack")
  /\ UNCHANGED <<status, progress, importer, acked, passes, racedJobs, abandoned>>

CrashStatus(t) ==
  /\ task[t].at = "crash status"
  /\ SetStatus(TaskOf(t), "failed")
  /\ To(t, "ack")
  /\ UNCHANGED <<progress, importer, acked, passes, racedJobs, abandoned>>

\* The handler raises in its turn, or the read of the job does; the broker
\* acknowledges a task that failed, too.
TaskFails(t) ==
  /\ task[t].at \in {"read", "crash flush", "crash status"}
  /\ To(t, "ack")
  /\ abandoned' = abandoned \cup {TaskOf(t)}
  /\ UNCHANGED <<status, progress, importer, acked, passes, racedJobs>>

Acknowledge(t) ==
  /\ task[t].at = "ack"
  /\ acked' = acked \cup {TaskOf(t)}
  /\ To(t, "over")
  /\ UNCHANGED <<status, progress, importer, passes, racedJobs, abandoned>>

WorkerDies(t) ==
  /\ task[t].at \notin {"off", "over"}
  /\ To(t, "over")
  /\ abandoned' = abandoned \cup {TaskOf(t)}
  /\ UNCHANGED <<status, progress, importer, acked, passes, racedJobs>>

\* Nothing is left to do once the messages are consumed and the rows deleted.
AllImported ==
  /\ \A j \in Jobs : status[j] = "deleted"
  /\ \A t \in Tasks : task[t].at \in {"off", "over"}
  /\ UNCHANGED importVars

ImportNext ==
  \/ AllImported
  \/ \E j \in Jobs : CreateJob(j) \/ DeleteJob(j)
  \/ \E t \in Tasks : \/ DeliverJob(t) \/ ReadJob(t) \/ Claim(t) \/ ImportBookmark(t) \/ Flush(t)
                      \/ SetFinalStatus(t) \/ Crash(t) \/ CrashFlush(t) \/ CrashStatus(t)
                      \/ TaskFails(t) \/ Acknowledge(t) \/ WorkerDies(t)

ImportSpec == ImportInit /\ [][ImportNext]_importVars

-----------------------------------------------------------------------------
(* Properties *)

\* A message delivered again does not run the job again, but where two executions
\* have read its status before either had written it.
OnePassPerJob == \A j \in Jobs \ racedJobs : passes[j] <= 1

Imported(j) == {a \in Addresses : importer[a] = j}

\* The row of a finished job counts the bookmarks the job has created, but for those whose
\* commit it had no answer to, and a completed one accounts for every bookmark of the file.
ProgressIsTrue ==
  \A j \in Jobs \ racedJobs :
    status[j] \in Finished =>
      /\ progress[j].created = Cardinality(Imported(j))
      /\ progress[j].created + progress[j].skipped + progress[j].failed >= progress[j].processed
      /\ status[j] = "completed" => progress[j].processed = Len(Bookmarks(j))

\* A job that says it is processing has an execution at work, or one that was lost.
ProcessingHasWorker ==
  \A j \in Jobs \ abandoned :
    status[j] = "processing" =>
      \E t \in Tasks : TaskOf(t) = j /\ task[t].at \notin {"off", "read", "ack", "over"}

\* What a client reads of a job is what its executions have done.
JobIsTrue == OnePassPerJob /\ ProgressIsTrue /\ ProcessingHasWorker
=============================================================================
