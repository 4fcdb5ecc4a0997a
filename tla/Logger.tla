------------------------------- MODULE Logger -------------------------------
(***************************************************************************)
(* Logger: any thread writes to the log file and to the monitor file, or    *)
(* hands a message to the writer thread through a queue and an auto-reset   *)
(* event.  A message is the number of the call that made it; its level says *)
(* whether it is written.  The queue is the first-in first-out queue that   *)
(* LockFreeQueue implements.                                                *)
(***************************************************************************)
EXTENDS Integers, Sequences, FiniteSets

CONSTANTS
  Threads,
  Levels,       \* of ELogLevel that are used
  MaxCalls      \* bound: calls of all threads together

Debug  == 0
Assert == 4

\* What the constants have to be.
LoggerConstants ==
  IsFiniteSet(Threads) /\ {Debug, Assert} \subseteq Levels /\ Levels \subseteq Debug .. Assert
  /\ MaxCalls \in Nat

Messages  == 1 .. MaxCalls
NoMessage == 0
Newline   == -1       \* the second write of LogFormat

VARIABLES
  mLogLevel,
  mhLogFile, mhMonitorFile,     \* what has been written to them
  mAsyncLogQueue, mAsyncLogEvent,
  calls,                        \* calls made so far
  pc, message, logLevel,        \* of each thread
  writer, log,                  \* asyncLogThread: where it is, the message in its hand
  failed,                       \* some WriteFile has failed
  reported,                     \* some file error has been printed
  ended                         \* no, exit or crash

files  == <<mhLogFile, mhMonitorFile>>
async  == <<mAsyncLogQueue, mAsyncLogEvent>>
locals == <<pc, message, logLevel>>
errors == <<failed, reported>>
vars   == <<mLogLevel, files, async, calls, locals, writer, log, errors, ended>>

Init ==
  /\ mLogLevel = Debug
  /\ mhLogFile = <<>> /\ mhMonitorFile = <<>>
  /\ mAsyncLogQueue = <<>> /\ mAsyncLogEvent = FALSE
  /\ calls = 0
  /\ pc = [t \in Threads |-> "idle"]
  /\ message = [t \in Threads |-> NoMessage]
  /\ logLevel = [t \in Threads |-> Debug]
  /\ writer = "wait" /\ log = NoMessage
  /\ failed = FALSE /\ reported = FALSE
  /\ ended = "no"

----------------------------------------------------------------------------
\* Mutant: the level itself is not written any more.
IsWrittenAbove(l) == mLogLevel < l

\* mLogLevel > logLevel returns.
IsWritten(l) == mLogLevel <= l

\* WriteFile fails or not, and the error is printed when it has NOT failed.
writeToFile(fails) ==
  /\ failed' = (failed \/ fails)
  /\ reported' = (reported \/ ~fails)

AppendUnless(fails, file, m) == IF fails THEN file ELSE Append(file, m)

\* Thread t enters a call at step l with a message of level lv.
Enter(t, l, lv) ==
  /\ pc[t] = "idle" /\ calls < MaxCalls
  /\ calls' = calls + 1
  /\ pc' = [pc EXCEPT ![t] = l]
  /\ message' = [message EXCEPT ![t] = calls + 1]
  /\ logLevel' = [logLevel EXCEPT ![t] = lv]
  /\ UNCHANGED <<mLogLevel, files, async, writer, log, errors, ended>>

Return(t) ==
  /\ pc' = [pc EXCEPT ![t] = "idle"]
  /\ message' = [message EXCEPT ![t] = NoMessage]
  /\ logLevel' = [logLevel EXCEPT ![t] = Debug]

\* The call goes on at step l if its level is written, else it returns.
Check(t, here, l) ==
  /\ pc[t] = here
  /\ IF IsWritten(logLevel[t])
     THEN pc' = [pc EXCEPT ![t] = l] /\ UNCHANGED <<message, logLevel>>
     ELSE Return(t)
  /\ UNCHANGED <<mLogLevel, files, async, calls, writer, log, errors, ended>>

SetLogLevel(l) ==
  /\ calls < MaxCalls /\ mLogLevel' = l
  /\ UNCHANGED <<files, async, calls, locals, writer, log, errors, ended>>

----------------------------------------------------------------------------
(* The log file *)

\* The level is looked at here and once more in LogMessageWithTime.
LogFormatWithTime(t) == \E l \in Levels : Enter(t, "format", l)
CheckFormat(t)       == Check(t, "format", "message")

LogMessageWithTime(t) == Check(t, "message", "write")

\* The assertion fails: the message is logged on the way to the crash.
AssertFails(t) == Enter(t, "assert", Assert)
CheckAssert(t) == /\ pc[t] = "assert"
                  /\ pc' = [pc EXCEPT ![t] = IF IsWritten(Assert) THEN "last words" ELSE "crash"]
                  /\ UNCHANGED <<mLogLevel, files, async, calls, message, logLevel, writer, log,
                                 errors, ended>>

\* One line is one write.
WriteLog(t, fails) ==
  /\ pc[t] \in {"write", "last words"}
  /\ writeToFile(fails)
  /\ mhLogFile' = AppendUnless(fails, mhLogFile, message[t])
  /\ IF pc[t] = "write"
     THEN Return(t)
     ELSE pc' = [pc EXCEPT ![t] = "crash"] /\ UNCHANGED <<message, logLevel>>
  /\ UNCHANGED <<mLogLevel, mhMonitorFile, async, calls, writer, log, ended>>

\* LogFormat writes the message and then the newline.
LogFormat(t)      == \E l \in Levels : Enter(t, "plain", l)
CheckLogFormat(t) == Check(t, "plain", "text")

WriteText(t, fails) ==
  /\ pc[t] = "text"
  /\ writeToFile(fails)
  /\ mhLogFile' = AppendUnless(fails, mhLogFile, message[t])
  /\ pc' = [pc EXCEPT ![t] = "newline"]
  /\ UNCHANGED <<mLogLevel, mhMonitorFile, async, calls, message, logLevel, writer, log, ended>>

WriteNewline(t, fails) ==
  /\ pc[t] = "newline"
  /\ writeToFile(fails)
  /\ mhLogFile' = AppendUnless(fails, mhLogFile, Newline)
  /\ Return(t)
  /\ UNCHANGED <<mLogLevel, mhMonitorFile, async, calls, writer, log, ended>>

raiseCrash(t) ==
  /\ pc[t] = "crash"
  /\ ended' = "crash"
  /\ UNCHANGED <<mLogLevel, files, async, calls, locals, writer, log, errors>>

----------------------------------------------------------------------------
(* The monitor file *)

\* LogMonitor and LogCurrentTime, whatever the level.
LogMonitor(t) == Enter(t, "monitor", Debug)

WriteMonitor(t, fails) ==
  /\ pc[t] = "monitor"
  /\ writeToFile(fails)
  /\ mhMonitorFile' = AppendUnless(fails, mhMonitorFile, message[t])
  /\ Return(t)
  /\ UNCHANGED <<mLogLevel, mhLogFile, async, calls, writer, log, ended>>

LogMonitorAsync(t) == Enter(t, "enqueue", Debug)

Enqueue(t) ==
  /\ pc[t] = "enqueue"
  /\ mAsyncLogQueue' = Append(mAsyncLogQueue, message[t])
  /\ pc' = [pc EXCEPT ![t] = "set event"]
  /\ UNCHANGED <<mLogLevel, files, mAsyncLogEvent, calls, message, logLevel, writer, log, errors,
                 ended>>

SetEvent(t) ==
  /\ pc[t] = "set event"
  /\ mAsyncLogEvent' = TRUE
  /\ Return(t)
  /\ UNCHANGED <<mLogLevel, files, mAsyncLogQueue, calls, writer, log, errors, ended>>

----------------------------------------------------------------------------
(* asyncLogThread *)

\* The event is reset by the wait it ends.
Wait ==
  /\ writer = "wait" /\ mAsyncLogEvent
  /\ mAsyncLogEvent' = FALSE /\ writer' = "dequeue"
  /\ UNCHANGED <<mLogLevel, files, mAsyncLogQueue, calls, locals, log, errors, ended>>

Dequeue ==
  /\ writer = "dequeue" /\ mAsyncLogQueue # <<>>
  /\ log' = Head(mAsyncLogQueue) /\ mAsyncLogQueue' = Tail(mAsyncLogQueue)
  /\ writer' = "write"
  /\ UNCHANGED <<mLogLevel, files, mAsyncLogEvent, calls, locals, errors, ended>>

QueueIsEmpty ==
  /\ writer = "dequeue" /\ mAsyncLogQueue = <<>>
  /\ writer' = "wait"
  /\ UNCHANGED <<mLogLevel, files, async, calls, locals, log, errors, ended>>

\* Mutant: one message for each event.
AfterWriteWait == "wait"

\* The loop drains the queue.
AfterWrite == "dequeue"

WriteAsync(fails) ==
  /\ writer = "write"
  /\ writeToFile(fails)
  /\ mhMonitorFile' = AppendUnless(fails, mhMonitorFile, log)
  /\ log' = NoMessage /\ writer' = AfterWrite
  /\ UNCHANGED <<mLogLevel, mhLogFile, async, calls, locals, ended>>

----------------------------------------------------------------------------
\* main returns: the destructor closes the files, and what is in the queue or in
\* the hand of the writer is not waited for.
Exit ==
  /\ calls = MaxCalls /\ \A t \in Threads : pc[t] = "idle"
  /\ ended' = "exit"
  /\ UNCHANGED <<mLogLevel, files, async, calls, locals, writer, log, errors>>

Ended == ended # "no" /\ UNCHANGED vars

ThreadStep(t) ==
  \/ LogFormatWithTime(t) \/ CheckFormat(t) \/ LogMessageWithTime(t)
  \/ AssertFails(t) \/ CheckAssert(t) \/ raiseCrash(t)
  \/ LogFormat(t) \/ CheckLogFormat(t) \/ LogMonitor(t)
  \/ LogMonitorAsync(t) \/ Enqueue(t) \/ SetEvent(t)
  \/ \E fails \in BOOLEAN : WriteLog(t, fails) \/ WriteText(t, fails) \/ WriteNewline(t, fails)
                            \/ WriteMonitor(t, fails)

WriterStep == Wait \/ Dequeue \/ QueueIsEmpty \/ \E fails \in BOOLEAN : WriteAsync(fails)

NextStep ==
  \/ /\ ended = "no"
     /\ \/ \E t \in Threads : ThreadStep(t)
        \/ \E l \in Levels : SetLogLevel(l)
        \/ WriterStep \/ Exit
  \/ Ended

Spec == Init /\ [][NextStep]_vars

----------------------------------------------------------------------------
\* The values the variables range over.
TypeOK ==
  /\ mLogLevel \in Levels
  /\ mhLogFile \in Seq(Messages \cup {Newline}) /\ mhMonitorFile \in Seq(Messages)
  /\ mAsyncLogQueue \in Seq(Messages) /\ mAsyncLogEvent \in BOOLEAN
  /\ calls \in 0 .. MaxCalls
  /\ message \in [Threads -> Messages \cup {NoMessage}] /\ logLevel \in [Threads -> Levels]
  /\ writer \in {"wait", "dequeue", "write"} /\ log \in Messages \cup {NoMessage}
  /\ failed \in BOOLEAN /\ reported \in BOOLEAN
  /\ ended \in {"no", "exit", "crash"}

\* A message in the queue is never left to a writer that sleeps on: the event is
\* set or about to be, or the writer has still to look at the queue.
NoLostWakeup ==
  mAsyncLogQueue # <<>> =>
    \/ mAsyncLogEvent \/ writer # "wait"
    \/ \E t \in Threads : pc[t] = "set event"

InLog(m) == \E i \in DOMAIN mhLogFile : mhLogFile[i] = m

\* Logger.h:13, "logs, then crashes": the message of the assertion that ends the
\* process is in the log file whatever SetLogLevel has been told, unless the file
\* itself fails.
AssertIsLogged ==
  ended = "crash" => failed \/ \E t \in Threads : pc[t] = "crash" /\ InLog(message[t])
=============================================================================
