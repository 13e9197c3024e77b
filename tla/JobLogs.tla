------------------------------ MODULE JobLogs ------------------------------
(***************************************************************************)
(* The logs of the jobs of a workflow run: `actions workflows dispatch     *)
(* --follow` waits for the first job of the run it has started and follows *)
(* its log; `actions runs logs` shows the logs of the jobs of a run, or    *)
(* follows the log of one (--follow).  The server is polled: the status of *)
(* the job, then its whole log, of which what is new is printed.           *)
(*                                                                         *)
(* A step of the command that takes the answer of a call is apart from its *)
(* own steps: the HTTP client has no timeout, so an answer may never come. *)
(*                                                                         *)
(* A log is a sequence of lines, each with the attempt it belongs to: when *)
(* a job is run again its log starts anew.                                 *)
(***************************************************************************)
EXTENDS Naturals, FiniteSets, SequencesExt

CONSTANTS
    Job,            \* the jobs of the run, numbers in the order of the list
    MaxPolls,       \* polls for the first job (30)
    Patience,       \* how long dispatch follows (30 minutes), in polls
    MaxLines,       \* bound: lines of a log
    MaxAttempts,    \* bound: runs of a job
    MaxFaults       \* bound: calls that fail

ASSUME JobAssumption == Job \subseteq Nat \ {0} /\ Job # {}
ASSUME BoundAssumption ==
    /\ MaxPolls \in Nat \ {0} /\ Patience \in Nat \ {0}
    /\ MaxLines \in Nat /\ MaxAttempts \in Nat \ {0} /\ MaxFaults \in Nat

VARIABLES
    status,         \* at the server: of each job ("none": it is not listed yet)
    log,            \* at the server: of each job
    attempt,        \* at the server: of each job
    mode,           \* the command
    pc,
    jobs,           \* the jobs of the run when they were listed
    job,            \* the job followed, or the one whose log is shown next
    seen,           \* the status read last ("none": no status was read)
    lastLogLength,
    printed,        \* the lines printed for each job
    polls,
    time,           \* since dispatch follows, up to past its deadline
    exit,
    faults

server == <<status, log, attempt>>
reading == <<jobs, job, seen, lastLogLength, printed>>
vars == <<server, mode, pc, reading, polls, time, exit, faults>>

Modes == {"dispatch", "follow", "followJob", "logs", "logsOfJob"}
Running == {"pending", "queued", "in_progress"}
\* "completed" stands for success, failure, skipped and canceled, "other" for a
\* status of a job that has not started which the client does not know.
Statuses == {"none", "other", "completed"} \cup Running
isRunning == seen \in Running
NoJob == 0
Listed == {j \in Job : status[j] # "none"}
First(set) == CHOOSE j \in set : \A k \in set : j <= k

TypeOK ==
    /\ status \in [Job -> Statuses]
    /\ \A j \in Job : Len(log[j]) <= MaxLines /\ attempt[j] \in 1 .. MaxAttempts
    /\ mode \in Modes
    /\ pc \in {"start", "poll", "test", "status", "logs", "sleep", "end"}
    /\ jobs \subseteq Job /\ job \in Job \cup {NoJob}
    /\ seen \in Statuses
    /\ lastLogLength \in 0 .. MaxLines
    /\ polls \in 0 .. MaxPolls
    /\ time \in 0 .. Patience + 1
    /\ exit \in {"", "ok", "noLog", "told", "usage", "call", "timeout"}
    /\ faults \in 0 .. MaxFaults

Init ==
    /\ status \in [Job -> {"none", "other", "pending"}]
    /\ log = [j \in Job |-> <<>>]
    /\ attempt = [j \in Job |-> 1]
    /\ mode \in Modes
    /\ pc = "start"
    /\ jobs = {} /\ job = NoJob /\ seen = "none" /\ lastLogLength = 0
    /\ printed = [j \in Job |-> <<>>]
    /\ polls = 0
    /\ time = 0
    /\ exit = "" /\ faults = 0

----------------------------------------------------------------------------
(* The server and the runner.                                              *)

Advance(j) ==
    /\ \E next \in Statuses \ {"none"} :
         /\ \/ status[j] = "none" /\ next \in {"other", "pending"}
            \/ status[j] = "other" /\ next = "pending"
            \/ status[j] \in {"pending", "queued"} /\ next \in {"queued", "in_progress"}
            \/ status[j] = "in_progress" /\ next = "completed"
         /\ status' = [status EXCEPT ![j] = next]
    /\ UNCHANGED <<log, attempt>>

WriteLine(j) ==
    /\ status[j] = "in_progress" /\ Len(log[j]) < MaxLines
    /\ log' = [log EXCEPT ![j] = Append(@, <<attempt[j], Len(@) + 1>>)]
    /\ UNCHANGED <<status, attempt>>

\* A user runs a completed job again.
Rerun(j) ==
    /\ status[j] = "completed" /\ attempt[j] < MaxAttempts
    /\ status' = [status EXCEPT ![j] = "pending"]
    /\ log' = [log EXCEPT ![j] = <<>>]
    /\ attempt' = [attempt EXCEPT ![j] = @ + 1]

Server ==
    /\ \E j \in Job : Advance(j) \/ WriteLine(j) \/ Rerun(j)
    /\ UNCHANGED <<mode, pc, reading, polls, time, exit, faults>>

\* Time passes, in a call or anywhere.
Passed == IF mode = "dispatch" /\ time <= Patience THEN time + 1 ELSE time
Tick ==
    /\ pc \in {"test", "status", "logs", "sleep"}
    /\ time' = Passed /\ time' # time
    /\ UNCHANGED <<server, mode, pc, reading, polls, exit, faults>>

----------------------------------------------------------------------------
(* The command.                                                            *)

End(why) == pc' = "end" /\ exit' = why

\* A call fails; most handlers return the error.
Fails(at, why) ==
    /\ pc = at /\ faults < MaxFaults /\ faults' = faults + 1
    /\ End(why)
    /\ UNCHANGED <<server, mode, reading, polls, time>>

\* The run is started, and its first job is waited for.
Dispatch ==
    /\ pc = "start" /\ mode = "dispatch"
    /\ pc' = "poll"
    /\ UNCHANGED <<server, mode, reading, polls, time, exit, faults>>

Follow(j) == job' = j /\ pc' = "test" /\ UNCHANGED exit

\* Mutant: one poll more.
WaitForJobsLonger ==
    /\ pc = "poll"
    /\ \/ Listed # {} /\ Follow(First(Listed)) /\ UNCHANGED polls
       \/ /\ Listed = {}
          /\ polls' = polls + 1
          /\ IF polls <= MaxPolls THEN UNCHANGED <<pc, exit>> ELSE End("timeout")
          /\ UNCHANGED job
    /\ UNCHANGED <<server, mode, jobs, seen, lastLogLength, printed, time, faults>>

WaitForJobs ==
    /\ pc = "poll"
    /\ \/ Listed # {} /\ Follow(First(Listed)) /\ UNCHANGED polls
       \/ /\ Listed = {}
          /\ polls' = polls + 1
          /\ IF polls' < MaxPolls THEN UNCHANGED <<pc, exit>> ELSE End("timeout")
          /\ UNCHANGED job
    /\ UNCHANGED <<server, mode, jobs, seen, lastLogLength, printed, time, faults>>

\* runs logs without --job: the jobs of the run are listed.
ListJobs ==
    /\ pc = "start" /\ mode \in {"follow", "logs"}
    /\ jobs' = Listed
    /\ \/ Listed = {} /\ End("told") /\ UNCHANGED job
       \/ mode = "follow" /\ Cardinality(Listed) > 1 /\ End("usage") /\ UNCHANGED job
       \/ mode = "follow" /\ Cardinality(Listed) = 1 /\ Follow(First(Listed))
       \/ /\ mode = "logs" /\ Listed # {}
          /\ job' = First(Listed) /\ pc' = "logs" /\ UNCHANGED exit
    /\ UNCHANGED <<server, mode, seen, lastLogLength, printed, polls, time, faults>>

\* runs logs --job: the job is taken as it is given.
TakeJob ==
    /\ pc = "start" /\ mode \in {"followJob", "logsOfJob"}
    /\ \E j \in Job :
         \/ mode = "followJob" /\ Follow(j)
         \/ mode = "logsOfJob" /\ job' = j /\ pc' = "logs" /\ UNCHANGED exit
    /\ UNCHANGED <<server, mode, jobs, seen, lastLogLength, printed, polls, time, faults>>

\* The loop of dispatch ends at the deadline, that of runs logs never does.
InTimeAlways == TRUE  \* Mutant
InTime == time < Patience
AfterLoop(why) == End(IF time > Patience THEN "timeout" ELSE why)

\* The deadline is tested between two rounds, not while a call is waited for.
TestDeadline ==
    /\ pc = "test"
    /\ \/ InTime /\ pc' = "status" /\ UNCHANGED exit
       \/ ~InTime /\ AfterLoop("ok")
    /\ UNCHANGED <<server, mode, reading, polls, time, faults>>

ReadStatus ==
    /\ pc = "status"
    /\ \/ job \in Listed /\ seen' = status[job] /\ pc' = "logs" /\ UNCHANGED exit
       \/ job \notin Listed /\ End("call") /\ UNCHANGED seen
    /\ UNCHANGED <<server, mode, jobs, job, lastLogLength, printed, polls, time, faults>>

\* Mutant: the whole log is printed each time it is longer.
PrintNewAll(j) ==
    /\ printed' = IF Len(log[j]) > lastLogLength
                  THEN [printed EXCEPT ![j] = @ \o log[j]] ELSE printed
    /\ lastLogLength' = IF Len(log[j]) > lastLogLength THEN Len(log[j]) ELSE lastLogLength

\* What is longer than the log before is printed.
PrintNew(j) ==
    /\ printed' = IF Len(log[j]) > lastLogLength
                  THEN [printed EXCEPT ![j] = @ \o SubSeq(log[j], lastLogLength + 1, Len(log[j]))]
                  ELSE printed
    /\ lastLogLength' = IF Len(log[j]) > lastLogLength THEN Len(log[j]) ELSE lastLogLength

\* A job that has not started has no log.
HasLog(j) == status[j] \in {"in_progress", "completed"}
LogFails == \/ ~HasLog(job) /\ UNCHANGED faults
            \/ HasLog(job) /\ faults < MaxFaults /\ faults' = faults + 1

Following == pc = "logs" /\ mode \in {"dispatch", "follow", "followJob"}

\* Mutant: the log is not read again once the job is complete.
ReadLogsWhileRunning ==
    /\ Following /\ HasLog(job)
    /\ \/ isRunning /\ PrintNew(job) /\ pc' = "sleep" /\ UNCHANGED exit
       \/ ~isRunning /\ AfterLoop("ok") /\ UNCHANGED <<printed, lastLogLength>>
    /\ UNCHANGED <<server, mode, jobs, job, seen, polls, time, faults>>

ReadLogs ==
    /\ Following /\ HasLog(job)
    /\ PrintNew(job)
    /\ \/ isRunning /\ pc' = "sleep" /\ UNCHANGED exit
       \/ ~isRunning /\ AfterLoop("ok")
    /\ UNCHANGED <<server, mode, jobs, job, seen, polls, time, faults>>

\* dispatch goes on without a log while the job runs, and ends without it.
LogsFail ==
    /\ Following /\ LogFails
    /\ \/ mode = "dispatch" /\ isRunning /\ pc' = "sleep" /\ UNCHANGED exit
       \/ mode = "dispatch" /\ ~isRunning /\ AfterLoop("noLog")
       \/ mode # "dispatch" /\ End("call")
    /\ UNCHANGED <<server, mode, reading, polls, time>>

Sleep ==
    /\ pc = "sleep"
    /\ time' = Passed /\ pc' = "test"
    /\ UNCHANGED <<server, mode, reading, polls, exit, faults>>

\* The logs of all jobs, once each; an error is printed in place of a log,
\* unless it is the one log asked for.
Later == {j \in jobs : j > job}
NextLog(why) ==
    IF Later # {} THEN job' = First(Later) /\ UNCHANGED <<pc, exit>>
                  ELSE UNCHANGED job /\ End(why)
ShowLogs ==
    /\ pc = "logs" /\ mode \in {"logs", "logsOfJob"}
    /\ \/ /\ HasLog(job)
          /\ printed' = [printed EXCEPT ![job] = log[job]]
          /\ NextLog("ok")
          /\ UNCHANGED faults
       \/ /\ LogFails
          /\ NextLog(IF mode = "logs" THEN "ok" ELSE "call")
          /\ UNCHANGED printed
    /\ UNCHANGED <<server, mode, jobs, seen, lastLogLength, polls, time>>

CallAnswered ==
    \/ Dispatch \/ WaitForJobs \/ ListJobs \/ ReadStatus
    \/ ReadLogs \/ LogsFail \/ ShowLogs

CallFails == \E at \in {"start", "poll", "status"} : Fails(at, "call")

Local == TakeJob \/ TestDeadline \/ Sleep

Next == CallAnswered \/ CallFails \/ Local \/ Server \/ Tick

\* The command goes on by itself.  No call need be answered, and a job may
\* wait for a runner, or run, for ever.
Spec == Init /\ [][Next]_vars /\ WF_vars(Local)

----------------------------------------------------------------------------
(* Properties.                                                             *)

\* As long as a job is not run again, what is printed of its log is the log
\* from its first line on, without a gap and without repetition.
PrintedIsLog == \A j \in Job : attempt[j] = 1 => IsPrefix(printed[j], log[j])

\* When the command has seen the job it follows completed, the whole log of
\* the job is printed: the status is read before the log.  (It also leaves the
\* loop when the clock shows the very deadline, and when the status is one it
\* does not know, which it takes for the end though the job has not started.)
CompletedIsWhole ==
    exit = "ok" /\ mode \in {"dispatch", "follow", "followJob"} /\ seen = "completed" /\ attempt[job] = 1
        => printed[job] = log[job] /\ status[job] = "completed"

\* A call of the command is never answered: it waits for ever.
Calls == {"start", "poll", "status", "logs"}
NeverAnswered == \E call \in Calls : <>[](pc = call)

AllEnded == \A j \in Job : status[j] = "completed" /\ attempt[j] = MaxAttempts

\* dispatch comes to an end though the job may never start or never end, and
\* runs logs when the job it follows has ended for good, unless a call of
\* theirs is never answered: the deadline is no help against that.
FollowEnds ==
    /\ mode = "dispatch" => <>(pc = "end") \/ NeverAnswered
    /\ [](AllEnded => <>(pc = "end") \/ NeverAnswered)
=============================================================================
