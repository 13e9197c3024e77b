--------------------------- MODULE JobLogsProofs ---------------------------
(***************************************************************************)
(* Theorems about the logs of the jobs of a run, for any set of jobs and   *)
(* any bounds.                                                             *)
(*                                                                         *)
(* A command that follows a log remembers of it only a length.  That what  *)
(* it prints next continues what it has printed rests on three facts: the  *)
(* length is that of what is printed, only the job followed has anything   *)
(* printed, and a log that has not started anew has only grown.  That it   *)
(* stops with the whole log rests on the order of its two calls: the       *)
(* status it acts on is older than the log it prints.                      *)
(***************************************************************************)
EXTENDS JobLogs, WellFoundedInduction, FiniteSetTheorems, SequenceTheorems, TLAPS

FollowModes == {"dispatch", "follow", "followJob"}
Line == Nat \X Nat

\* The functions TypeOK bounds the values of, and what a pc promises.
ServerType ==
    /\ log \in [Job -> Seq(Line)]
    /\ attempt \in [Job -> 1 .. MaxAttempts]
    /\ printed \in [Job -> Seq(Line)]
PollsLeft ==
    /\ pc = "start" => polls = 0
    /\ pc = "poll" => polls < MaxPolls
JobIsKnown == pc \in {"test", "status", "logs", "sleep"} => job \in Job
TypeInv == TypeOK /\ ServerType /\ PollsLeft /\ JobIsKnown

\* Nothing is printed before there is a job, and then only of that job.
NothingYet ==
    pc \in {"start", "poll"} => lastLogLength = 0 /\ \A j \in Job : printed[j] = <<>>
OnlyTheJob ==
    mode \in FollowModes => \A j \in Job \ {job} : printed[j] = <<>>
\* The length remembered is that of what is printed.
LengthIsPrinted ==
    mode \in FollowModes /\ job \in Job /\ attempt[job] = 1
        => Len(printed[job]) = lastLogLength
PrintedInv == PrintedIsLog /\ NothingYet /\ OnlyTheJob /\ LengthIsPrinted

\* The command goes round its loop only while the job runs; a job it has seen
\* to be complete is so until it is run again.
LoopsWhileRunning == pc \in {"start", "poll", "test", "status", "sleep"} => seen # "completed"
SeenComplete ==
    Following /\ seen = "completed" /\ attempt[job] = 1 => status[job] = "completed"
NotEnded == pc # "end" => exit = ""
EndHasJob == exit = "ok" => job \in Job
WholeInv == CompletedIsWhole /\ LoopsWhileRunning /\ SeenComplete /\ NotEnded /\ EndHasJob

----------------------------------------------------------------------------
(* The operators of the model.                                             *)

\* The first job of a list that is not empty is one of the list, and no other
\* comes before it.
LEMMA FirstIsMember ==
    ASSUME NEW T, T \subseteq Nat, T # {}
    PROVE  First(T) \in T /\ \A k \in T : First(T) <= k
<1>1. PICK x \in T : \A y \in T : ~(<<y, x>> \in OpToRel(<, Nat))
  BY NatLessThanWellFounded, WFMin
<1>2. \A y \in T : x <= y
  <2> TAKE y \in T
  <2>1. x \in Nat /\ y \in Nat
    OBVIOUS
  <2>2. ~(y < x)
    BY <1>1, <2>1 DEF OpToRel
  <2> QED
    BY <2>1, <2>2
<1> QED
  BY <1>2 DEF First

\* A prefix, position by position.
LEMMA PrefixByPosition ==
    ASSUME NEW S, NEW s \in Seq(S), NEW t \in Seq(S)
    PROVE  IsPrefix(s, t) <=> Len(s) <= Len(t) /\ \A i \in 1 .. Len(s) : s[i] = t[i]
BY DEF IsPrefix

\* A log that grows keeps its prefixes.
LEMMA PrefixOfLonger ==
    ASSUME NEW S, NEW s \in Seq(S), NEW t \in Seq(S), NEW x \in S, IsPrefix(s, t)
    PROVE  IsPrefix(s, Append(t, x))
<1>1. Append(t, x) \in Seq(S) /\ Len(Append(t, x)) = Len(t) + 1
      /\ \A i \in 1 .. Len(t) : Append(t, x)[i] = t[i]
  OBVIOUS
<1>2. Len(s) \in Nat /\ Len(t) \in Nat /\ Len(s) <= Len(t)
      /\ \A i \in 1 .. Len(s) : s[i] = t[i]
  BY PrefixByPosition
<1>3. Len(s) <= Len(Append(t, x)) /\ \A i \in 1 .. Len(s) : s[i] = Append(t, x)[i]
  BY <1>1, <1>2
<1> QED
  BY <1>1, <1>3, PrefixByPosition

LEMMA PrefixTrivially ==
    ASSUME NEW S, NEW t \in Seq(S)
    PROVE  IsPrefix(<<>>, t) /\ IsPrefix(t, t)
<1>1. <<>> \in Seq(S) /\ Len(<<>>) = 0 /\ Len(t) \in Nat
  OBVIOUS
<1>2. SubSeq(<<>>, 1, 0) = <<>> /\ SubSeq(t, 1, 0) = <<>>
  BY <1>1, SubSeqEmpty
<1> QED
  BY <1>1, <1>2 DEF IsPrefix

\* What is printed, followed by what is new, is the log.
LEMMA PrefixAndRest ==
    ASSUME NEW S, NEW s \in Seq(S), NEW t \in Seq(S), IsPrefix(s, t)
    PROVE  /\ SubSeq(t, Len(s) + 1, Len(t)) \in Seq(S)
           /\ s \o SubSeq(t, Len(s) + 1, Len(t)) = t
<1> DEFINE rest == SubSeq(t, Len(s) + 1, Len(t))
           all == s \o rest
<1>1. Len(s) \in Nat /\ Len(t) \in Nat /\ Len(s) <= Len(t)
      /\ \A i \in 1 .. Len(s) : s[i] = t[i]
  BY PrefixByPosition
<1>2. /\ rest \in Seq(S) /\ Len(rest) = Len(t) - Len(s)
      /\ \A i \in 1 .. Len(rest) : rest[i] = t[Len(s) + i]
  BY <1>1
<1>3. /\ all \in Seq(S) /\ Len(all) = Len(t)
      /\ \A i \in 1 .. Len(all) : all[i] = IF i <= Len(s) THEN s[i] ELSE rest[i - Len(s)]
  BY <1>1, <1>2
<1>4. ASSUME NEW i \in 1 .. Len(t) PROVE all[i] = t[i]
  BY <1>1, <1>2, <1>3
<1> HIDE DEF all
<1>5. all = t
  BY <1>3, <1>4, SeqEqual
<1> QED
  BY <1>2, <1>5 DEF all

----------------------------------------------------------------------------
(* Types                                                                   *)

\* The numbers of the state and their bounds.
LEMMA NumbersAreTyped ==
    ASSUME TypeInv
    PROVE  /\ MaxPolls \in Nat /\ Patience \in Nat /\ MaxLines \in Nat /\ MaxFaults \in Nat
           /\ MaxPolls > 0 /\ Patience > 0
           /\ lastLogLength \in Nat /\ lastLogLength <= MaxLines
           /\ polls \in Nat /\ polls <= MaxPolls
           /\ time \in Nat /\ time <= Patience + 1
           /\ faults \in Nat /\ faults <= MaxFaults
<1>1. /\ lastLogLength \in 0 .. MaxLines
      /\ polls \in 0 .. MaxPolls
      /\ time \in 0 .. Patience + 1
      /\ faults \in 0 .. MaxFaults
  BY Zenon DEF TypeInv, TypeOK
<1> QED
  BY <1>1, BoundAssumption

LEMMA FunctionsAreTyped ==
    ASSUME TypeInv
    PROVE  /\ MaxAttempts \in Nat /\ MaxAttempts > 0 /\ attempt \in [Job -> 1 .. MaxAttempts]
           /\ \A j \in Job : /\ attempt[j] \in Nat /\ attempt[j] >= 1
                             /\ log[j] \in Seq(Line) /\ printed[j] \in Seq(Line)
                             /\ Len(log[j]) \in Nat /\ Len(log[j]) <= MaxLines
<1>1. /\ \A j \in Job : Len(log[j]) <= MaxLines
      /\ log \in [Job -> Seq(Line)] /\ printed \in [Job -> Seq(Line)]
      /\ attempt \in [Job -> 1 .. MaxAttempts]
  BY Zenon DEF TypeInv, TypeOK, ServerType
<1>2. MaxAttempts \in Nat /\ MaxAttempts > 0
  BY BoundAssumption
<1>3. ASSUME NEW j \in Job
      PROVE  /\ attempt[j] \in Nat /\ attempt[j] >= 1
             /\ log[j] \in Seq(Line) /\ printed[j] \in Seq(Line)
             /\ Len(log[j]) \in Nat
  BY <1>1, <1>2
<1> QED
  BY <1>1, <1>2, <1>3

\* The jobs listed, and those still to be shown, have a first.
LEMMA FirstJobs ==
    ASSUME TypeInv
    PROVE  /\ Listed # {} => First(Listed) \in Listed
           /\ Later # {} => First(Later) \in Later
           /\ Listed \subseteq Job /\ Later \subseteq jobs
           /\ Cardinality(Listed) = 1 => Listed # {}
<1>1. Listed \subseteq Job /\ Later \subseteq jobs
  BY DEF Listed, Later
<1>2. Listed \subseteq Nat /\ Later \subseteq Nat
  BY <1>1, JobAssumption DEF TypeInv, TypeOK
<1>3. Cardinality(Listed) = 1 => Listed # {}
  BY FS_EmptySet
<1>4. Listed # {} => First(Listed) \in Listed
  BY <1>2, FirstIsMember
<1>5. Later # {} => First(Later) \in Later
  BY <1>2, FirstIsMember
<1> QED
  BY <1>1, <1>3, <1>4, <1>5

\* What is printed of a log is made of lines, and is no longer than it.
LEMMA PrintKeepsType ==
    ASSUME TypeInv, NEW j \in Job, PrintNew(j)
    PROVE  /\ printed' \in [Job -> Seq(Line)]
           /\ lastLogLength' \in 0 .. MaxLines
<1>1. /\ log[j] \in Seq(Line) /\ printed[j] \in Seq(Line)
      /\ Len(log[j]) \in Nat /\ Len(log[j]) <= MaxLines
  BY FunctionsAreTyped
<1>2. lastLogLength \in Nat /\ lastLogLength <= MaxLines /\ MaxLines \in Nat
  BY NumbersAreTyped
<1>3. ASSUME Len(log[j]) > lastLogLength
      PROVE  printed[j] \o SubSeq(log[j], lastLogLength + 1, Len(log[j])) \in Seq(Line)
  <2>1. SubSeq(log[j], lastLogLength + 1, Len(log[j])) \in Seq(Line)
    BY <1>1, <1>2
  <2> QED
    BY <1>1, <2>1
<1>4. printed' \in [Job -> Seq(Line)]
  BY <1>3 DEF PrintNew, TypeInv, ServerType
<1>5. lastLogLength' \in 0 .. MaxLines
  BY <1>1, <1>2 DEF PrintNew
<1> QED
  BY <1>4, <1>5

LEMMA ServerKeepsType == ASSUME TypeInv, Server PROVE TypeInv'
<1>0. status \in [Job -> Statuses] /\ log \in [Job -> Seq(Line)]
  BY DEF TypeInv, TypeOK, ServerType
<1>1. PICK j \in Job : Advance(j) \/ WriteLine(j) \/ Rerun(j)
  BY DEF Server
<1>2. status' \in [Job -> Statuses]
  BY <1>0, <1>1 DEF Advance, WriteLine, Rerun, Statuses, Running
<1>3. attempt' \in [Job -> 1 .. MaxAttempts]
  <2>1. attempt[j] < MaxAttempts => attempt[j] + 1 \in 1 .. MaxAttempts
    BY FunctionsAreTyped
  <2> QED
    BY <1>1, <2>1, FunctionsAreTyped DEF Advance, WriteLine, Rerun
<1>4. log' \in [Job -> Seq(Line)] /\ \A k \in Job : Len(log'[k]) <= MaxLines
  <2>1. /\ log[j] \in Seq(Line) /\ Len(log[j]) \in Nat /\ attempt[j] \in Nat /\ MaxLines \in Nat
    BY FunctionsAreTyped, NumbersAreTyped
  <2>2. CASE WriteLine(j)
    <3> DEFINE line == <<attempt[j], Len(log[j]) + 1>>
    <3>1. Len(log[j]) + 1 \in Nat
      BY <2>1
    <3>2. line \in Line
      BY <2>1, <3>1 DEF Line
    <3> HIDE DEF line
    <3>3. Append(log[j], line) \in Seq(Line) /\ Len(Append(log[j], line)) = Len(log[j]) + 1
      BY <2>1, <3>2
    <3>4. Len(Append(log[j], line)) <= MaxLines
      BY <2>1, <2>2, <3>3 DEF WriteLine
    <3>5. log' = [log EXCEPT ![j] = Append(log[j], line)]
      BY <2>2 DEF WriteLine, line
    <3> QED
      BY <1>0, <3>3, <3>4, <3>5, FunctionsAreTyped
  <2>3. CASE Rerun(j)
    <3>1. <<>> \in Seq(Line) /\ Len(<<>>) <= MaxLines
      BY <2>1
    <3> QED
      BY <1>0, <2>3, <3>1, FunctionsAreTyped DEF Rerun
  <2>4. CASE Advance(j)
    BY <1>0, <2>4, FunctionsAreTyped DEF Advance
  <2> QED
    BY <1>1, <2>2, <2>3, <2>4
<1>5. UNCHANGED <<mode, pc, jobs, job, seen, lastLogLength, printed, polls, time, exit, faults>>
  BY DEF Server, reading
<1> QED
  BY <1>2, <1>3, <1>4, <1>5 DEF TypeInv, TypeOK, ServerType, PollsLeft, JobIsKnown

LEMMA TypeInvariance == Spec => []TypeInv
<1>1. Init => TypeInv
  <2> SUFFICES ASSUME Init PROVE TypeInv
    OBVIOUS
  <2>1. log \in [Job -> Seq(Line)] /\ printed \in [Job -> Seq(Line)] /\ \A j \in Job : Len(log[j]) <= MaxLines
    <3>1. <<>> \in Seq(Line) /\ Len(<<>>) = 0 /\ 0 <= MaxLines
      BY BoundAssumption
    <3> QED
      BY <3>1 DEF Init
  <2>2. attempt \in [Job -> 1 .. MaxAttempts] /\ \A j \in Job : attempt[j] \in 1 .. MaxAttempts
    <3>1. 1 \in 1 .. MaxAttempts
      BY BoundAssumption
    <3> QED
      BY <3>1 DEF Init
  <2>3. status \in [Job -> Statuses]
    BY DEF Init, Statuses, Running
  <2>4. /\ 0 \in 0 .. MaxLines /\ 0 \in 0 .. MaxPolls /\ 0 \in 0 .. Patience + 1
        /\ 0 \in 0 .. MaxFaults
    BY BoundAssumption
  <2> QED
    BY <2>1, <2>2, <2>3, <2>4
       DEF Init, Statuses, TypeInv, TypeOK, ServerType, PollsLeft, JobIsKnown
<1>2. ASSUME TypeInv, [Next]_vars
      PROVE  TypeInv'
  <2> USE <1>2
  <2>1. CASE Dispatch \/ Sleep \/ Tick \/ CallFails \/ TestDeadline
    <3>1. Passed \in 0 .. Patience + 1
      BY NumbersAreTyped DEF Passed
    <3>2. time' \in 0 .. Patience + 1
      BY <2>1, <3>1 DEF Dispatch, Sleep, Tick, TestDeadline, CallFails, Fails, TypeInv, TypeOK
    <3>3. faults' \in 0 .. MaxFaults
      BY <2>1, NumbersAreTyped DEF Dispatch, Sleep, Tick, TestDeadline, CallFails, Fails
    <3>4. 0 < MaxPolls
      BY NumbersAreTyped
    <3> QED
      BY <2>1, <3>2, <3>3, <3>4
         DEF Dispatch, Sleep, Tick, TestDeadline, CallFails, Fails, AfterLoop, End, server, reading,
             TypeInv, TypeOK, ServerType, PollsLeft, JobIsKnown
  <2>2. CASE WaitForJobs
    <3>1. pc' = "poll" => polls' < MaxPolls
      BY <2>2 DEF WaitForJobs, Follow, End
    <3>2. polls < MaxPolls
      BY <2>2 DEF WaitForJobs, TypeInv, PollsLeft
    <3>3. polls' \in 0 .. MaxPolls
      BY <2>2, <3>2, NumbersAreTyped DEF WaitForJobs
    <3>4. job' \in Job \cup {NoJob} /\ (pc' = "test" => job' \in Job)
      BY <2>2, FirstJobs DEF WaitForJobs, Follow, End, TypeInv, TypeOK
    <3>5. pc' \in {"poll", "test", "end"} /\ exit' \in {exit, "timeout"}
      BY <2>2 DEF WaitForJobs, Follow, End
    <3> QED
      BY <2>2, <3>1, <3>3, <3>4, <3>5
         DEF WaitForJobs, server, TypeInv, TypeOK, ServerType, PollsLeft, JobIsKnown
  <2>3. CASE ListJobs
    BY <2>3, FirstJobs
       DEF ListJobs, Follow, End, server,
           TypeInv, TypeOK, ServerType, PollsLeft, JobIsKnown
  <2>4. CASE TakeJob
    BY <2>4 DEF TakeJob, Follow, End, server,
                TypeInv, TypeOK, ServerType, PollsLeft, JobIsKnown
  <2>5. CASE ReadStatus
    <3>0. seen' \in Statuses
      BY <2>5 DEF ReadStatus, TypeInv, TypeOK, JobIsKnown
    <3>1. pc' \in {"logs", "end"} /\ exit' \in {exit, "call"}
      BY <2>5 DEF ReadStatus, End
    <3>2. UNCHANGED <<server, mode, jobs, job, lastLogLength, printed, polls, time, faults>>
          /\ job \in Job
      BY <2>5 DEF ReadStatus, TypeInv, JobIsKnown
    <3> QED
      BY <3>0, <3>1, <3>2 DEF server, TypeInv, TypeOK, ServerType, PollsLeft, JobIsKnown
  <2>6. CASE ReadLogs
    <3>1. job \in Job
      BY <2>6 DEF ReadLogs, Following, TypeInv, JobIsKnown
    <3>2. printed' \in [Job -> Seq(Line)] /\ lastLogLength' \in 0 .. MaxLines
      BY <2>6, <3>1, PrintKeepsType DEF ReadLogs
    <3> QED
      BY <2>6, <3>1, <3>2 DEF ReadLogs, AfterLoop, End, server,
                TypeInv, TypeOK, ServerType, PollsLeft, JobIsKnown
  <2>7. CASE LogsFail
    <3>1. faults' \in 0 .. MaxFaults
      BY <2>7, NumbersAreTyped DEF LogsFail, LogFails
    <3> QED
      BY <2>7, <3>1 DEF LogsFail, Following, AfterLoop, End, server, reading,
                TypeInv, TypeOK, ServerType, PollsLeft, JobIsKnown
  <2>8. CASE ShowLogs
    <3>1. job \in Job
      BY <2>8 DEF ShowLogs, TypeInv, JobIsKnown
    <3>2. printed' \in [Job -> Seq(Line)]
      BY <2>8, <3>1 DEF ShowLogs, TypeInv, ServerType
    <3>3. faults' \in 0 .. MaxFaults
      BY <2>8, NumbersAreTyped DEF ShowLogs, LogFails
    <3>4. /\ job' \in Job
          /\ pc' \in {"logs", "end"}
          /\ exit' \in {exit, "ok", "call"}
      BY <2>8, <3>1, FirstJobs DEF ShowLogs, NextLog, End, TypeInv, TypeOK
    <3> QED
      BY <2>8, <3>1, <3>2, <3>3, <3>4 DEF ShowLogs, server,
                TypeInv, TypeOK, ServerType, PollsLeft, JobIsKnown
  <2>9. CASE Server
    BY <2>9, ServerKeepsType
  <2>10. CASE UNCHANGED vars
    BY <2>10 DEF vars, server, reading, TypeInv, TypeOK, ServerType, PollsLeft, JobIsKnown, Line
  <2> QED
    BY <2>1, <2>2, <2>3, <2>4, <2>5, <2>6, <2>7, <2>8, <2>9, <2>10 DEF Next, CallAnswered, Local
<1> QED
  BY <1>1, <1>2, PTL DEF Spec

\* Every variable keeps its type, a log its bound, and a command that reads a
\* status or a log has a job to read it of, whatever jobs are listed, run
\* again or fail in between (runFollowLogs, followJobLogs).
THEOREM JobLogsTypeCorrect == Spec => []TypeOK
<1>1. TypeInv => TypeOK
  BY DEF TypeInv
<1> QED
  BY <1>1, TypeInvariance, PTL
----------------------------------------------------------------------------
(* What is printed                                                         *)

\* New lines continue what is printed: afterwards the whole log is.
LEMMA PrintCompletes ==
    ASSUME TypeInv, NEW j \in Job, PrintNew(j),
           IsPrefix(printed[j], log[j]), Len(printed[j]) = lastLogLength
    PROVE  /\ printed'[j] = log[j]
           /\ lastLogLength' = Len(log[j])
           /\ \A k \in Job \ {j} : printed'[k] = printed[k]
<1>1. /\ log[j] \in Seq(Line) /\ printed[j] \in Seq(Line)
      /\ Len(log[j]) \in Nat /\ Len(printed[j]) \in Nat
  BY FunctionsAreTyped
<1>2. /\ Len(printed[j]) <= Len(log[j])
      /\ printed[j] \o SubSeq(log[j], Len(printed[j]) + 1, Len(log[j])) = log[j]
  BY <1>1, PrefixAndRest, PrefixByPosition
<1>3. printed \in [Job -> Seq(Line)]
  BY DEF TypeInv, ServerType
<1>4. CASE Len(log[j]) > lastLogLength
  BY <1>2, <1>3, <1>4 DEF PrintNew
<1>5. CASE ~(Len(log[j]) > lastLogLength)
  <2>1. Len(printed[j]) = Len(log[j]) /\ UNCHANGED <<printed, lastLogLength>>
    BY <1>1, <1>2, <1>5 DEF PrintNew
  <2>2. \A i \in 1 .. Len(log[j]) : printed[j][i] = log[j][i]
    BY <1>1, <2>1, PrefixByPosition
  <2>3. printed[j] = log[j]
    BY <1>1, <2>1, <2>2, SeqEqual
  <2> QED
    BY <2>1, <2>3
<1> QED
  BY <1>4, <1>5

LEMMA ServerKeepsPrinted ==
    ASSUME TypeInv, TypeInv', PrintedInv, Server PROVE PrintedInv'
<1>1. PICK j \in Job : Advance(j) \/ WriteLine(j) \/ Rerun(j)
  BY DEF Server
<1>2. UNCHANGED <<mode, pc, jobs, job, seen, lastLogLength, printed>>
  BY DEF Server, reading
<1>3. ASSUME NEW k \in Job, attempt'[k] = 1
      PROVE  attempt[k] = 1 /\ IsPrefix(printed'[k], log'[k])
  <2>1. attempt[k] = 1 /\ (log'[k] = log[k] \/ \E x \in Line : log'[k] = Append(log[k], x))
    <3>1. attempt[k] \in Nat /\ attempt[k] >= 1 /\ attempt \in [Job -> 1 .. MaxAttempts]
      BY FunctionsAreTyped
    <3>2. CASE Advance(j)
      BY <1>3, <3>2 DEF Advance
    <3>3. CASE WriteLine(j)
      <4>1. <<attempt[j], Len(log[j]) + 1>> \in Line
        BY FunctionsAreTyped DEF Line
      <4> QED
        BY <1>3, <3>3, <4>1 DEF WriteLine, TypeInv, ServerType
    <3>4. CASE Rerun(j)
      <4>1. attempt'[k] = IF k = j THEN attempt[j] + 1 ELSE attempt[k]
        BY <3>1, <3>4 DEF Rerun
      <4>2. k # j
        BY <1>3, <3>1, <4>1
      <4> QED
        BY <1>3, <3>4, <4>1, <4>2 DEF Rerun, TypeInv, ServerType
    <3> QED
      BY <1>1, <3>2, <3>3, <3>4
  <2>2. IsPrefix(printed[k], log[k])
    BY <2>1 DEF PrintedInv, PrintedIsLog
  <2>3. printed[k] \in Seq(Line) /\ log[k] \in Seq(Line)
    BY FunctionsAreTyped
  <2> QED
    BY <1>2, <2>1, <2>2, <2>3, PrefixOfLonger
<1> QED
  BY <1>2, <1>3 DEF PrintedInv, PrintedIsLog, NothingYet, OnlyTheJob, LengthIsPrinted

LEMMA ReadKeepsPrinted ==
    ASSUME TypeInv, TypeInv', PrintedInv, ReadLogs PROVE PrintedInv'
<1>1. /\ PrintNew(job) /\ mode \in FollowModes /\ job \in Job
      /\ UNCHANGED <<status, log, attempt, mode, job>>
      /\ pc' \in {"sleep", "end"}
  BY DEF ReadLogs, Following, FollowModes, TypeInv, JobIsKnown, AfterLoop, End, server
<1>2. CASE attempt[job] = 1
  <2>1. IsPrefix(printed[job], log[job]) /\ Len(printed[job]) = lastLogLength
    BY <1>1, <1>2 DEF PrintedInv, PrintedIsLog, LengthIsPrinted
  <2>2. /\ printed'[job] = log[job] /\ lastLogLength' = Len(log[job])
        /\ \A k \in Job \ {job} : printed'[k] = printed[k]
    BY <1>1, <2>1, PrintCompletes
  <2>3. IsPrefix(log[job], log[job])
    BY <1>1, FunctionsAreTyped, PrefixTrivially
  <2> QED
    BY <1>1, <2>2, <2>3 DEF PrintedInv, PrintedIsLog, NothingYet, OnlyTheJob, LengthIsPrinted
<1>3. CASE attempt[job] # 1
  <2>1. \A k \in Job \ {job} : printed'[k] = printed[k]
    BY <1>1 DEF PrintNew, TypeInv, ServerType
  <2> QED
    BY <1>1, <1>3, <2>1 DEF PrintedInv, PrintedIsLog, NothingYet, OnlyTheJob, LengthIsPrinted
<1> QED
  BY <1>2, <1>3

LEMMA PrintedInvariance == Spec => []PrintedInv
<1>1. Init => PrintedInv
  <2> SUFFICES ASSUME Init PROVE PrintedInv
    OBVIOUS
  <2>1. \A j \in Job : log[j] = <<>> /\ printed[j] = <<>>
    BY DEF Init
  <2>2. Len(<<>>) = 0 /\ <<>> \in Seq(Line)
    OBVIOUS
  <2>3. IsPrefix(<<>>, <<>>)
    BY <2>2, PrefixTrivially
  <2> QED
    BY <2>1, <2>2, <2>3
       DEF Init, PrintedInv, PrintedIsLog, NothingYet, OnlyTheJob, LengthIsPrinted
<1>2. ASSUME TypeInv, TypeInv', PrintedInv, [Next]_vars
      PROVE  PrintedInv'
  <2> USE <1>2
  <2> USE DEF PrintedInv, PrintedIsLog, NothingYet, OnlyTheJob, LengthIsPrinted
  <2>1. CASE Dispatch \/ Sleep \/ Tick \/ CallFails \/ TestDeadline \/ LogsFail
    BY <2>1 DEF Dispatch, Sleep, Tick, TestDeadline, CallFails, Fails, LogsFail, Following, AfterLoop, End,
                server, reading
  <2>2. CASE WaitForJobs \/ ListJobs \/ TakeJob
    <3>1. pc \in {"start", "poll"} /\ UNCHANGED <<log, attempt, mode, lastLogLength, printed>>
      BY <2>2 DEF WaitForJobs, ListJobs, TakeJob, server
    <3>2. Len(<<>>) = 0
      OBVIOUS
    <3> QED
      BY <3>1, <3>2
  <2>3. CASE ReadStatus
    BY <2>3 DEF ReadStatus, AfterLoop, End, server
  <2>4. CASE ReadLogs
    BY <2>4, ReadKeepsPrinted
  <2>5. CASE ShowLogs
    <3>1. /\ mode \notin FollowModes /\ job \in Job /\ pc' \in {"logs", "end"}
          /\ UNCHANGED <<log, attempt, mode>>
      BY <2>5 DEF ShowLogs, FollowModes, NextLog, End, TypeInv, JobIsKnown, server
    <3>2. ASSUME NEW j \in Job PROVE printed'[j] = printed[j] \/ printed'[j] = log[j]
      BY <2>5 DEF ShowLogs, TypeInv, ServerType
    <3>3. ASSUME NEW j \in Job PROVE IsPrefix(log[j], log[j])
      BY FunctionsAreTyped, PrefixTrivially
    <3> QED
      BY <3>1, <3>2, <3>3
  <2>6. CASE Server
    BY <2>6, ServerKeepsPrinted
  <2>7. CASE UNCHANGED vars
    BY <2>7 DEF vars, server, reading
  <2> QED
    BY <2>1, <2>2, <2>3, <2>4, <2>5, <2>6, <2>7 DEF Next, CallAnswered, Local
<1> QED
  BY <1>1, <1>2, TypeInvariance, PTL DEF Spec

\* As long as a job is not run again, what is printed of its log is the log
\* from its first line on, without a gap and without repetition, however its
\* lines arrive between the polls (followJobLogs).
THEOREM FollowPrintsLog == Spec => []PrintedIsLog
<1>1. PrintedInv => PrintedIsLog
  BY DEF PrintedInv
<1> QED
  BY <1>1, PrintedInvariance, PTL

----------------------------------------------------------------------------
(* That the whole log is printed                                           *)

\* A job that is complete changes only by being run again.
LEMMA ServerKeepsWhole ==
    ASSUME TypeInv, WholeInv, Server PROVE WholeInv'
<1>1. PICK j \in Job : Advance(j) \/ WriteLine(j) \/ Rerun(j)
  BY DEF Server
<1>2. UNCHANGED <<mode, pc, job, seen, printed, exit>>
  BY DEF Server, reading
<1>3. ASSUME NEW k \in Job, attempt'[k] = 1
      PROVE  attempt[k] = 1 /\ (status[k] = "completed" => log'[k] = log[k] /\ status'[k] = status[k])
  <2>1. /\ attempt[k] \in Nat /\ attempt[k] >= 1 /\ attempt \in [Job -> 1 .. MaxAttempts]
        /\ status \in [Job -> Statuses] /\ log \in [Job -> Seq(Line)]
    BY FunctionsAreTyped DEF TypeInv, TypeOK, ServerType
  <2>2. CASE Advance(j)
    BY <1>3, <2>1, <2>2 DEF Advance
  <2>3. CASE WriteLine(j)
    BY <1>3, <2>1, <2>3 DEF WriteLine
  <2>4. CASE Rerun(j)
    <3>1. attempt'[k] = IF k = j THEN attempt[j] + 1 ELSE attempt[k]
      BY <2>1, <2>4 DEF Rerun
    <3>2. k # j
      BY <1>3, <2>1, <3>1
    <3> QED
      BY <1>3, <2>1, <2>4, <3>1, <3>2 DEF Rerun
  <2> QED
    BY <1>1, <2>2, <2>3, <2>4
<1>4. CompletedIsWhole'
  BY <1>2, <1>3 DEF WholeInv, CompletedIsWhole, EndHasJob
<1>5. SeenComplete'
  BY <1>2, <1>3 DEF WholeInv, SeenComplete, Following, TypeInv, JobIsKnown
<1> QED
  BY <1>2, <1>4, <1>5 DEF WholeInv, LoopsWhileRunning, NotEnded, EndHasJob

\* A command that has followed a job to its completion has printed its whole
\* log, unless the job is run again meanwhile: lines written between the
\* reading of the status and that of the log are printed too (followJobLogs).
THEOREM FollowPrintsWholeLog == Spec => []CompletedIsWhole
<1>1. Init => WholeInv
  BY DEF Init, WholeInv, CompletedIsWhole, LoopsWhileRunning, SeenComplete, Following,
         NotEnded, EndHasJob
<1>2. ASSUME TypeInv, PrintedInv, WholeInv, [Next]_vars
      PROVE  WholeInv'
  <2> USE <1>2 DEF CompletedIsWhole, LoopsWhileRunning, SeenComplete, Following, NotEnded, EndHasJob
  <2>1. CASE Dispatch \/ Sleep \/ Tick \/ CallFails
    BY <2>1 DEF WholeInv, Dispatch, Sleep, Tick, CallFails, Fails, End, server, reading
  <2>9. CASE TestDeadline
    BY <2>9 DEF WholeInv, TestDeadline, AfterLoop, End, server, reading, TypeInv, JobIsKnown
  <2>2. CASE WaitForJobs \/ ListJobs \/ TakeJob
    BY <2>2 DEF WholeInv, WaitForJobs, ListJobs, TakeJob, Follow, End, server
  <2>3. CASE ReadStatus
    <3>1. pc = "status" /\ seen # "completed" /\ job \in Job /\ exit = ""
      BY <2>3 DEF WholeInv, ReadStatus, TypeInv, JobIsKnown
    <3>2. \/ pc' = "logs" /\ seen' = status[job] /\ exit' = exit
          \/ pc' = "end" /\ seen' = seen /\ exit' = "call"
      BY <2>3 DEF ReadStatus, End
    <3>3. UNCHANGED <<status, log, attempt, mode, job, printed>>
      BY <2>3 DEF ReadStatus, server
    <3> QED
      BY <3>1, <3>2, <3>3 DEF WholeInv
  <2>4. CASE ReadLogs
    <3>1. /\ pc = "logs" /\ PrintNew(job) /\ mode \in FollowModes /\ job \in Job /\ exit = ""
          /\ UNCHANGED <<status, log, attempt, mode, job, seen>>
          /\ \/ isRunning /\ pc' = "sleep" /\ exit' = exit
             \/ ~isRunning /\ pc' = "end"
      BY <2>4 DEF WholeInv, ReadLogs, FollowModes, TypeInv, JobIsKnown, AfterLoop, End, server
    <3>2. ASSUME seen = "completed", attempt[job] = 1
          PROVE  printed'[job] = log[job] /\ status[job] = "completed"
      <4>1. IsPrefix(printed[job], log[job]) /\ Len(printed[job]) = lastLogLength
        BY <3>1, <3>2 DEF PrintedInv, PrintedIsLog, LengthIsPrinted
      <4>2. printed'[job] = log[job]
        BY <3>1, <4>1, PrintCompletes
      <4> QED
        BY <3>1, <3>2, <4>2 DEF WholeInv, FollowModes
    <3> QED
      BY <3>1, <3>2 DEF WholeInv, isRunning, Running
  <2>5. CASE LogsFail
    BY <2>5 DEF WholeInv, isRunning, Running, LogsFail, AfterLoop, End, server, reading, TypeInv, JobIsKnown
  <2>6. CASE ShowLogs
    <3>1. /\ mode \notin FollowModes /\ job \in Job /\ pc = "logs" /\ pc' \in {"logs", "end"}
          /\ mode' = mode /\ job' \in Job /\ (pc' # "end" => exit' = exit)
      BY <2>6, FirstJobs DEF ShowLogs, FollowModes, NextLog, End, TypeInv, TypeOK, JobIsKnown
    <3> QED
      BY <3>1 DEF WholeInv, FollowModes
  <2>7. CASE Server
    BY <2>7, ServerKeepsWhole
  <2>8. CASE UNCHANGED vars
    BY <2>8 DEF WholeInv, vars, server, reading
  <2> QED
    BY <2>1, <2>2, <2>3, <2>4, <2>5, <2>6, <2>7, <2>8, <2>9 DEF Next, CallAnswered, Local
<1>3. WholeInv => CompletedIsWhole
  BY DEF WholeInv
<1> QED
  BY <1>1, <1>2, <1>3, TypeInvariance, PrintedInvariance, PTL DEF Spec
=============================================================================
