----------------------------- MODULE GPRProofs -----------------------------
(***************************************************************************)
(* The two ends of a get, put or RPC keep to their protocol, for any kind  *)
(* of operation and any number of requests, reconnects and answers of the  *)
(* data source which come late.                                            *)
(***************************************************************************)
EXTENDS GPRSystem, SequenceTheorems, TLAPS

ConnectJob == [do : {"connect"}, epoch : Nat, ok : BOOLEAN]
ReplyJob == [do : {"reply"}, epoch : Nat, ok : BOOLEAN, serial : Serials]
Job == ConnectJob \cup ReplyJob

JobsType ==
    /\ jobs \in Seq(Job)
    /\ \A i \in DOMAIN jobs : jobs[i].epoch <= epoch

\* The answers which the present ServerGPR is still to be given: by the source,
\* and by a function already dispatched.
Asked == {e \in execs : e.epoch = epoch}
Answered == {i \in DOMAIN jobs : jobs[i].do = "reply" /\ jobs[i].epoch = epoch}

\* One answer at most is awaited, and none outside of state Executing.
OneAnswer ==
    /\ sstate \in {"Creating", "Idle"} => Asked = {} /\ Answered = {}
    /\ Asked = {} \/ Answered = {}
    /\ \A d, e \in Asked : d = e
    /\ \A i, j \in Answered : i = j

InitMsg == [cmd |-> "INIT"]
ExecMsg(get) == [cmd |-> "EXEC", get |-> get, serial |-> serial]
ReplyMsg(ok, get) == [cmd |-> "REPLY", ok |-> ok, get |-> get, serial |-> serial]
Busy == cstate \in {"GetOPut", "Exec"}
FirstRun == ~kind.autoExec => ran[serial] = 0
HasRun == cstate = "Exec" /\ kind.op # "Get" => ran[serial] > 0

\* Where an operation is.  Until it has ended at most one message is under way.
Unsent == cstate = "Connecting" /\ ~known /\ c2s = <<>> /\ s2c = <<>> /\ Gone
InitSent == cstate = "Creating" /\ known /\ c2s = <<InitMsg>> /\ s2c = <<>> /\ Gone
InitHeld == cstate = "Creating" /\ known /\ c2s = <<>> /\ s2c = <<>> /\ sstate = "Creating"
InitReplied ==
    /\ cstate = "Creating" /\ known /\ c2s = <<>>
    /\ \E ok \in BOOLEAN :
          /\ s2c = <<[cmd |-> "INIT", ok |-> ok]>>
          /\ sstate = IF ok THEN "Idle" ELSE "Dead"
AtRest == cstate = "Idle" /\ known /\ c2s = <<>> /\ s2c = <<>> /\ sstate = "Idle"
ExecSent ==
    /\ Busy /\ known /\ s2c = <<>> /\ sstate = "Idle" /\ FirstRun
    /\ \E get \in BOOLEAN : (get <=> cstate = "GetOPut") /\ c2s = <<ExecMsg(get)>>
ExecHeld ==
    /\ Busy /\ known /\ c2s = <<>> /\ s2c = <<>> /\ sstate = "Executing"
    /\ (sget <=> cstate = "GetOPut") /\ HasRun
    /\ \A e \in Asked : e.serial = serial
    /\ \A i \in Answered : jobs[i].serial = serial
ExecReplied ==
    /\ Busy /\ known /\ c2s = <<>> /\ sstate = "Idle" /\ HasRun
    /\ \E ok, get \in BOOLEAN : (get <=> cstate = "GetOPut") /\ s2c = <<ReplyMsg(ok, get)>>

\* It has ended: in onInit(), before it is set up, with a request under way, with
\* DESTROY under way, and with nothing more to come.
Thrown == cstate = "Done" /\ known /\ abandoned /\ c2s = <<>> /\ s2c = <<>> /\ sstate = "Idle"
EndedEarly == cstate = "Done" /\ ~known /\ abandoned /\ c2s = <<InitMsg>> /\ Gone
EndedBusy ==
    /\ cstate = "Done" /\ ~known /\ sstate = "Idle" /\ FirstRun
    /\ \E get \in BOOLEAN : c2s = <<ExecMsg(get), Destroy>>
EndedSoon == cstate = "Done" /\ ~known /\ c2s = <<Destroy>>
Ended == cstate = "Done" /\ ~known /\ c2s = <<>> /\ (Gone \/ abandoned)

SettingUp == Unsent \/ InitSent \/ InitHeld \/ InitReplied
Executing == AtRest \/ ExecSent \/ ExecHeld \/ ExecReplied
Ending == Thrown \/ EndedEarly \/ EndedBusy \/ EndedSoon \/ Ended
Phase == SettingUp \/ Executing \/ Ending

\* What the user has been told, and what the server has done, so far
Told ==
    /\ puts \subseteq 0..serial /\ good \subseteq 0..serial
    /\ kind.op = "Get" => puts = {}
    /\ \A n \in Serials : n > serial => results[n] = 0 /\ (~kind.autoExec => ran[n] = 0)
    /\ kind.autoExec /\ cstate # "Done" => \A n \in Serials : results[n] = 0
    /\ Busy => results[serial] = 0
    /\ ~kind.autoExec /\ cstate = "GetOPut" => serial \notin puts
    /\ ResultOnce /\ PutOnce /\ SuccessIsReal

\* Each ServerGPR has an epoch, cancel() ends the operation, and messages are lost
\* with the connection.
Rest ==
    /\ sstate # "None" => epoch > 0
    /\ cancelled => cstate = "Done"
    /\ link = "down" => c2s = <<>> /\ s2c = <<>> /\ Gone

Inv == TypeOK /\ JobsType /\ OneAnswer /\ Phase /\ Told /\ Rest
-----------------------------------------------------------------------------
\* Queues of one and two messages
LEMMA Short ==
    ASSUME NEW a, NEW b
    PROVE  /\ <<a>> # <<>> /\ <<a, b>> # <<>>
           /\ Head(<<a>>) = a /\ Tail(<<a>>) = <<>> /\ Append(<<>>, a) = <<a>>
           /\ Head(<<a, b>>) = a /\ Tail(<<a, b>>) = <<b>> /\ Append(<<a>>, b) = <<a, b>>
<1>1. /\ <<a>> # <<>> /\ <<a, b>> # <<>>
      /\ Head(<<a>>) = a /\ Head(<<a, b>>) = a
  OBVIOUS
<1>2. Tail(<<a>>) = <<>>
  OBVIOUS
<1>3. Append(<<>>, a) = <<a>>
  OBVIOUS
<1>4. Tail(<<a, b>>) = <<b>>
  OBVIOUS
<1>5. Append(<<a>>, b) = <<a, b>>
  <2>1. <<a>> \in Seq({a, b}) /\ <<a, b>> \in Seq({a, b}) /\ Len(<<a>>) = 1 /\ Len(<<a, b>>) = 2
    OBVIOUS
  <2>2. /\ Append(<<a>>, b) \in Seq({a, b}) /\ Len(Append(<<a>>, b)) = 2
        /\ Append(<<a>>, b)[1] = a /\ Append(<<a>>, b)[2] = b
    BY <2>1
  <2> DEFINE s == Append(<<a>>, b)
             t == <<a, b>>
  <2>3. t[1] = a /\ t[2] = b
    OBVIOUS
  <2>4. \A i \in 1..Len(s) : s[i] = t[i]
    BY <2>2, <2>3
  <2>5. s \in Seq({a, b}) /\ t \in Seq({a, b}) /\ Len(s) = Len(t)
    BY <2>1, <2>2
  <2> HIDE DEF s, t
  <2>6. s = t
    BY <2>4, <2>5, SeqEqual
  <2>7. QED
    BY <2>6 DEF s, t
<1>6. QED
  BY <1>1, <1>2, <1>3, <1>4, <1>5

\* Nothing which matters to an operation changes.
LEMMA SamePhase ==
    ASSUME Phase, UNCHANGED <<svars, cvars, c2s, s2c>> PROVE Phase'
<1> USE DEF cvars, svars, Gone, Busy, HasRun, FirstRun, InitMsg, ExecMsg, ReplyMsg, Destroy
<1>1. SettingUp => SettingUp'
  BY DEF SettingUp, Unsent, InitSent, InitHeld, InitReplied
<1>2. Executing => Executing'
  <2>1. ExecHeld => ExecHeld'
    BY DEF ExecHeld, Asked, Answered
  <2>2. QED
    BY <2>1 DEF Executing, AtRest, ExecSent, ExecReplied
<1>3. Ending => Ending'
  BY DEF Ending, Thrown, EndedEarly, EndedBusy, EndedSoon, Ended
<1>4. QED
  BY <1>1, <1>2, <1>3 DEF Phase

\* Nothing is told and nothing run.
LEMMA ToldSame ==
    ASSUME Told, UNCHANGED <<cvars, ran>> PROVE Told'
BY DEF Told, cvars, Busy, ResultOnce, PutOnce, SuccessIsReal

\* Functions dispatched are last, and the others keep their places.
LEMMA Dispatched ==
    ASSUME JobsType, NEW j \in Job
    PROVE  LET js == Append(jobs, j)
           IN  /\ js \in Seq(Job) /\ Len(js) = Len(jobs) + 1 /\ js[Len(jobs) + 1] = j
               /\ \A i \in 1..Len(jobs) : js[i] = jobs[i]
BY DEF JobsType

\* Functions which an answered ConnectOp dispatches are last, and the others keep their places.
LEMMA ConnectDispatched ==
    ASSUME JobsType, NEW e \in Nat, NEW ok \in BOOLEAN
    PROVE  LET js == jobs \o ConnectJobs(e, ok)
           IN  /\ js \in Seq(Job) /\ Len(js) = Len(jobs) + 2
               /\ \A i \in 1..Len(jobs) : js[i] = jobs[i]
               /\ \A i \in DOMAIN js : i \notin 1..Len(jobs) => js[i].do = "connect" /\ js[i].epoch = e
<1> DEFINE cj == ConnectJobs(e, ok)
<1>1. /\ cj \in Seq(Job) /\ Len(cj) = 2
      /\ \A i \in 1..2 : cj[i].do = "connect" /\ cj[i].epoch = e
  <2> DEFINE c == [do |-> "connect", epoch |-> e, ok |-> ok]
             d == [do |-> "connect", epoch |-> e, ok |-> FALSE]
  <2>1. c \in Job /\ c.do = "connect" /\ c.epoch = e
    BY DEF Job, ConnectJob
  <2>2. d \in Job /\ d.do = "connect" /\ d.epoch = e
    BY DEF Job, ConnectJob
  <2>3. cj = <<c, d>>
    BY DEF ConnectJobs
  <2> HIDE DEF c, d, cj
  <2>4. QED
    BY <2>1, <2>2, <2>3
<1>2. jobs \in Seq(Job)
  BY DEF JobsType
<1> HIDE DEF cj
<1>3. /\ jobs \o cj \in Seq(Job) /\ Len(jobs \o cj) = Len(jobs) + 2
      /\ \A i \in 1..(Len(jobs) + 2) :
            (jobs \o cj)[i] = IF i <= Len(jobs) THEN jobs[i] ELSE cj[i - Len(jobs)]
  <2>1. /\ jobs \o cj \in Seq(Job) /\ Len(jobs \o cj) = Len(jobs) + Len(cj)
        /\ \A i \in 1..(Len(jobs) + Len(cj)) :
              (jobs \o cj)[i] = IF i <= Len(jobs) THEN jobs[i] ELSE cj[i - Len(jobs)]
    BY <1>1, <1>2, ConcatProperties, Zenon
  <2>2. QED
    BY <1>1, <2>1
<1>4. ASSUME NEW i \in DOMAIN (jobs \o cj), i \notin 1..Len(jobs)
      PROVE  (jobs \o cj)[i].do = "connect" /\ (jobs \o cj)[i].epoch = e
  <2>1. i \in 1..(Len(jobs) + 2) /\ Len(jobs) \in Nat
    BY <1>2, <1>3, LenProperties
  <2>2. ~(i <= Len(jobs)) /\ i - Len(jobs) \in 1..2
    BY <1>4, <2>1
  <2>3. (jobs \o cj)[i] = cj[i - Len(jobs)]
    BY <1>3, <2>1, <2>2
  <2>4. QED
    BY <1>1, <2>2, <2>3
<1>5. \A i \in 1..Len(jobs) : (jobs \o cj)[i] = jobs[i]
  BY <1>2, <1>3, LenProperties
<1>6. QED
  BY <1>3, <1>4, <1>5 DEF cj

\* They are no answers to a request.
LEMMA ConnectJobsType ==
    ASSUME JobsType, epoch' \in Nat, epoch <= epoch', epoch \in Nat,
           NEW e \in 1..epoch', NEW ok \in BOOLEAN, jobs' = jobs \o ConnectJobs(e, ok)
    PROVE  JobsType' /\ Answered' = {i \in Answered : epoch' = epoch}
<1>1. /\ jobs' \in Seq(Job) /\ Len(jobs') = Len(jobs) + 2
      /\ \A i \in 1..Len(jobs) : jobs'[i] = jobs[i]
      /\ \A i \in DOMAIN jobs' : i \notin 1..Len(jobs) => jobs'[i].do = "connect" /\ jobs'[i].epoch = e
  <2>1. e \in Nat
    OBVIOUS
  <2>2. QED
    BY <2>1, ConnectDispatched
<1>2. Len(jobs) \in Nat /\ DOMAIN jobs = 1..Len(jobs) /\ DOMAIN jobs' = 1..(Len(jobs) + 2)
  BY <1>1, LenProperties DEF JobsType
<1>3. \A i \in 1..Len(jobs) : jobs[i].epoch \in Nat /\ jobs[i].epoch <= epoch
  BY <1>2 DEF JobsType, Job, ConnectJob, ReplyJob
<1>4. \A i \in DOMAIN jobs' : jobs'[i].epoch <= epoch'
  BY <1>1, <1>3
<1>5. Answered' = {i \in Answered : epoch' = epoch}
  BY <1>1, <1>2, <1>3 DEF Answered
<1>6. QED
  BY <1>1, <1>4, <1>5 DEF JobsType

\* One which has been called is gone, and the others move up.
LEMMA JobDone ==
    ASSUME JobsType, jobs # <<>>, jobs' = Tail(jobs), UNCHANGED epoch
    PROVE  /\ Head(jobs) = jobs[1] /\ jobs[1] \in Job /\ 1 \in DOMAIN jobs
           /\ JobsType'
           /\ \A i \in Answered' : i + 1 # 1 /\ i + 1 \in Answered /\ jobs'[i] = jobs[i + 1]
           /\ \A i, j \in Answered' : i + 1 = j + 1 => i = j
<1>1. /\ Head(jobs) = jobs[1] /\ jobs[1] \in Job /\ Len(jobs) \in Nat /\ Len(jobs) > 0
      /\ DOMAIN jobs = 1..Len(jobs)
  BY DEF JobsType
<1>2. /\ jobs' \in Seq(Job) /\ DOMAIN jobs' = 1..(Len(jobs) - 1)
      /\ \A i \in 1..(Len(jobs) - 1) : jobs'[i] = jobs[i + 1] /\ i + 1 \in 1..Len(jobs)
  BY <1>1 DEF JobsType
<1>3. QED
  BY <1>1, <1>2 DEF JobsType, Answered

\* A request is run, for the first time unless it is repeated by itself.
LEMMA Ran ==
    ASSUME Told, FirstRun, ran \in [Serials -> Nat], serial \in Serials,
           UNCHANGED cvars, ran' = ran \/ ran' = [ran EXCEPT ![serial] = @ + 1]
    PROVE  Told'
<1>1. CASE ran' = ran
  BY <1>1, ToldSame
<1>2. CASE ran' = [ran EXCEPT ![serial] = @ + 1]
  <2>1. \A n \in Serials : ran[n] \in Nat /\ (ran'[n] = IF n = serial THEN ran[n] + 1 ELSE ran[n])
    BY <1>2
  <2>2. PutOnce' /\ ResultOnce'
    BY <2>1 DEF Told, FirstRun, PutOnce, ResultOnce, cvars
  <2>4. SuccessIsReal'
    <3>1. good \subseteq Serials
      BY MaxExecAssumption DEF Told, Serials
    <3>2. QED
      BY <2>1, <3>1 DEF Told, SuccessIsReal, cvars
  <2>3. \A n \in Serials : n > serial => results[n] = 0 /\ (~kind.autoExec => ran'[n] = 0)
    <3>1. \A n \in Serials : n > serial => n # serial
      BY MaxExecAssumption DEF Serials
    <3>2. QED
      BY <2>1, <3>1 DEF Told
  <2>5. QED
    BY <2>2, <2>3, <2>4 DEF Told, Busy, cvars
<1>3. QED
  BY <1>1, <1>2

\* INIT makes a ServerGPR for which nothing is under way.
LEMMA HandleInitStep ==
    ASSUME Inv, HandleInit, UNCHANGED <<cvars, link, losses>> PROVE Inv'
<1>1. TypeOK'
  <2>1. epoch \in Nat /\ epoch' = epoch + 1
    BY DEF HandleInit, Inv, TypeOK, ServerTypeOK
  <2>2. 1..epoch \subseteq 1..epoch' /\ epoch' \in 1..epoch'
    BY <2>1
  <2>3. execs' \subseteq [epoch : 1..epoch', serial : Serials]
    BY <2>2 DEF HandleInit, Inv, TypeOK, ServerTypeOK
  <2>4. setups' \subseteq 1..epoch'
    BY <2>2 DEF HandleInit, Inv, TypeOK, ServerTypeOK
  <2>5. ServerTypeOK'
    BY <2>1, <2>3, <2>4 DEF HandleInit, Inv, TypeOK, ServerTypeOK
  <2>6. ClientTypeOK'
    BY DEF Inv, TypeOK, ClientTypeOK, cvars
  <2>7. QED
    BY <2>5, <2>6 DEF Inv, TypeOK
<1>2. JobsType' /\ Answered' = {}
  <2>1. epoch \in Nat /\ epoch' = epoch + 1 /\ JobsType
    BY DEF HandleInit, Inv, TypeOK, ServerTypeOK
  <2>2. CASE kind.op = "RPC"
    <3>1. jobs' = jobs \o ConnectJobs(epoch', TRUE)
      BY <2>2 DEF HandleInit
    <3>2. epoch' \in Nat /\ epoch <= epoch' /\ epoch' \in 1..epoch' /\ epoch' # epoch
      BY <2>1
    <3>3. QED
      BY <2>1, <3>1, <3>2, ConnectJobsType
  <2>3. CASE kind.op # "RPC"
    <3>1. UNCHANGED jobs
      BY <2>3 DEF HandleInit
    <3>2. \A i \in DOMAIN jobs : jobs[i].epoch \in Nat /\ jobs[i].epoch <= epoch
      BY <2>1 DEF JobsType, Job, ConnectJob, ReplyJob
    <3>3. QED
      BY <2>1, <3>1, <3>2 DEF JobsType, Answered
  <2>4. QED
    BY <2>2, <2>3
<1>3. OneAnswer'
  <2>1. Asked' = {}
    BY <1>1 DEF Asked, HandleInit, Inv, TypeOK, ServerTypeOK
  <2>2. QED
    BY <1>2, <2>1 DEF OneAnswer
<1>4. Phase'
  <2>1. CASE InitSent
    <3>1. InitHeld'
      BY <2>1, Short DEF InitSent, InitHeld, HandleInit, ServerRecv, cvars
    <3>2. QED
      BY <3>1 DEF Phase, SettingUp
  <2>2. CASE EndedEarly
    <3>1. Ended'
      BY <2>2, Short DEF EndedEarly, Ended, HandleInit, ServerRecv, cvars
    <3>2. QED
      BY <3>1 DEF Phase, Ending
  <2>3. QED
    BY <2>1, <2>2, Short DEF Inv, Phase, SettingUp, Executing, Ending, Unsent, InitHeld,
       InitReplied, AtRest, ExecSent, ExecHeld, ExecReplied, Thrown, EndedBusy, EndedSoon,
       Ended, HandleInit, ServerRecv, ExecMsg, Destroy
<1>5. Told'
  BY ToldSame DEF Inv, HandleInit
<1>6. Rest'
  BY DEF Inv, TypeOK, ServerTypeOK, Rest, HandleInit, ServerRecv, cvars, Gone
<1>7. QED
  BY <1>1, <1>2, <1>3, <1>4, <1>5, <1>6 DEF Inv

\* A request is run; it may be cancelled already.
LEMMA HandleExecStep ==
    ASSUME Inv, HandleExec, UNCHANGED <<cvars, link, losses>> PROVE Inv'
<1> DEFINE m == Head(c2s)
<1>1. CASE ExecSent
  <2>1. PICK get \in BOOLEAN : (get <=> cstate = "GetOPut") /\ c2s = <<ExecMsg(get)>>
    BY <1>1 DEF ExecSent
  <2>2. m.get = get /\ m.serial = serial /\ c2s # <<>> /\ Tail(c2s) = <<>>
    BY <2>1, Short DEF ExecMsg
  <2>3. /\ sstate' = "Executing" /\ sget' = m.get
        /\ execs' = execs \cup {[epoch |-> epoch, serial |-> m.serial]}
        /\ ran' = IF m.get \/ kind.op = "Get" THEN ran ELSE [ran EXCEPT ![m.serial] = @ + 1]
        /\ c2s' = <<>> /\ UNCHANGED <<epoch, setups, jobs, s2c>>
    BY <1>1, <2>2 DEF ExecSent, HandleExec, ServerRecv, Gone
  <2> HIDE DEF m
  <2>4. TypeOK'
    <3>1. epoch \in 1..epoch /\ serial \in Serials
      BY <1>1 DEF ExecSent, Inv, Rest, TypeOK, ServerTypeOK, ClientTypeOK
    <3>2. execs' \subseteq [epoch : 1..epoch', serial : Serials]
      BY <2>2, <2>3, <3>1 DEF Inv, TypeOK, ServerTypeOK
    <3>3. ran' \in [Serials -> Nat]
      BY <2>2, <2>3, <3>1 DEF Inv, TypeOK, ServerTypeOK
    <3>4. ServerTypeOK'
      BY <2>2, <2>3, <3>2, <3>3 DEF Inv, TypeOK, ServerTypeOK
    <3>5. ClientTypeOK'
      BY DEF Inv, TypeOK, ClientTypeOK, cvars
    <3>6. QED
      BY <3>4, <3>5 DEF Inv, TypeOK
  <2>5. OneAnswer'
    BY <1>1, <2>3 DEF ExecSent, OneAnswer, Asked, Answered, Inv
  <2>6. ExecHeld'
    <3>1. Asked' \subseteq {[epoch |-> epoch, serial |-> serial]} /\ Answered' = {}
      BY <1>1, <2>2, <2>3 DEF ExecSent, Asked, Answered, Inv, OneAnswer
    <3>2. HasRun'
      <4>1. ASSUME cstate = "Exec", kind.op # "Get" PROVE ran'[serial] > 0
        <5>1. ran' = [ran EXCEPT ![serial] = @ + 1]
          BY <2>1, <2>2, <2>3, <4>1
        <5>2. QED
          BY <5>1 DEF Inv, TypeOK, ServerTypeOK, ClientTypeOK
      <4>2. QED
        BY <4>1 DEF HasRun, cvars
    <3>3. QED
      BY <1>1, <2>1, <2>2, <2>3, <3>1, <3>2 DEF ExecSent, ExecHeld, cvars, Busy
  <2>7. Told'
    <3>1. FirstRun /\ Told /\ ran \in [Serials -> Nat] /\ serial \in Serials
      BY <1>1 DEF ExecSent, Inv, TypeOK, ServerTypeOK, ClientTypeOK
    <3>2. UNCHANGED cvars /\ (ran' = ran \/ ran' = [ran EXCEPT ![serial] = @ + 1])
      BY <2>2, <2>3
    <3>3. QED
      BY <3>1, <3>2, Ran
  <2>8. Rest'
    BY <1>1, <2>3 DEF Rest, Inv, ExecSent, cvars, Gone
  <2>9. JobsType'
    BY <2>3 DEF Inv, JobsType
  <2>10. QED
    BY <2>4, <2>5, <2>6, <2>7, <2>8, <2>9 DEF Inv, Phase, Executing
<1>2. CASE EndedBusy
  <2>1. PICK get \in BOOLEAN : c2s = <<ExecMsg(get), Destroy>>
    BY <1>2 DEF EndedBusy
  <2>2. m.get = get /\ m.serial = serial /\ c2s # <<>> /\ Tail(c2s) = <<Destroy>>
    BY <2>1, Short DEF ExecMsg
  <2>3. /\ sstate' = "Executing" /\ sget' = m.get
        /\ execs' = execs \cup {[epoch |-> epoch, serial |-> m.serial]}
        /\ ran' = IF m.get \/ kind.op = "Get" THEN ran ELSE [ran EXCEPT ![m.serial] = @ + 1]
        /\ c2s' = <<Destroy>> /\ UNCHANGED <<epoch, setups, jobs, s2c>>
    BY <1>2, <2>2 DEF EndedBusy, HandleExec, ServerRecv, Gone
  <2> HIDE DEF m
  <2>4. TypeOK'
    <3>1. epoch \in 1..epoch /\ serial \in Serials
      BY <1>2 DEF EndedBusy, Inv, Rest, TypeOK, ServerTypeOK, ClientTypeOK
    <3>2. execs' \subseteq [epoch : 1..epoch', serial : Serials]
      BY <2>2, <2>3, <3>1 DEF Inv, TypeOK, ServerTypeOK
    <3>3. ran' \in [Serials -> Nat]
      BY <2>2, <2>3, <3>1 DEF Inv, TypeOK, ServerTypeOK
    <3>4. ServerTypeOK'
      BY <2>2, <2>3, <3>2, <3>3 DEF Inv, TypeOK, ServerTypeOK
    <3>5. ClientTypeOK'
      BY DEF Inv, TypeOK, ClientTypeOK, cvars
    <3>6. QED
      BY <3>4, <3>5 DEF Inv, TypeOK
  <2>5. OneAnswer'
    BY <1>2, <2>3 DEF EndedBusy, OneAnswer, Asked, Answered, Inv
  <2>6. EndedSoon'
    BY <1>2, <2>3 DEF EndedBusy, EndedSoon, cvars, Destroy
  <2>7. Told'
    <3>1. FirstRun /\ Told /\ ran \in [Serials -> Nat] /\ serial \in Serials
      BY <1>2 DEF EndedBusy, Inv, TypeOK, ServerTypeOK, ClientTypeOK
    <3>2. UNCHANGED cvars /\ (ran' = ran \/ ran' = [ran EXCEPT ![serial] = @ + 1])
      BY <2>2, <2>3
    <3>3. QED
      BY <3>1, <3>2, Ran
  <2>8. Rest'
    BY <1>2, <2>2, <2>3 DEF Rest, Inv, EndedBusy, cvars, Gone
  <2>9. JobsType'
    BY <2>3 DEF Inv, JobsType
  <2>10. QED
    BY <2>4, <2>5, <2>6, <2>7, <2>8, <2>9 DEF Inv, Phase, Ending
<1>3. QED
  BY <1>1, <1>2, Short DEF Inv, Phase, SettingUp, Executing, Ending, Unsent, InitSent, InitHeld,
     InitReplied, AtRest, ExecHeld, ExecReplied, Thrown, EndedEarly, EndedSoon,
     Ended, HandleExec, ServerRecv, InitMsg, Destroy

\* DESTROY comes last.
LEMMA HandleDestroyStep ==
    ASSUME Inv, HandleDestroy, UNCHANGED <<cvars, link, losses>> PROVE Inv'
<1>1. EndedSoon
  BY Short DEF Inv, Phase, SettingUp, Executing, Ending, Unsent, InitSent, InitHeld, InitReplied,
     AtRest, ExecSent, ExecHeld, ExecReplied, Thrown, EndedEarly, EndedBusy, Ended,
     HandleDestroy, ServerRecv, InitMsg, ExecMsg
<1>2. /\ Gone' /\ c2s' = <<>> /\ sstate' = (IF Gone THEN sstate ELSE "Dead")
      /\ UNCHANGED <<epoch, sget, setups, jobs, execs, ran, s2c>>
  BY <1>1, Short DEF EndedSoon, HandleDestroy, ServerRecv, Gone
<1>3. TypeOK'
  <2>1. ServerTypeOK'
    BY <1>2 DEF Inv, TypeOK, ServerTypeOK
  <2>2. ClientTypeOK'
    BY DEF Inv, TypeOK, ClientTypeOK, cvars
  <2>3. QED
    BY <2>1, <2>2 DEF Inv, TypeOK
<1>4. JobsType' /\ OneAnswer'
  BY <1>2 DEF Inv, JobsType, OneAnswer, Asked, Answered, Gone
<1>5. Ended'
  BY <1>1, <1>2 DEF EndedSoon, Ended, cvars
<1>6. Told'
  BY <1>2, ToldSame DEF Inv
<1>7. Rest'
  BY <1>1, <1>2, Short DEF Inv, Rest, EndedSoon, cvars, Gone
<1>8. QED
  BY <1>3, <1>4, <1>5, <1>6, <1>7 DEF Inv, Phase, Ending

\* The source answers a ConnectOp.
LEMMA ConnectStep ==
    ASSUME Inv, NEW ok \in BOOLEAN, NEW e \in setups, Connect(e, ok), UNCHANGED <<cvars, link, losses>>
    PROVE  Inv'
<1>1. epoch \in Nat /\ e \in 1..epoch' /\ UNCHANGED epoch /\ epoch <= epoch'
  BY DEF Inv, TypeOK, ServerTypeOK, Connect
<1>2. JobsType' /\ Answered' = Answered
  <2>1. JobsType /\ jobs' = jobs \o ConnectJobs(e, ok) /\ epoch' \in Nat
    BY <1>1 DEF Inv, Connect
  <2>2. QED
    BY <1>1, <2>1, ConnectJobsType
<1>3. TypeOK'
  <2>1. ServerTypeOK'
    BY DEF Inv, TypeOK, ServerTypeOK, Connect
  <2>2. ClientTypeOK'
    BY DEF Inv, TypeOK, ClientTypeOK, cvars
  <2>3. QED
    BY <2>1, <2>2 DEF Inv, TypeOK
<1>4. OneAnswer'
  BY <1>1, <1>2 DEF Inv, OneAnswer, Asked, Connect
<1>5. Phase'
  <2>1. CASE ExecHeld
    <3>1. \A i \in Answered : jobs'[i] = jobs[i]
      <4>1. JobsType /\ e \in Nat /\ jobs' = jobs \o ConnectJobs(e, ok)
        BY <1>1 DEF Inv, Connect
      <4>2. \A i \in 1..Len(jobs) : jobs'[i] = jobs[i]
        BY <4>1, ConnectDispatched
      <4>3. QED
        BY <4>1, <4>2 DEF Answered, JobsType
    <3>2. Asked' = Asked
      BY <1>1 DEF Asked, Connect
    <3>3. ExecHeld'
      BY <1>2, <2>1, <3>1, <3>2 DEF ExecHeld, Connect, cvars, Busy, HasRun
    <3>4. QED
      BY <3>3 DEF Phase, Executing
  <2>2. CASE ~ExecHeld
    BY <2>2 DEF Inv, Phase, SettingUp, Executing, Ending, Unsent, InitSent, InitHeld, InitReplied,
       AtRest, ExecSent, ExecReplied, Thrown, EndedEarly, EndedBusy, EndedSoon, Ended, Connect, cvars,
       Gone, Busy, HasRun, FirstRun, ExecMsg, ReplyMsg
  <2>3. QED
    BY <2>1, <2>2
<1>6. Told'
  BY ToldSame DEF Inv, Connect
<1>7. Rest'
  BY <1>1 DEF Inv, Rest, cvars, Gone, Connect
<1>8. QED
  BY <1>2, <1>3, <1>4, <1>5, <1>6, <1>7 DEF Inv

\* The source answers an ExecOp: if it is the present ServerGPR's then it has none left.
LEMMA ReplyStep ==
    ASSUME Inv, NEW ok \in BOOLEAN, NEW e \in execs, Reply(e, ok), UNCHANGED <<cvars, link, losses>>
    PROVE  Inv'
<1> DEFINE j == [do |-> "reply", epoch |-> e.epoch, ok |-> ok, serial |-> e.serial]
<1>1. epoch \in Nat /\ e.epoch \in 1..epoch /\ e.serial \in Serials /\ JobsType
  BY DEF Inv, TypeOK, ServerTypeOK
<1>2. j \in Job /\ j.do = "reply" /\ j.epoch = e.epoch /\ j.serial = e.serial
  BY <1>1 DEF Job, ReplyJob
<1>3. jobs' = Append(jobs, j) /\ execs' = execs \ {e} /\ UNCHANGED <<sstate, epoch, sget, setups, ran, c2s, s2c>>
  BY DEF Reply
<1> HIDE DEF j
<1>4. /\ jobs' \in Seq(Job) /\ Len(jobs') = Len(jobs) + 1 /\ jobs'[Len(jobs) + 1] = j
      /\ \A i \in 1..Len(jobs) : jobs'[i] = jobs[i]
      /\ Len(jobs) \in Nat /\ DOMAIN jobs = 1..Len(jobs) /\ DOMAIN jobs' = 1..(Len(jobs) + 1)
  BY <1>1, <1>2, <1>3, Dispatched DEF JobsType
<1>5. JobsType'
  BY <1>1, <1>2, <1>3, <1>4 DEF JobsType
<1>6. TypeOK'
  <2>1. ServerTypeOK'
    BY <1>3 DEF Inv, TypeOK, ServerTypeOK
  <2>2. ClientTypeOK'
    BY <1>3 DEF Inv, TypeOK, ClientTypeOK, cvars
  <2>3. QED
    BY <2>1, <2>2 DEF Inv, TypeOK
<1>7. /\ e.epoch = epoch => e \in Asked /\ Asked' = Asked \ {e} /\ Answered' = Answered \cup {Len(jobs) + 1}
      /\ e.epoch # epoch => Asked' = Asked /\ Answered' = Answered
      /\ \A i \in Answered : jobs'[i] = jobs[i]
  BY <1>2, <1>3, <1>4 DEF Asked, Answered
<1>8. OneAnswer'
  BY <1>3, <1>7 DEF Inv, OneAnswer
<1>9. Phase'
  <2>1. CASE ExecHeld
    <3>1. ExecHeld'
      BY <1>2, <1>3, <1>4, <1>7, <2>1 DEF ExecHeld, cvars, Busy, HasRun
    <3>2. QED
      BY <3>1 DEF Phase, Executing
  <2>2. CASE ~ExecHeld
    BY <1>3, <2>2 DEF Inv, Phase, SettingUp, Executing, Ending, Unsent, InitSent, InitHeld, InitReplied,
       AtRest, ExecSent, ExecReplied, Thrown, EndedEarly, EndedBusy, EndedSoon, Ended, cvars,
       Gone, Busy, HasRun, FirstRun, ExecMsg, ReplyMsg
  <2>3. QED
    BY <2>1, <2>2
<1>10. Told'
  BY <1>3, ToldSame DEF Inv
<1>11. Rest'
  BY <1>3 DEF Inv, Rest, cvars, Gone
<1>12. QED
  BY <1>5, <1>6, <1>8, <1>9, <1>10, <1>11 DEF Inv

\* The head of the acceptor loop's queue is called and left without effect.
LEMMA JobIgnored ==
    ASSUME Inv, jobs # <<>>, jobs' = Tail(jobs), UNCHANGED <<sstate, s2c, epoch, sget, setups, execs, ran, c2s>>,
           UNCHANGED <<cvars, link, losses>>
    PROVE  Inv'
<1>1. /\ JobsType'
      /\ \A i \in Answered' : i + 1 # 1 /\ i + 1 \in Answered /\ jobs'[i] = jobs[i + 1]
      /\ \A i, k \in Answered' : i + 1 = k + 1 => i = k
  BY JobDone DEF Inv
<1>2. Asked' = Asked
  BY DEF Asked
<1>3. TypeOK'
  <2>1. ServerTypeOK'
    BY DEF Inv, TypeOK, ServerTypeOK
  <2>2. ClientTypeOK'
    BY DEF Inv, TypeOK, ClientTypeOK, cvars
  <2>3. QED
    BY <2>1, <2>2 DEF Inv, TypeOK
<1>4. OneAnswer'
  BY <1>1, <1>2 DEF Inv, OneAnswer
<1>5. Phase'
  <2>1. CASE ExecHeld
    <3>1. ExecHeld'
      BY <1>1, <1>2, <2>1 DEF ExecHeld, cvars, Busy, HasRun
    <3>2. QED
      BY <3>1 DEF Phase, Executing
  <2>2. CASE ~ExecHeld
    BY <2>2 DEF Inv, Phase, SettingUp, Executing, Ending, Unsent, InitSent, InitHeld, InitReplied,
       AtRest, ExecSent, ExecReplied, Thrown, EndedEarly, EndedBusy, EndedSoon, Ended, cvars,
       Gone, Busy, HasRun, FirstRun, ExecMsg, ReplyMsg
  <2>3. QED
    BY <2>1, <2>2
<1>6. Told'
  BY ToldSame DEF Inv
<1>7. Rest'
  BY DEF Inv, Rest, cvars, Gone
<1>8. QED
  BY <1>1, <1>3, <1>4, <1>5, <1>6, <1>7 DEF Inv

\* The reply to INIT is sent, once.
LEMMA JobConnectStep ==
    ASSUME Inv, JobConnect, UNCHANGED <<cvars, link, losses>> PROVE Inv'
<1>1. CASE ForMe(Head(jobs)) /\ WaitedFor("Creating")
  <2>1. /\ jobs # <<>> /\ jobs' = Tail(jobs) /\ JobsType /\ sstate = "Creating"
        /\ UNCHANGED <<epoch, sget, setups, execs, ran, c2s>>
    BY <1>1 DEF Inv, JobConnect, WaitedFor
  <2>2. /\ Head(jobs) = jobs[1] /\ jobs[1] \in Job /\ JobsType'
        /\ \A i \in Answered' : i + 1 # 1 /\ i + 1 \in Answered
    BY <2>1, JobDone
  <2>3. PICK ok \in BOOLEAN : Head(jobs).ok = ok
    BY <2>2 DEF Job, ConnectJob, ReplyJob
  <2>4. s2c' = Append(s2c, [cmd |-> "INIT", ok |-> ok]) /\ sstate' = IF ok THEN "Idle" ELSE "Dead"
    BY <1>1, <2>3 DEF JobConnect
  <2>5. TypeOK'
    <3>1. ServerTypeOK'
      BY <2>1, <2>4 DEF Inv, TypeOK, ServerTypeOK
    <3>2. ClientTypeOK'
      BY DEF Inv, TypeOK, ClientTypeOK, cvars
    <3>3. QED
      BY <3>1, <3>2 DEF Inv, TypeOK
  <2>6. OneAnswer'
    <3>1. Asked' = {} /\ Answered' = {}
      BY <2>1, <2>2 DEF Inv, OneAnswer, Asked
    <3>2. QED
      BY <3>1 DEF OneAnswer
  <2>7. Phase'
    <3>1. CASE InitHeld
      <4>1. InitReplied'
        BY <2>1, <2>4, <3>1, Short DEF InitHeld, InitReplied, cvars
      <4>2. QED
        BY <4>1 DEF Phase, SettingUp
    <3>2. CASE EndedSoon
      <4>1. EndedSoon'
        BY <2>1, <3>2 DEF EndedSoon, cvars
      <4>2. QED
        BY <4>1 DEF Phase, Ending
    <3>3. CASE Ended
      <4>1. Ended'
        BY <2>1, <3>3 DEF Ended, cvars, Gone
      <4>2. QED
        BY <4>1 DEF Phase, Ending
    <3>4. QED
      BY <2>1, <3>1, <3>2, <3>3 DEF Inv, Phase, SettingUp, Executing, Ending, Unsent, InitSent,
         InitReplied, AtRest, ExecSent, ExecHeld, ExecReplied, Thrown, EndedEarly, EndedBusy, Gone
  <2>8. Told'
    BY <2>1, ToldSame DEF Inv
  <2>9. Rest'
    BY <2>1 DEF Inv, Rest, cvars, Gone
  <2>10. QED
    BY <2>2, <2>5, <2>6, <2>7, <2>8, <2>9 DEF Inv
<1>2. CASE ~(ForMe(Head(jobs)) /\ WaitedFor("Creating"))
  BY <1>2, JobIgnored DEF JobConnect
<1>3. QED
  BY <1>1, <1>2

\* The reply to a request is sent, once, and it is the one to the request under way.
LEMMA JobReplyStep ==
    ASSUME Inv, JobReply, UNCHANGED <<cvars, link, losses>> PROVE Inv'
<1>1. CASE ForMe(Head(jobs)) /\ WaitedFor("Executing")
  <2>1. /\ jobs # <<>> /\ jobs' = Tail(jobs) /\ JobsType /\ sstate = "Executing" /\ sstate' = "Idle"
        /\ UNCHANGED <<epoch, sget, setups, execs, ran, c2s>>
    BY <1>1 DEF Inv, JobReply, WaitedFor
  <2>2. /\ Head(jobs) = jobs[1] /\ jobs[1] \in Job /\ 1 \in DOMAIN jobs /\ JobsType'
        /\ \A i \in Answered' : i + 1 # 1 /\ i + 1 \in Answered
    BY <2>1, JobDone
  <2>3. 1 \in Answered
    BY <1>1, <2>2 DEF Answered, JobReply, ForMe
  <2>4. jobs[1].ok \in BOOLEAN /\ sget \in BOOLEAN
    BY <2>2 DEF Job, ConnectJob, ReplyJob, Inv, TypeOK, ServerTypeOK
  <2>5. TypeOK'
    <3>1. ServerTypeOK'
      BY <2>1 DEF Inv, TypeOK, ServerTypeOK
    <3>2. ClientTypeOK'
      BY DEF Inv, TypeOK, ClientTypeOK, cvars
    <3>3. QED
      BY <3>1, <3>2 DEF Inv, TypeOK
  <2>6. OneAnswer'
    <3>1. Asked' = {} /\ Answered' = {}
      BY <2>1, <2>2, <2>3 DEF Inv, OneAnswer, Asked
    <3>2. QED
      BY <3>1 DEF OneAnswer
  <2>7. Phase'
    <3>1. CASE ExecHeld
      <4>1. jobs[1].serial = serial
        BY <2>3, <3>1 DEF ExecHeld
      <4>2. s2c' = Append(s2c, ReplyMsg(jobs[1].ok, sget))
        BY <1>1, <2>2, <4>1 DEF JobReply, ReplyMsg
      <4>3. s2c' = <<ReplyMsg(jobs[1].ok, sget)>>
        BY <3>1, <4>2, Short DEF ExecHeld
      <4>4. ExecReplied'
        BY <2>1, <2>4, <3>1, <4>3 DEF ExecHeld, ExecReplied, cvars, Busy, HasRun, ReplyMsg
      <4>5. QED
        BY <4>4 DEF Phase, Executing
    <3>2. CASE EndedSoon
      <4>1. EndedSoon'
        BY <2>1, <3>2 DEF EndedSoon, cvars
      <4>2. QED
        BY <4>1 DEF Phase, Ending
    <3>3. CASE Ended
      <4>1. Ended'
        BY <2>1, <3>3 DEF Ended, cvars, Gone
      <4>2. QED
        BY <4>1 DEF Phase, Ending
    <3>4. QED
      BY <2>1, <3>1, <3>2, <3>3 DEF Inv, Phase, SettingUp, Executing, Ending, Unsent, InitSent, InitHeld,
         InitReplied, AtRest, ExecSent, ExecReplied, Thrown, EndedEarly, EndedBusy, Gone
  <2>8. Told'
    BY <2>1, ToldSame DEF Inv
  <2>9. Rest'
    BY <2>1 DEF Inv, Rest, cvars, Gone
  <2>10. QED
    BY <2>2, <2>5, <2>6, <2>7, <2>8, <2>9 DEF Inv
<1>2. CASE ~(ForMe(Head(jobs)) /\ WaitedFor("Executing"))
  BY <1>2, JobIgnored DEF JobReply
<1>3. QED
  BY <1>1, <1>2

\* The client's steps leave the server as it is.
LEMMA ServerSame ==
    ASSUME Inv, UNCHANGED svars PROVE ServerTypeOK' /\ JobsType' /\ OneAnswer'
BY DEF Inv, TypeOK, ServerTypeOK, svars, JobsType, OneAnswer, Asked, Answered

\* The operation moves on without a word to the user.
LEMMA ToldMove ==
    ASSUME Told, cstate # "Done", UNCHANGED <<kind, serial, puts, results, good, ran>>,
           Busy' => results[serial] = 0,
           ~kind.autoExec /\ cstate' = "GetOPut" => serial \notin puts
    PROVE  Told'
BY DEF Told, Busy, ResultOnce, PutOnce, SuccessIsReal

\* The user is told the result.
LEMMA ToldNotify ==
    ASSUME Told, cstate # "Done", serial \in Serials, results \in [Serials -> Nat],
           NEW ok \in BOOLEAN, Notify(ok), UNCHANGED <<kind, serial, puts, ran>>,
           ok /\ serial \in puts => ran[serial] > 0,
           cstate' = "Done" \/ (cstate' = "Idle" /\ Busy /\ ~kind.autoExec)
    PROVE  Told'
<1>1. \A n \in Serials : results[n] \in Nat /\ (n # serial => results'[n] = results[n])
  BY DEF Notify
<1>2. results'[serial] = results[serial] \/ results'[serial] = results[serial] + 1
  BY DEF Notify
<1>3. \A n \in Serials : n > serial => n # serial
  BY MaxExecAssumption DEF Serials
<1>4. ResultOnce'
  BY <1>1, <1>2 DEF ResultOnce, Told, Busy
<1>5. SuccessIsReal'
  BY DEF SuccessIsReal, Told, Notify
<1>6. good' \subseteq 0..serial
  BY MaxExecAssumption DEF Told, Notify, Serials
<1>7. QED
  BY <1>1, <1>3, <1>4, <1>5, <1>6 DEF Told, PutOnce, Busy

\* A request is sent.
LEMMA Executed ==
    ASSUME NEW s \in {"GetOPut", "Exec"}, known, c2s = <<>>, s2c' = <<>>, sstate' = "Idle",
           Execute(s, serial'), FirstRun'
    PROVE  ExecSent'
<1>1. PICK get \in BOOLEAN : (get <=> s = "GetOPut") /\ c2s' = Append(c2s, [cmd |-> "EXEC", get |-> get, serial |-> serial'])
  <2>1. CASE s = "GetOPut"
    BY <2>1 DEF Execute, Post
  <2>2. CASE s # "GetOPut"
    BY <2>2 DEF Execute, Post
  <2>3. QED
    BY <2>1, <2>2
<1>2. c2s' = <<ExecMsg(get)'>>
  BY <1>1, Short DEF ExecMsg
<1>3. QED
  BY <1>1, <1>2 DEF ExecSent, Execute, Busy, ExecMsg

\* INIT is the first message on a connection.
LEMMA CreateOpStep ==
    ASSUME Inv, CreateOp, UNCHANGED <<svars, link, losses>> PROVE Inv'
<1>1. Unsent
  BY DEF Inv, Phase, SettingUp, Executing, Ending, Unsent, InitSent, InitHeld,
     InitReplied, AtRest, ExecSent, ExecHeld, ExecReplied, Thrown, EndedEarly, EndedBusy, EndedSoon,
     Ended, Busy, CreateOp
<1>2. InitSent'
  BY <1>1, Short DEF Unsent, InitSent, CreateOp, Post, InitMsg, svars, Gone
<1>3. TypeOK'
  BY ServerSame DEF Inv, TypeOK, ClientTypeOK, CreateOp, Silent, Keep
<1>4. Told'
  BY <1>1, ToldMove DEF Inv, Unsent, CreateOp, Silent, Keep, svars, Busy
<1>5. Rest'
  BY <1>1 DEF Inv, Rest, CreateOp, Unsent, Keep, svars, Gone
<1>6. QED
  BY <1>2, <1>3, <1>4, <1>5, ServerSame DEF Inv, Phase, SettingUp

\* Only an operation which has ended ignores a message.
LEMMA HandleStaleStep ==
    ASSUME Inv, HandleStale, UNCHANGED <<svars, link, losses>> PROVE Inv'
<1>1. TypeOK'
  BY ServerSame DEF Inv, TypeOK, ClientTypeOK, HandleStale, cvars
<1>2. EndedEarly \/ EndedBusy \/ EndedSoon \/ Ended
  BY DEF Inv, Phase, SettingUp, Executing, Ending, Unsent, InitSent, InitHeld,
     InitReplied, AtRest, ExecSent, ExecHeld, ExecReplied, Thrown, Busy, HandleStale, Stale
<1>3. Phase'
  BY <1>2 DEF Phase, Ending, EndedEarly, EndedBusy, EndedSoon, Ended, HandleStale, cvars, svars, Gone,
     FirstRun, ExecMsg
<1>4. Told'
  BY ToldSame DEF Inv, HandleStale, svars
<1>5. Rest'
  BY DEF Inv, Rest, HandleStale, cvars, svars, Gone
<1>6. QED
  BY <1>1, <1>3, <1>4, <1>5, ServerSame DEF Inv

\* The operation ends with DESTROY.
LEMMA Completed ==
    ASSUME Inv, cstate # "Done", known, c2s = <<>>, NEW ok \in BOOLEAN, Complete(ok), Keep,
           ok /\ serial \in puts => ran[serial] > 0, UNCHANGED <<svars, link, losses>>
    PROVE  Inv'
<1>1. EndedSoon'
  BY Short DEF EndedSoon, Complete, Post, Destroy
<1>2. TypeOK'
  <2>1. results' \in [Serials -> Nat] /\ good' \subseteq Serials
    BY DEF Inv, TypeOK, ClientTypeOK, Complete, Notify
  <2>2. ClientTypeOK'
    BY <2>1 DEF Inv, TypeOK, ClientTypeOK, Complete, Keep
  <2>3. QED
    BY <2>2, ServerSame DEF Inv, TypeOK
<1>3. Told'
  BY ToldNotify DEF Inv, TypeOK, ClientTypeOK, Complete, Keep, svars
<1>4. Rest'
  BY DEF Inv, TypeOK, ClientTypeOK, Rest, Complete, Keep, svars
<1>5. QED
  BY <1>1, <1>2, <1>3, <1>4, ServerSame DEF Inv, Phase, Ending

\* An autoExec operation makes its request.
LEMMA AutoExecuted ==
    ASSUME Inv, cstate # "Done", kind.autoExec, known, c2s = <<>>, s2c' = <<>>, sstate = "Idle",
           NEW s \in {"GetOPut", "Exec"}, Execute(s, serial), Keep, UNCHANGED <<svars, link, losses>>
    PROVE  Inv'
<1>1. ExecSent'
  BY Executed DEF FirstRun, Keep, svars
<1>2. TypeOK'
  BY ServerSame DEF Inv, TypeOK, ClientTypeOK, Execute, Silent, Keep
<1>3. Told'
  <2>1. results[serial] = 0
    BY DEF Inv, Told, TypeOK, ClientTypeOK
  <2>2. QED
    BY <2>1, ToldMove DEF Inv, Execute, Silent, Keep, svars
<1>4. Rest'
  BY DEF Inv, TypeOK, ClientTypeOK, Rest, Execute, Keep, svars
<1>5. QED
  BY <1>1, <1>2, <1>3, <1>4, ServerSame DEF Inv, Phase, Executing

\* The operation is set up: it makes its request, waits for one, or ends.
LEMMA HandleInitReplyStep ==
    ASSUME Inv, HandleInitReply, UNCHANGED <<svars, link, losses>> PROVE Inv'
<1>1. InitReplied
  BY Short DEF Inv, Phase, SettingUp, Executing, Ending, Unsent, InitSent, InitHeld,
     AtRest, ExecSent, ExecHeld, ExecReplied, Thrown, EndedEarly, EndedBusy, EndedSoon,
     Ended, HandleInitReply, ClientRecv, Stale, ReplyMsg
<1>2. PICK ok \in BOOLEAN : /\ s2c = <<[cmd |-> "INIT", ok |-> ok]>>
                            /\ sstate = IF ok THEN "Idle" ELSE "Dead"
  BY <1>1 DEF InitReplied
<1>3. Head(s2c).ok = ok /\ s2c' = <<>>
  BY <1>2, Short DEF HandleInitReply, ClientRecv
<1>4. cstate = "Creating" /\ known /\ c2s = <<>> /\ Keep /\ link = "up"
  BY <1>1 DEF InitReplied, HandleInitReply, Inv, TypeOK, ClientTypeOK
<1>5. CASE Complete(FALSE)
  BY <1>4, <1>5, Completed
<1>6. CASE ok /\ kind.autoExec /\ \E s \in {"GetOPut", "Exec"} : Execute(s, serial)
  BY <1>2, <1>3, <1>4, <1>6, AutoExecuted
<1>7. CASE ok /\ ~kind.autoExec /\ cstate' = "Idle" /\ Silent /\ UNCHANGED <<known, c2s, abandoned>>
  <2>1. AtRest'
    BY <1>2, <1>3, <1>4, <1>7 DEF AtRest, svars
  <2>2. TypeOK'
    BY <1>4, <1>7, ServerSame DEF Inv, TypeOK, ClientTypeOK, Silent, Keep
  <2>3. Told'
    BY <1>4, <1>7, ToldMove DEF Inv, Silent, Keep, svars, Busy
  <2>4. Rest'
    BY <1>4, <1>7 DEF Inv, Rest, Keep, svars
  <2>5. QED
    BY <2>1, <2>2, <2>3, <2>4, ServerSame DEF Inv, Phase, Executing
<1>8. CASE ok /\ cstate' = "Done" /\ abandoned' = TRUE /\ Notify(FALSE) /\ UNCHANGED <<known, c2s>>
  <2>1. Thrown'
    BY <1>2, <1>3, <1>4, <1>8 DEF Thrown, svars
  <2>2. TypeOK'
    <3>1. results' \in [Serials -> Nat] /\ good' \subseteq Serials
      BY <1>8 DEF Inv, TypeOK, ClientTypeOK, Notify
    <3>2. ClientTypeOK'
      BY <1>4, <1>8, <3>1 DEF Inv, TypeOK, ClientTypeOK, Keep
    <3>3. QED
      BY <3>2, ServerSame DEF Inv, TypeOK
  <2>3. Told'
    BY <1>4, <1>8, ToldNotify DEF Inv, TypeOK, ClientTypeOK, Keep, svars
  <2>4. Rest'
    BY <1>4, <1>8 DEF Inv, Rest, Keep, svars
  <2>5. QED
    BY <2>1, <2>2, <2>3, <2>4, ServerSame DEF Inv, Phase, Ending
<1>9. QED
  BY <1>3, <1>5, <1>6, <1>7, <1>8 DEF HandleInitReply, ExecAfterInit, BuildPut

\* The request has been answered: it is followed by the put, by another request, or by DESTROY.
LEMMA HandleReplyStep ==
    ASSUME Inv, HandleReply, UNCHANGED <<svars, link, losses>> PROVE Inv'
<1>1. ExecReplied
  BY Short DEF Inv, Phase, SettingUp, Executing, Ending, Unsent, InitSent, InitHeld, InitReplied,
     AtRest, ExecSent, ExecHeld, Thrown, EndedEarly, EndedBusy, EndedSoon,
     Ended, HandleReply, ClientRecv, Stale
<1>2. PICK ok, get \in BOOLEAN : (get <=> cstate = "GetOPut") /\ s2c = <<ReplyMsg(ok, get)>>
  BY <1>1 DEF ExecReplied
<1>3. Head(s2c).ok = ok /\ s2c' = <<>>
  BY <1>2, Short DEF HandleReply, ClientRecv, ReplyMsg
<1>4. cstate \in {"GetOPut", "Exec"} /\ known /\ c2s = <<>> /\ Keep /\ link = "up" /\ sstate = "Idle" /\ HasRun
  BY <1>1 DEF ExecReplied, Busy, HandleReply, Inv, TypeOK, ClientTypeOK
<1>5. ASSUME serial \in puts, cstate = "Exec" PROVE ran[serial] > 0
  BY <1>4, <1>5 DEF HasRun, Inv, Told
<1>6. CASE PutFollows(Head(s2c))
  <2>1. kind.autoExec /\ cstate = "GetOPut"
    BY <1>6 DEF PutFollows
  <2>2. CASE Execute("Exec", serial)
    BY <1>3, <1>4, <2>1, <2>2, AutoExecuted
  <2>3. CASE Complete(FALSE)
    BY <1>4, <2>3, Completed
  <2>4. QED
    BY <1>6, <2>2, <2>3 DEF HandleReply, BuildPut
<1>7. CASE ~kind.autoExec /\ (ok \/ cstate = "Exec")
  <2>1. cstate' = "Idle" /\ Notify(ok) /\ UNCHANGED <<known, c2s, abandoned>>
    BY <1>3, <1>7 DEF HandleReply, PutFollows
  <2>2. serial \in puts => ran[serial] > 0
    BY <1>4, <1>5, <1>7 DEF Inv, Told
  <2>3. AtRest'
    BY <1>3, <1>4, <2>1 DEF AtRest, svars
  <2>4. TypeOK'
    <3>1. results' \in [Serials -> Nat] /\ good' \subseteq Serials
      BY <2>1 DEF Inv, TypeOK, ClientTypeOK, Notify
    <3>2. ClientTypeOK'
      BY <1>4, <2>1, <3>1 DEF Inv, TypeOK, ClientTypeOK, Keep
    <3>3. QED
      BY <3>2, ServerSame DEF Inv, TypeOK
  <2>5. Told'
    BY <1>4, <1>7, <2>1, <2>2, ToldNotify DEF Inv, TypeOK, ClientTypeOK, Keep, svars, Busy
  <2>6. Rest'
    BY <1>4, <2>1 DEF Inv, Rest, Keep, svars
  <2>7. QED
    BY <2>3, <2>4, <2>5, <2>6, ServerSame DEF Inv, Phase, Executing
<1>8. CASE ~PutFollows(Head(s2c)) /\ ~(~kind.autoExec /\ (ok \/ cstate = "Exec"))
  <2>1. Complete(ok)
    BY <1>3, <1>8 DEF HandleReply
  <2>2. ok /\ serial \in puts => ran[serial] > 0
    BY <1>3, <1>4, <1>5, <1>8 DEF PutFollows
  <2>3. QED
    BY <1>4, <2>1, <2>2, Completed
<1>9. QED
  BY <1>6, <1>7, <1>8

\* A request of the user is a new one.
LEMMA ReExecStep ==
    ASSUME Inv, NEW put \in BOOLEAN, ReExec(put), UNCHANGED <<svars, link, losses>> PROVE Inv'
<1> DEFINE s == IF kind.op = "Put" /\ ~put THEN "GetOPut" ELSE "Exec"
<1>1. AtRest
  BY DEF Inv, Phase, SettingUp, Executing, Ending, Unsent, InitSent, InitHeld,
     InitReplied, AtRest, ExecSent, ExecHeld, ExecReplied, Thrown, EndedEarly, EndedBusy, EndedSoon,
     Ended, Busy, ReExec, MayExec
<1>2. /\ serial \in Nat /\ serial' = serial + 1 /\ serial' \in Serials /\ serial' > serial
      /\ serial' \notin 0..serial /\ 0..serial \subseteq 0..serial' /\ serial \in 0..serial'
  BY MaxExecAssumption DEF Inv, TypeOK, ClientTypeOK, Serials, ReExec
<1>3. /\ Execute(s, serial') /\ s \in {"GetOPut", "Exec"} /\ ~kind.autoExec /\ (put => kind.op = "Put")
      /\ puts' = (IF put THEN puts \cup {serial'} ELSE puts)
      /\ done' = TRUE /\ UNCHANGED <<kind, held, cancelled, s2c>>
  BY DEF ReExec
<1> HIDE DEF s
<1>4. /\ results[serial'] = 0 /\ ran[serial'] = 0 /\ serial' \notin good /\ serial' \notin puts
      /\ \A n \in Serials : n > serial' => results[n] = 0 /\ ran[n] = 0
  <2>1. \A n \in Serials : n > serial' => n > serial
    BY <1>2, MaxExecAssumption DEF Serials
  <2>2. \A n \in Serials : n > serial => results[n] = 0 /\ ran[n] = 0
    BY <1>3 DEF Inv, Told
  <2>3. serial' \notin good /\ serial' \notin puts
    BY <1>2 DEF Inv, Told
  <2>4. QED
    BY <1>2, <2>1, <2>2, <2>3
<1>5. ExecSent'
  <2>1. FirstRun'
    BY <1>4 DEF FirstRun, svars
  <2>2. QED
    BY <1>1, <1>3, <2>1, Executed DEF AtRest, svars
<1>6. TypeOK'
  <2>1. puts' \subseteq Serials
    BY <1>2, <1>3 DEF Inv, TypeOK, ClientTypeOK
  <2>2. known /\ link = "up" /\ link' = "up"
    BY <1>1 DEF AtRest, Inv, TypeOK, ClientTypeOK
  <2>3. ClientTypeOK'
    BY <1>2, <1>3, <2>1, <2>2 DEF Inv, TypeOK, ClientTypeOK, Execute, Silent
  <2>4. QED
    BY <2>3, ServerSame DEF Inv, TypeOK
<1>7. Told'
  <2>1. UNCHANGED <<results, good, ran, kind>> /\ cstate' = s /\ cstate = "Idle"
    BY <1>1, <1>3 DEF AtRest, Execute, Silent, svars
  <2>2. puts' \subseteq 0..serial' /\ good' \subseteq 0..serial'
    BY <1>2, <1>3, <2>1 DEF Inv, Told
  <2>3. kind.op = "Get" => puts' = {}
    BY <1>3 DEF Inv, Told
  <2>4. cstate' = "GetOPut" => serial' \notin puts'
    BY <1>3, <1>4, <2>1 DEF s
  <2>5. ResultOnce'
    BY <1>3, <2>1 DEF Inv, Told, ResultOnce
  <2>6. PutOnce'
    BY <2>1 DEF Inv, Told, PutOnce
  <2>7. SuccessIsReal'
    BY <1>3, <1>4, <2>1 DEF Inv, Told, SuccessIsReal
  <2>8. QED
    BY <1>3, <1>4, <2>1, <2>2, <2>3, <2>4, <2>5, <2>6, <2>7 DEF Told
<1>8. Rest'
  BY <1>1, <1>3 DEF Inv, TypeOK, ClientTypeOK, Rest, AtRest, svars
<1>9. QED
  BY <1>5, <1>6, <1>7, <1>8, ServerSame DEF Inv, Phase, Executing

\* cancel() and the release of the handle
LEMMA CancelStep ==
    ASSUME Inv, Cancel \/ Release, UNCHANGED <<svars, link, losses>> PROVE Inv'
<1>1. /\ CancelEffect /\ held' \in BOOLEAN /\ done' \in BOOLEAN
      /\ cstate' = "Done" /\ known' = (known /\ cstate = "Done") /\ abandoned' = (abandoned \/ cstate = "Creating")
      /\ c2s' = (IF cstate \in Established THEN Append(c2s, Destroy) ELSE c2s)
      /\ cancelled' = TRUE /\ UNCHANGED <<results, good, kind, serial, puts, s2c>>
  BY DEF Cancel, Release, CancelEffect, AfterCancel, Silent, Post, Inv, TypeOK, ClientTypeOK
<1>2. TypeOK'
  <2>1. known \in BOOLEAN /\ abandoned \in BOOLEAN
    BY DEF Inv, TypeOK, ClientTypeOK
  <2>2. known' \in BOOLEAN /\ abandoned' \in BOOLEAN /\ (known' => known)
    BY <1>1, <2>1
  <2>3. ClientTypeOK'
    BY <1>1, <2>2 DEF Inv, TypeOK, ClientTypeOK
  <2>4. QED
    BY <2>3, ServerSame DEF Inv, TypeOK
<1>3. Told'
  BY <1>1 DEF Inv, Told, Busy, ResultOnce, PutOnce, SuccessIsReal, svars
<1>4. Rest'
  <2>1. link = "down" => cstate \notin Established
    BY DEF Inv, Phase, SettingUp, Executing, Ending, Unsent, InitSent, InitHeld,
       InitReplied, AtRest, ExecSent, ExecHeld, ExecReplied, Thrown, EndedEarly, EndedBusy, EndedSoon,
       Ended, Established, TypeOK, ClientTypeOK
  <2>2. QED
    BY <1>1, <2>1 DEF Inv, Rest, svars, Gone
<1>5. CASE SettingUp
  <2>1. c2s' = c2s /\ ~known'
    BY <1>1, <1>5 DEF SettingUp, Unsent, InitSent, InitHeld, InitReplied, Established
  <2>2. EndedEarly' \/ Ended'
    BY <1>1, <1>5, <2>1 DEF SettingUp, Unsent, InitSent, InitHeld, InitReplied, EndedEarly, Ended, InitMsg,
       svars, Gone
  <2>3. QED
    BY <1>2, <1>3, <1>4, <2>2, ServerSame DEF Inv, Phase, Ending
<1>6. CASE Executing
  <2>1. ~known' /\ c2s' = Append(c2s, Destroy)
    BY <1>1, <1>6 DEF Executing, AtRest, ExecSent, ExecHeld, ExecReplied, Busy, Established
  <2>2. CASE ExecSent
    <3>1. PICK get \in BOOLEAN : c2s = <<ExecMsg(get)>>
      BY <2>2 DEF ExecSent
    <3>2. c2s' = <<ExecMsg(get), Destroy>>
      BY <2>1, <3>1, Short
    <3>3. EndedBusy'
      BY <1>1, <2>1, <2>2, <3>2 DEF ExecSent, EndedBusy, ExecMsg, Destroy, FirstRun, svars
    <3>4. QED
      BY <1>2, <1>3, <1>4, <3>3, ServerSame DEF Inv, Phase, Ending
  <2>3. CASE c2s = <<>>
    <3>1. EndedSoon'
      BY <1>1, <2>1, <2>3, Short DEF EndedSoon, Destroy
    <3>2. QED
      BY <1>2, <1>3, <1>4, <3>1, ServerSame DEF Inv, Phase, Ending
  <2>4. QED
    BY <1>6, <2>2, <2>3 DEF Executing, AtRest, ExecHeld, ExecReplied
<1>7. CASE Ending
  <2>1. c2s' = c2s /\ known' = known /\ abandoned' = abandoned
    BY <1>1, <1>7 DEF Ending, Thrown, EndedEarly, EndedBusy, EndedSoon, Ended, Established, Inv, TypeOK,
       ClientTypeOK
  <2>2. Ending'
    BY <1>1, <1>7, <2>1 DEF Ending, Thrown, EndedEarly, EndedBusy, EndedSoon, Ended, InitMsg, ExecMsg, Destroy,
       FirstRun, svars, Gone
  <2>3. QED
    BY <1>2, <1>3, <1>4, <2>2, ServerSame DEF Inv, Phase
<1>8. QED
  BY <1>5, <1>6, <1>7 DEF Inv, Phase

\* The connection is lost: the operation starts again, ends, or had ended.
LEMMA LoseLinkStep ==
    ASSUME Inv, LoseLink PROVE Inv'
<1>1. /\ link' = "down" /\ c2s' = <<>> /\ s2c' = <<>> /\ losses' \in 0..MaxLoss
      /\ sstate' = (IF Gone THEN sstate ELSE "Dead") /\ Gone'
      /\ UNCHANGED <<epoch, sget, setups, jobs, execs, ran>>
      /\ known' = FALSE /\ Keep /\ UNCHANGED abandoned
  BY MaxLossAssumption DEF Inv, TypeOK, LoseLink, ServerDisconnect, ClientDisconnect, KnownAfterLoss, Gone
<1>2. ServerTypeOK' /\ JobsType' /\ OneAnswer'
  BY <1>1 DEF Inv, TypeOK, ServerTypeOK, JobsType, OneAnswer, Asked, Answered, Gone
<1>3. CASE ~known \/ Over
  <2>1. UNCHANGED <<cstate, results, good>>
    BY <1>3 DEF LoseLink, ClientDisconnect, Silent
  <2>2. cstate \in {"Connecting", "Done"}
    BY <1>3 DEF Inv, Phase, SettingUp, Executing, Ending, Unsent, InitSent, InitHeld,
       InitReplied, AtRest, ExecSent, ExecHeld, ExecReplied, Thrown, EndedEarly, EndedBusy, EndedSoon,
       Ended, Over
  <2>3. Unsent' \/ Ended'
    BY <1>1, <2>1, <2>2 DEF Unsent, Ended
  <2>4. TypeOK'
    BY <1>1, <1>2, <2>1 DEF Inv, TypeOK, ClientTypeOK, Keep
  <2>5. Told'
    BY <1>1, <2>1 DEF Inv, Told, Busy, ResultOnce, PutOnce, SuccessIsReal, Keep
  <2>6. Rest'
    BY <1>1, <2>1 DEF Inv, Rest, Keep, Gone
  <2>7. QED
    BY <1>2, <2>3, <2>4, <2>5, <2>6 DEF Inv, Phase, SettingUp, Ending
<1>4. CASE known /\ ~Over /\ MayRestart
  <2>1. cstate # "Done" /\ cstate' = "Connecting" /\ UNCHANGED <<results, good>>
    BY <1>4 DEF LoseLink, ClientDisconnect, Silent, Over
  <2>2. Unsent'
    BY <1>1, <2>1 DEF Unsent
  <2>3. TypeOK'
    BY <1>1, <1>2, <2>1 DEF Inv, TypeOK, ClientTypeOK, Keep
  <2>4. Told'
    BY <1>1, <2>1, ToldMove DEF Inv, Keep, Busy
  <2>5. Rest'
    BY <1>1, <2>1 DEF Inv, Rest, Keep, Gone
  <2>6. QED
    BY <1>2, <2>2, <2>3, <2>4, <2>5 DEF Inv, Phase, SettingUp
<1>5. CASE known /\ ~Over /\ ~MayRestart
  <2>1. cstate # "Done" /\ cstate' = "Done" /\ Notify(FALSE)
    BY <1>5 DEF LoseLink, ClientDisconnect, Over
  <2>2. Ended'
    BY <1>1, <2>1 DEF Ended
  <2>3. TypeOK'
    <3>1. results' \in [Serials -> Nat] /\ good' \subseteq Serials
      BY <2>1 DEF Inv, TypeOK, ClientTypeOK, Notify
    <3>2. QED
      BY <1>1, <1>2, <2>1, <3>1 DEF Inv, TypeOK, ClientTypeOK, Keep
  <2>4. Told'
    BY <1>1, <2>1, ToldNotify DEF Inv, TypeOK, ClientTypeOK, Keep
  <2>5. Rest'
    BY <1>1, <2>1 DEF Inv, Rest, Keep, Gone
  <2>6. QED
    BY <1>2, <2>2, <2>3, <2>4, <2>5 DEF Inv, Phase, Ending
<1>6. QED
  BY <1>3, <1>4, <1>5

\* The connection is up again.
LEMMA ReconnectStep ==
    ASSUME Inv, Reconnect PROVE Inv'
<1>1. UNCHANGED <<svars, cvars, c2s, s2c, losses>> /\ link' = "up"
  BY DEF Reconnect
<1>2. TypeOK' /\ Told' /\ Rest'
  <2>1. TypeOK'
    BY <1>1, ServerSame DEF Inv, TypeOK, ClientTypeOK, cvars
  <2>2. Told'
    BY <1>1, ToldSame DEF Inv, svars
  <2>3. QED
    BY <1>1, <2>1, <2>2 DEF Inv, Rest, cvars, svars
<1>3. Phase'
  BY <1>1, SamePhase DEF Inv
<1>4. QED
  BY <1>1, <1>2, <1>3, ServerSame DEF Inv

\* The invariant holds at first.
LEMMA InitInv == Init => Inv
<1> SUFFICES ASSUME Init PROVE Inv
  OBVIOUS
<1> USE DEF Init, InitServer, InitClient
<1>1. TypeOK
  <2>1. 0 \in Serials /\ losses \in 0..MaxLoss
    BY MaxExecAssumption, MaxLossAssumption DEF Serials
  <2>2. ServerTypeOK
    BY DEF ServerTypeOK
  <2>3. ClientTypeOK
    BY <2>1 DEF ClientTypeOK
  <2>4. QED
    BY <2>1, <2>2, <2>3 DEF TypeOK
<1>2. JobsType
  BY DEF JobsType
<1>3. OneAnswer
  BY DEF OneAnswer, Asked, Answered
<1>4. Unsent
  BY DEF Unsent, Gone
<1>5. Told
  <2>1. kind.op = "Get" => puts = {}
    OBVIOUS
  <2>2. ~kind.autoExec => puts = {}
    OBVIOUS
  <2>3. puts \subseteq 0..serial
    OBVIOUS
  <2>4. QED
    BY <2>1, <2>2, <2>3 DEF Told, Busy, ResultOnce, PutOnce, SuccessIsReal
<1>6. Rest
  BY DEF Rest, Gone
<1>7. QED
  BY <1>1, <1>2, <1>3, <1>4, <1>5, <1>6 DEF Inv, Phase, SettingUp

\* Every step preserves the invariant.
LEMMA NextInv == Inv /\ [Next]_vars => Inv'
<1> SUFFICES ASSUME Inv, [Next]_vars PROVE Inv'
  OBVIOUS
<1>1. CASE Server
  <2> USE <1>1 DEF Server
  <2>1. CASE HandleInit
    BY <2>1, HandleInitStep
  <2>2. CASE HandleExec
    BY <2>2, HandleExecStep
  <2>3. CASE HandleDestroy
    BY <2>3, HandleDestroyStep
  <2>4. CASE JobConnect
    BY <2>4, JobConnectStep
  <2>5. CASE JobReply
    BY <2>5, JobReplyStep
  <2>6. CASE ServerUser
    BY <2>6, ConnectStep, ReplyStep DEF ServerUser
  <2>7. QED
    BY <2>1, <2>2, <2>3, <2>4, <2>5, <2>6 DEF ServerNext, ServerHandle, ServerJob
<1>2. CASE Client
  <2> USE <1>2 DEF Client
  <2>1. CASE CreateOp
    BY <2>1, CreateOpStep
  <2>2. CASE HandleStale
    BY <2>2, HandleStaleStep
  <2>3. CASE HandleInitReply
    BY <2>3, HandleInitReplyStep
  <2>4. CASE HandleReply
    BY <2>4, HandleReplyStep
  <2>5. CASE Cancel \/ Release
    BY <2>5, CancelStep
  <2>6. CASE \E put \in BOOLEAN : ReExec(put)
    BY <2>6, ReExecStep
  <2>7. QED
    BY <2>1, <2>2, <2>3, <2>4, <2>5, <2>6 DEF ClientNext, ClientWorker, ClientUser
<1>3. CASE LoseLink
  BY <1>3, LoseLinkStep
<1>4. CASE Reconnect
  BY <1>4, ReconnectStep
<1>5. CASE UNCHANGED vars
  <2>1. UNCHANGED <<svars, cvars, link, c2s, s2c, losses>>
    BY <1>5 DEF vars
  <2>2. TypeOK' /\ Told' /\ Rest'
    <3>1. TypeOK'
      BY <2>1, ServerSame DEF Inv, TypeOK, ClientTypeOK, cvars
    <3>2. Told'
      BY <2>1, ToldSame DEF Inv, svars
    <3>3. QED
      BY <2>1, <3>1, <3>2 DEF Inv, Rest, cvars, svars, Gone
  <2>3. Phase'
    BY <2>1, SamePhase DEF Inv
  <2>4. QED
    BY <2>1, <2>2, <2>3, ServerSame DEF Inv
<1>6. QED
  BY <1>1, <1>2, <1>3, <1>4, <1>5 DEF Next

\* Each message finds the state it was sent for.
LEMMA Expected == Inv => RepliesExpected
<1> SUFFICES ASSUME Inv PROVE RepliesExpected
  OBVIOUS
<1>1. ASSUME c2s # <<>> PROVE ~Refused(Head(c2s))
  BY <1>1, Short DEF Inv, Phase, SettingUp, Executing, Ending, Unsent, InitSent, InitHeld,
     InitReplied, AtRest, ExecSent, ExecHeld, ExecReplied, Thrown, EndedEarly, EndedBusy, EndedSoon,
     Ended, Refused, InitMsg, ExecMsg, Destroy, Gone
<1>2. ASSUME s2c # <<>>, ~Stale
      PROVE  ~Unexpected(Head(s2c)) /\ (Head(s2c).cmd = "REPLY" => Head(s2c).serial = serial)
  <2>1. InitReplied \/ ExecReplied
    BY <1>2 DEF Inv, Phase, SettingUp, Executing, Ending, Unsent, InitSent, InitHeld,
       AtRest, ExecSent, ExecHeld, Thrown, EndedEarly, EndedBusy, EndedSoon, Ended, Stale
  <2>2. QED
    BY <2>1, Short DEF InitReplied, ExecReplied, Busy, ReplyMsg, Unexpected
<1>3. ASSUME s2c # <<>>, Stale PROVE ~Unexpected(Head(s2c))
  BY <1>3 DEF Unexpected
<1>4. QED
  BY <1>1, <1>2, <1>3 DEF RepliesExpected

\* DESTROY is sent by whatever ends the operation after INIT was answered.
LEMMA DestroySent == Inv => ReleasedUnlessAbandoned
<1> SUFFICES ASSUME Inv, ~abandoned, cstate = "Done", ~Gone
             PROVE  \E i \in DOMAIN c2s : c2s[i].cmd = "DESTROY"
  BY DEF ReleasedUnlessAbandoned, Released
<1>1. EndedBusy \/ EndedSoon
  BY DEF Inv, Phase, SettingUp, Executing, Ending, Unsent, InitSent, InitHeld,
     InitReplied, AtRest, ExecSent, ExecHeld, ExecReplied, Thrown, EndedEarly, Ended, Busy
<1>2. CASE EndedBusy
  <2>1. PICK get \in BOOLEAN : c2s = <<ExecMsg(get), Destroy>>
    BY <1>2 DEF EndedBusy
  <2>2. 2 \in DOMAIN c2s /\ c2s[2] = Destroy
    BY <2>1
  <2>3. QED
    BY <2>2 DEF Destroy
<1>3. CASE EndedSoon
  <2>1. 1 \in DOMAIN c2s /\ c2s[1] = Destroy
    BY <1>3 DEF EndedSoon
  <2>2. QED
    BY <2>1 DEF Destroy
<1>4. QED
  BY <1>1, <1>2, <1>3

\* An operation which has ended says nothing more.
LEMMA NothingMore == Inv /\ [Next]_vars => (cancelled => results' = results)
<1> SUFFICES ASSUME Inv, [Next]_vars, cancelled PROVE results' = results
  OBVIOUS
<1>1. cstate = "Done"
  BY DEF Inv, Rest
<1>2. Thrown \/ ~known
  BY <1>1 DEF Inv, Phase, SettingUp, Executing, Ending, Unsent, InitSent, InitHeld, InitReplied,
     AtRest, ExecSent, ExecHeld, ExecReplied, EndedEarly, EndedBusy, EndedSoon, Ended, Busy
<1>3. ~HandleInitReply /\ ~HandleReply
  BY <1>2 DEF Thrown, HandleInitReply, HandleReply, ClientRecv, Stale
<1>4. CASE Client
  BY <1>1, <1>3, <1>4 DEF Client, ClientNext, ClientWorker, ClientUser, CreateOp, HandleStale, cvars,
     Cancel, Release, CancelEffect, Silent, ReExec, MayExec
<1>5. CASE Server \/ Reconnect \/ UNCHANGED vars
  BY <1>5 DEF Server, Reconnect, vars, cvars
<1>6. CASE LoseLink
  BY <1>1, <1>6 DEF LoseLink, ClientDisconnect, Over, Silent
<1>7. QED
  BY <1>4, <1>5, <1>6 DEF Next
-----------------------------------------------------------------------------
\* The server refuses no request and the client takes no reply for faulty, or for
\* that to another request, however cancel(), reconnect and late answers of the data
\* source cross (handle_GPR() of serverget.cpp and of clientget.cpp).
THEOREM RepliesAlwaysExpected == Spec => []RepliesExpected
<1>1. QED
  BY InitInv, NextInv, Expected, PTL DEF Spec

\* The types, and that the user is told one result, which is what the server has
\* done, and a value given to reExecPut() is put once (GPROp::notify(),
\* GPROp::disconnected()).
THEOREM ResultsAlwaysRight == Spec => []ResultRight
<1>1. Inv => ResultRight
  BY DEF Inv, Told, ResultRight
<1>2. QED
  BY <1>1, InitInv, NextInv, PTL DEF Spec

\* An operation which the client has ended is ended on the server, unless it ended
\* while INIT was under way or in onInit() (GPROp::_cancel()).
THEOREM AlwaysReleased == Spec => []ReleasedUnlessAbandoned
<1>1. QED
  BY InitInv, NextInv, DestroySent, PTL DEF Spec

\* No result callback is called after cancel(), or after the handle is released.
THEOREM CancelIsQuiet == Spec => QuietAfterCancel
<1>1. Inv /\ [Next]_vars => [cancelled => results' = results]_vars
  BY NothingMore
<1>2. QED
  BY <1>1, InitInv, NextInv, PTL DEF Spec, QuietAfterCancel
=============================================================================
