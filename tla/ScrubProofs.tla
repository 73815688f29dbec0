---------------------------- MODULE ScrubProofs -----------------------------
(***************************************************************************)
(* Proofs about Scrub: the name of the progress socket is not left behind, *)
(* whatever number of commands run into each other; and with one command   *)
(* at a time, whatever happens to it, the status file tells the truth.     *)
(***************************************************************************)
EXTENDS Scrub, TLAPS

----------------------------------------------------------------------------
(* The socket *)

(* The name of the socket is there for a command that has it open and has  *)
(* not yet come to its end.                                                *)
SocketInv ==
  /\ DOMAIN pc = Proc /\ reboots \in Nat
  /\ has \in [Proc -> Has]
  /\ reboots = 0 /\ socket # None =>
       /\ socket \in Proc /\ has[socket].fd
       /\ pc[socket] \in {"record", "launch", "run", "last", "crashed"}

(* Every step of every command keeps it: Bind sets both, and who has it    *)
(* open removes it in LastRecord.                                          *)
LEMMA SocketStep == SocketInv /\ [Next]_vars => SocketInv'
<1> SUFFICES ASSUME SocketInv, [Next]_vars PROVE SocketInv'
  BY Zenon
<1> USE ScrubAssumption DEF SocketInv, Has
<1>1. ASSUME NEW p \in Proc, Begin(p) PROVE SocketInv'
  BY <1>1, Zenon DEF Begin, Goto, kernelVars, progVars
<1>2. ASSUME NEW p \in Proc, ParentLeaves(p) PROVE SocketInv'
  BY <1>2, Zenon DEF ParentLeaves, socketFrame, bounds
<1>3. ASSUME NEW p \in Proc, Check(p) PROVE SocketInv'
  BY <1>3, Zenon DEF Check, Goto, Exit, bounds
<1>4. ASSUME NEW p \in Proc, Bind(p) PROVE SocketInv'
  <2>1. CASE socket = None
    <3>1. /\ socket' = p /\ has' = [has EXCEPT ![p].fd = TRUE] /\ Goto(p, "record")
          /\ reboots' = reboots
      BY <1>4, <2>1, Zenon DEF Bind, socketFrame, bounds
    <3>2. has'[p].fd /\ has' \in
            [Proc -> Has]
      BY <3>1
    <3>3. pc'[p] = "record" /\ DOMAIN pc' = Proc
      BY <3>1, Zenon DEF Goto
    <3> QED
      BY <3>1, <3>2, <3>3, Zenon
  <2>2. CASE socket # None
    BY <1>4, <2>2, Zenon DEF Bind, Goto, Exit, socketFrame, bounds
  <2> QED
    BY <2>1, <2>2, Zenon
<1>5. ASSUME NEW p \in Proc, Unlink(p) PROVE SocketInv'
  BY <1>5, Zenon DEF Unlink, Goto, socketFrame, bounds
<1>6. ASSUME NEW p \in Proc, FirstRecord(p) PROVE SocketInv'
  BY <1>6 DEF FirstRecord, Goto
<1>7. ASSUME NEW p \in Proc, Launch(p) PROVE SocketInv'
  BY <1>7, Zenon DEF Launch, Goto, bounds
<1>8. ASSUME NEW p \in Proc, JoinThreads(p) PROVE SocketInv'
  BY <1>8, Zenon DEF JoinThreads, Goto, bounds
<1>9. ASSUME NEW p \in Proc, LastRecord(p) PROVE SocketInv'
  BY <1>9, Zenon DEF LastRecord, Goto, Exit
<1>10. ASSUME NEW p \in Proc, NEW d \in Dev, CallIoctl(p, d) \/ FinishThread(p, d)
       PROVE  SocketInv'
  BY <1>10, Zenon DEF CallIoctl, FinishThread, threadFrame, bounds
<1>11. ASSUME NEW p \in Proc, Again(p) PROVE SocketInv'
  BY <1>11, Zenon DEF Again, Reset, Idle
<1>12. ASSUME NEW p \in Proc, InitCycle(p) \/ Poll(p) \/ WriteProgress(p) PROVE SocketInv'
  BY <1>12, Zenon DEF InitCycle, Poll, WriteProgress, progFrame, bounds
<1>13. ASSUME NEW d \in Dev, KernelScrub(d) \/ KernelDone(d) PROVE SocketInv'
  BY <1>13, Zenon DEF KernelScrub, KernelDone, threadFrame, bounds
<1>14. CASE Cancel
  BY <1>14, Zenon DEF Cancel, threadFrame
<1>15. CASE Reboot
  BY <1>15 DEF Reboot, Reset, Idle
<1>16. CASE UNCHANGED vars
  BY <1>16, Zenon DEF vars, bounds
<1> QED
  BY <1>1, <1>2, <1>3, <1>4, <1>5, <1>6, <1>7, <1>8, <1>9, <1>10, <1>11, <1>12, <1>13,
     <1>14, <1>15, <1>16, Zenon DEF Next, Work

(* No command that has ended leaves the name of the socket behind, for any *)
(* number of commands and devices: cmds-scrub.c removes it in the common   *)
(* cleanup of scrub_start, for everyone who has prg_fd open.               *)
THEOREM SocketNeverLeftBehind == Spec => []SocketNotLeftBehind
<1>1. Init => SocketInv
  BY DEF Init, Idle, SocketInv, Has
<1>2. SocketInv => SocketNotLeftBehind
  BY Zenon DEF SocketInv, SocketNotLeftBehind
<1> QED
  BY <1>1, <1>2, SocketStep, PTL DEF Spec

----------------------------------------------------------------------------
(* One command at a time *)

OneCommand == \A p, q \in Proc : p = q

(* What is written about a device is a record.                             *)
LEMMA StatsType ==
  ASSUME NEW x \in Progress PROVE ResumedStats(x) \in Record
<1>1. CASE x.resumed = <<>> \/ x.skip
  BY <1>1, Zenon DEF ResumedStats, Progress
<1>2. CASE ~(x.resumed = <<>> \/ x.skip)
  <2>1. x.resumed \in Seq(Record) /\ x.resumed # <<>> /\ x.p \in Record
    BY <1>2, Zenon DEF Progress
  <2>2. x.resumed[1] \in Record
    BY <2>1
  <2>3. x.resumed[1].last + x.p.last \in Nat
    BY <2>1, <2>2 DEF Record
  <2> QED
    BY <1>2, <2>1, <2>3, Zenon DEF ResumedStats, Record
<1> QED
  BY <1>1, <1>2, Zenon

LEMMA FileType ==
  ASSUME NEW x, Table(x, Progress) PROVE Table(FileOf(x), Record) /\ DOMAIN FileOf(x) = DOMAIN x
<1>1. \A d \in DOMAIN x : x[d] \in Progress
  BY Zenon DEF Table
<1>2. \A d \in DOMAIN x : ResumedStats(x[d]) \in Record
  BY <1>1, StatsType, Zenon
<1> QED
  BY <1>2, Zenon DEF Table, FileOf

LEMMA ZeroType == Zero \in Record
  BY Zenon DEF Zero, Record

LEMMA NoDevsType ==
  ASSUME NEW V PROVE Table(NoDevs, V)
  BY Zenon DEF Table, NoDevs

(* The flags of a command after one, two or three of them are set          *)
LEMMA HasType ==
  ASSUME NEW h \in [Proc -> Has], NEW p \in Proc, NEW a \in BOOLEAN, NEW b \in BOOLEAN
  PROVE  /\ [h EXCEPT ![p].fd = a] \in [Proc -> Has]
         /\ [h EXCEPT ![p].listen = a] \in [Proc -> Has]
         /\ [h EXCEPT ![p].parent = a] \in [Proc -> Has]
         /\ [h EXCEPT ![p].listen = a, ![p].parent = b] \in [Proc -> Has]
         /\ [h EXCEPT ![p].listen = a, ![p].parent = b, ![p].record = FALSE] \in [Proc -> Has]
<1>1. [h EXCEPT ![p].fd = a] \in [Proc -> Has]
  BY Zenon DEF Has
<1>2. [h EXCEPT ![p].listen = a] \in [Proc -> Has]
  BY Zenon DEF Has
<1>3. [h EXCEPT ![p].parent = a] \in [Proc -> Has]
  BY Zenon DEF Has
<1>4. [h EXCEPT ![p].listen = a, ![p].parent = b] \in [Proc -> Has]
  BY Zenon DEF Has
<1>5. [h EXCEPT ![p].listen = a, ![p].parent = b, ![p].record = FALSE] \in [Proc -> Has]
  BY ZenonT(60) DEF Has
<1> QED
  BY <1>1, <1>2, <1>3, <1>4, <1>5, Zenon

(* The plan for a device, from a status file with records                  *)
LEMMA PlanType ==
  ASSUME Table(file, Record), NEW d \in Dev, NEW res \in BOOLEAN
  PROVE  Plan(d, res) \in Progress
<1>1. PastScrub(d) \in Seq(Record)
  BY DEF PastScrub, Table
<1>2. ASSUME PastScrub(d) # <<>> PROVE PastScrub(d)[1] \in Record
  BY <1>1, <1>2
<1>3. ASSUME PastScrub(d) # <<>> PROVE PastScrub(d)[1].last \in Nat
  BY <1>2, <1>3, Zenon DEF Record
<1> QED
  BY <1>1, <1>3, ZeroType DEF Plan, Progress

(* The types a step of a command before or after the threads keeps         *)
LEMMA CommandType ==
  ASSUME ScrubTypeOK, NEW p \in Proc,
         Begin(p) \/ ParentLeaves(p) \/ Check(p) \/ Bind(p) \/ Unlink(p) \/ FirstRecord(p)
           \/ Launch(p) \/ JoinThreads(p) \/ LastRecord(p)
  PROVE  ScrubTypeOK'
<1> USE DEF ScrubTypeOK
<1>1. CASE Begin(p)
  <2>1. PICK res \in BOOLEAN, force \in BOOLEAN, D \in Devices :
          /\ opt' = [opt EXCEPT ![p] = [resume |-> res, busy |-> ~force /\ RunningOnFs(D)]]
          /\ sp' = [sp EXCEPT ![p] = [d \in D |-> Plan(d, res)]]
    BY <1>1, Zenon DEF Begin
  <2>2. D \subseteq Dev
    BY ScrubAssumption, Zenon
  <2>3. \A d \in D : Plan(d, res) \in Progress
    BY <2>2, PlanType, Zenon
  <2>4. Table([d \in D |-> Plan(d, res)], Progress)
    BY <2>2, <2>3, Zenon DEF Table
  <2>5. DOMAIN sp' = Proc /\ \A q \in Proc : Table(sp'[q], Progress)
    BY <2>1, <2>4, Zenon
  <2>6. opt' \in [Proc -> [resume : BOOLEAN, busy : BOOLEAN]]
    BY <2>1, Zenon
  <2>7. UNCHANGED <<file, kernel, pos, covered, resumes, has, thread, prog, this, last>>
    BY <1>1, Zenon DEF Begin, kernelVars, progVars
  <2>8. pc' = [pc EXCEPT ![p] = "check"]
    BY <1>1, Zenon DEF Begin, Goto
  <2> QED
    BY <2>5, <2>6, <2>7, <2>8, Zenon DEF Table
<1>2. CASE ParentLeaves(p)
  <2>1. has' \in [Proc -> Has]
    BY <1>2, HasType, Zenon DEF ParentLeaves
  <2> QED
    BY <1>2, <2>1, Zenon DEF ParentLeaves, socketFrame, kernelVars, progVars, Table
<1>3. CASE Check(p)
  BY <1>3, Zenon DEF Check, Goto, Exit, kernelVars, progVars, Table
<1>4. CASE Bind(p)
  <2>1. has' = [has EXCEPT ![p].fd = TRUE] \/ has' = has
    BY <1>4, Zenon DEF Bind
  <2>2. has' \in [Proc -> Has]
    <3>1. has \in [Proc -> Has] /\ TRUE \in BOOLEAN
      BY Zenon
    <3>2. [has EXCEPT ![p].fd = TRUE] \in [Proc -> Has]
      BY <3>1, HasType, Zenon
    <3> QED
      BY <2>1, <3>1, <3>2, Zenon
  <2>3. \E l \in {"record", "exit", "unlink"} : pc' = [pc EXCEPT ![p] = l]
    BY <1>4, Zenon DEF Bind, Goto, Exit
  <2> QED
    BY <1>4, <2>2, <2>3 DEF Bind, socketFrame, kernelVars, progVars, Table
<1>5. CASE Unlink(p)
  BY <1>5, Zenon DEF Unlink, Goto, socketFrame, kernelVars, progVars, Table
<1>6. CASE FirstRecord(p)
  <2>1. file' = file \/ file' = FileOf(sp[p])
    BY <1>6, Zenon DEF FirstRecord
  <2>2. Table(file', Record)
    BY <2>1, FileType
  <2>3. \/ has' = [has EXCEPT ![p].listen = has[p].fd, ![p].parent = Background]
        \/ has' = [has EXCEPT ![p].listen = has[p].fd, ![p].parent = Background,
                              ![p].record = FALSE]
    BY <1>6, Zenon DEF FirstRecord
  <2>4. has' \in [Proc -> Has]
    <3>1. has[p].fd \in BOOLEAN
      BY Zenon DEF Has
    <3> QED
      <4>1. has \in [Proc -> Has] /\ Background \in BOOLEAN
        BY ScrubAssumption, Zenon
      <4>2. /\ [has EXCEPT ![p].listen = has[p].fd, ![p].parent = Background] \in [Proc -> Has]
            /\ [has EXCEPT ![p].listen = has[p].fd, ![p].parent = Background,
                           ![p].record = FALSE] \in [Proc -> Has]
        BY <3>1, <4>1, HasType
      <4> QED
        BY <2>3, <4>2, Zenon
  <2>5. pc' = [pc EXCEPT ![p] = "launch"]
    BY <1>6, Zenon DEF FirstRecord, Goto
  <2>6. UNCHANGED <<kernel, pos, covered, resumes, opt, sp, thread, prog, this, last>>
    BY <1>6, Zenon DEF FirstRecord, kernelVars
  <2> QED
    BY <2>2, <2>4, <2>5, <2>6, Zenon DEF Table
<1>7. CASE Launch(p)
  <2> DEFINE new == [d \in DOMAIN sp[p] |-> Inherit(sp[p][d])]
  <2>1. ASSUME \A d \in DOMAIN sp[p] : sp[p][d].skip => sp[p][d].resumed # <<>>
        PROVE  Table(new, Progress)
    <3>1. ASSUME NEW d \in DOMAIN sp[p] PROVE Inherit(sp[p][d]) \in Progress
      <4>1. CASE ~sp[p][d].skip
        BY <4>1 DEF Inherit, Table
      <4>2. CASE sp[p][d].skip
        <5>1. sp[p][d] \in Progress
          BY DEF Table
        <5>2. sp[p][d].resumed \in Seq(Record) /\ sp[p][d].resumed # <<>>
          BY <2>1, <4>2, <5>1, Zenon DEF Progress
        <5>3. sp[p][d].resumed[1] \in Record
          BY <5>2
        <5>4. [sp[p][d].resumed[1] EXCEPT !.finished = TRUE] \in Record
          BY <5>3, Zenon DEF Record
        <5> QED
          BY <4>2, <5>1, <5>4, Zenon DEF Inherit, Progress
      <4> QED
        BY <4>1, <4>2, Zenon
    <3> QED
      BY <3>1, Zenon DEF Table
  <2>2. UNCHANGED <<file, kernel, pos, covered, resumes, opt, has, this, last>>
    BY <1>7, Zenon DEF Launch, kernelVars
  <2>3. CASE UNCHANGED <<sp, thread, prog>> /\ Goto(p, "crashed")
    BY <2>2, <2>3, Zenon DEF Goto, Table
  <2>4. CASE /\ \A d \in DOMAIN sp[p] : sp[p][d].skip => sp[p][d].resumed # <<>>
             /\ sp' = [sp EXCEPT ![p] = new]
             /\ thread' = [thread EXCEPT ![p] =
                  [d \in Dev |-> IF d \in DOMAIN sp[p] /\ ~sp[p][d].skip THEN "start" ELSE "none"]]
             /\ prog' = [prog EXCEPT ![p] = "init"]
             /\ Goto(p, "run")
    <3>1. DOMAIN sp' = Proc /\ \A q \in Proc : Table(sp'[q], Progress)
      BY <2>1, <2>4, Zenon
    <3>2. thread' \in [Proc -> [Dev -> {"none", "start", "ioctl", "return", "done"}]]
      BY <2>4, Zenon
    <3> QED
      BY <2>2, <2>4, <3>1, <3>2, Zenon DEF Goto, Table
  <2> QED
    BY <1>7, <2>3, <2>4, Zenon DEF Launch
<1>8. CASE JoinThreads(p)
  BY <1>8, Zenon DEF JoinThreads, Goto, kernelVars, Table
<1>9. CASE LastRecord(p)
  <2>1. file' = file \/ file' = FileOf(sp[p])
    BY <1>9, Zenon DEF LastRecord
  <2>2. Table(file', Record)
    BY <2>1, FileType
  <2>3. has' = [has EXCEPT ![p].listen = FALSE]
    BY <1>9, Zenon DEF LastRecord
  <2>4. has' \in [Proc -> Has]
    BY <2>3, HasType, Zenon
  <2>5. pc' = [pc EXCEPT ![p] = "exit"]
    BY <1>9, Zenon DEF LastRecord, Goto, Exit
  <2>6. UNCHANGED <<kernel, pos, covered, resumes, opt, sp, thread, prog, this, last>>
    BY <1>9, Zenon DEF LastRecord, kernelVars
  <2> QED
    BY <2>2, <2>4, <2>5, <2>6, Zenon DEF Table
<1> QED
  BY <1>1, <1>2, <1>3, <1>4, <1>5, <1>6, <1>7, <1>8, <1>9, Zenon

----------------------------------------------------------------------------
(* What the threads do to the progress of a device *)

Results == {"ok", "nodev", "inprogress", "canceled"}

(* The task stays what it is.                                              *)
SameTask(x, y) == y.skip = x.skip /\ y.resumed = x.resumed /\ y.start = x.start

(* Progress, with the same task, of the devices of a command               *)
SameTasks(p) ==
  /\ DOMAIN sp' = Proc /\ Table(sp'[p], Progress) /\ DOMAIN sp'[p] = DOMAIN sp[p]
  /\ \A e \in DOMAIN sp[p] : SameTask(sp[p][e], sp'[p][e])

(* An ioctl that is refused only sets canceled.                            *)
LEMMA RefuseShape ==
  ASSUME ScrubTypeOK, NEW p \in Proc, NEW d \in DOMAIN sp[p], NEW why \in Results,
         Refuse(p, d, why)
  PROVE  /\ SameTasks(p)
         /\ \A e \in DOMAIN sp[p] \ {d} : sp'[p][e] = sp[p][e]
         /\ sp'[p][d].p.canceled
         /\ sp'[p][d].p.last = sp[p][d].p.last /\ sp'[p][d].p.finished = sp[p][d].p.finished
<1>1. DOMAIN sp = Proc /\ Table(sp[p], Progress)
  BY Zenon DEF ScrubTypeOK
<1>2. sp' = [sp EXCEPT ![p][d].p.canceled = TRUE, ![p][d].ret = why]
  BY Zenon DEF Refuse
<1>3. sp[p][d] \in Progress
  BY <1>1, Zenon DEF Table
<1> USE DEF Table, Progress, Record, Results
<1>4. DOMAIN sp' = Proc /\ DOMAIN sp'[p] = DOMAIN sp[p]
  BY <1>1, <1>2, <1>3, Zenon
<1>5. sp'[p] \in [DOMAIN sp[p] -> Progress]
  BY <1>1, <1>2, <1>3, Zenon
<1>6. \A e \in DOMAIN sp[p] \ {d} : sp'[p][e] = sp[p][e]
  BY <1>1, <1>2, <1>3, Zenon
<1>7. SameTask(sp[p][d], sp'[p][d])
  BY <1>1, <1>2, <1>3, Zenon DEF SameTask
<1>8. /\ sp'[p][d].p.canceled
      /\ sp'[p][d].p.last = sp[p][d].p.last /\ sp'[p][d].p.finished = sp[p][d].p.finished
  BY <1>1, <1>2, <1>3, Zenon
<1>9. SameTasks(p)
  <2>1. \A e \in DOMAIN sp[p] : SameTask(sp[p][e], sp'[p][e])
    BY <1>6, <1>7, Zenon DEF SameTask
  <2>2. Table(sp'[p], Progress)
    BY <1>1, <1>4, <1>5, Zenon
  <2> QED
    BY <1>4, <2>1, <2>2, Zenon DEF SameTasks
<1> QED
  BY <1>6, <1>8, <1>9, Zenon

(* A thread that is through only sets finished.                            *)
LEMMA FinishShape ==
  ASSUME ScrubTypeOK, NEW p \in Proc, NEW d \in DOMAIN sp[p], FinishThread(p, d)
  PROVE  /\ SameTasks(p)
         /\ \A e \in DOMAIN sp[p] \ {d} : sp'[p][e] = sp[p][e]
         /\ sp'[p][d].p.finished
         /\ sp'[p][d].p.last = sp[p][d].p.last /\ sp'[p][d].p.canceled = sp[p][d].p.canceled
<1>1. DOMAIN sp = Proc /\ Table(sp[p], Progress)
  BY Zenon DEF ScrubTypeOK
<1>2. sp' = [sp EXCEPT ![p][d].p.finished = TRUE]
  BY Zenon DEF FinishThread
<1>3. sp[p][d] \in Progress
  BY <1>1, Zenon DEF Table
<1> USE DEF Table, Progress, Record
<1>4. DOMAIN sp' = Proc /\ DOMAIN sp'[p] = DOMAIN sp[p]
  BY <1>1, <1>2, <1>3, Zenon
<1>5. sp'[p] \in [DOMAIN sp[p] -> Progress]
  BY <1>1, <1>2, <1>3, Zenon
<1>6. \A e \in DOMAIN sp[p] \ {d} : sp'[p][e] = sp[p][e]
  BY <1>1, <1>2, <1>3, Zenon
<1>7. SameTask(sp[p][d], sp'[p][d])
  BY <1>1, <1>2, <1>3, Zenon DEF SameTask
<1>8. /\ sp'[p][d].p.finished
      /\ sp'[p][d].p.last = sp[p][d].p.last /\ sp'[p][d].p.canceled = sp[p][d].p.canceled
  BY <1>1, <1>2, <1>3, Zenon
<1>9. SameTasks(p)
  <2>1. \A e \in DOMAIN sp[p] : SameTask(sp[p][e], sp'[p][e])
    BY <1>6, <1>7, Zenon DEF SameTask
  <2>2. Table(sp'[p], Progress)
    BY <1>1, <1>4, <1>5, Zenon
  <2> QED
    BY <1>4, <2>1, <2>2, Zenon DEF SameTasks
<1> QED
  BY <1>6, <1>8, <1>9, Zenon

(* What a return sets, of one device                                       *)
LEMMA ReturnedShape ==
  ASSUME NEW x \in Progress, NEW n \in Nat, NEW c \in BOOLEAN, NEW why \in Results
  PROVE  /\ Returned(x, n, c, why) \in Progress /\ SameTask(x, Returned(x, n, c, why))
         /\ Returned(x, n, c, why).p.last = n
         /\ Returned(x, n, c, why).p.canceled <=> c
         /\ Returned(x, n, c, why).p.finished = x.p.finished
<1> USE DEF Progress, Record, Results, Returned
<1>1. Returned(x, n, c, why) \in Progress
  BY Zenon
<1>2. Returned(x, n, c, why).p.last = n
  BY Zenon
<1>3. Returned(x, n, c, why).p.canceled = c
  BY Zenon
<1>4. Returned(x, n, c, why).p.finished = x.p.finished
  BY Zenon
<1>5. SameTask(x, Returned(x, n, c, why))
  BY Zenon DEF SameTask
<1> HIDE DEF Progress, Record, Results, Returned
<1> QED
  BY <1>1, <1>2, <1>3, <1>4, <1>5, Zenon

(* An ioctl that returns sets the position, and canceled if it did not     *)
(* come to the end.                                                        *)
LEMMA ReturnShape ==
  ASSUME ScrubTypeOK, NEW p \in Proc, NEW D, NEW why \in Results, Return(D, why)
  PROVE  /\ SameTasks(p)
         /\ \A e \in DOMAIN sp[p] :
              IF e \in D /\ kernel[e] = p
              THEN /\ sp'[p][e].p.last = pos[e]
                   /\ sp'[p][e].p.canceled <=> why # "ok"
                   /\ sp'[p][e].p.finished = sp[p][e].p.finished
              ELSE sp'[p][e] = sp[p][e]
<1>1. DOMAIN sp = Proc /\ Table(sp[p], Progress) /\ pos \in [Dev -> 0 .. Size]
  BY Zenon DEF ScrubTypeOK
<1>2. /\ DOMAIN sp' = Proc /\ DOMAIN sp'[p] = DOMAIN sp[p]
      /\ sp'[p] = [d \in DOMAIN sp[p] |->
           IF d \in D /\ kernel[d] = p THEN Returned(sp[p][d], pos[d], why # "ok", why)
           ELSE sp[p][d]]
  BY Zenon DEF Return
<1>3. ASSUME NEW e \in DOMAIN sp[p]
      PROVE  /\ sp'[p][e] \in Progress /\ SameTask(sp[p][e], sp'[p][e])
             /\ IF e \in D /\ kernel[e] = p
                THEN /\ sp'[p][e].p.last = pos[e]
                     /\ sp'[p][e].p.canceled <=> why # "ok"
                     /\ sp'[p][e].p.finished = sp[p][e].p.finished
                ELSE sp'[p][e] = sp[p][e]
  <2>1. sp[p][e] \in Progress /\ pos[e] \in Nat
    BY <1>1, ScrubAssumption DEF Table
  <2>2. CASE e \in D /\ kernel[e] = p
    <3> DEFINE c == why # "ok"
    <3>1. c \in BOOLEAN /\ sp'[p][e] = Returned(sp[p][e], pos[e], c, why)
      BY <1>2, <2>2, Zenon
    <3> HIDE DEF c
    <3>2. /\ sp'[p][e] \in Progress /\ SameTask(sp[p][e], sp'[p][e])
          /\ sp'[p][e].p.last = pos[e]
          /\ sp'[p][e].p.canceled <=> c
          /\ sp'[p][e].p.finished = sp[p][e].p.finished
      BY <2>1, <3>1, ReturnedShape
    <3> QED
      BY <2>2, <3>2, Zenon DEF c
  <2>3. CASE ~(e \in D /\ kernel[e] = p)
    BY <1>2, <2>1, <2>3, Zenon DEF SameTask
  <2> QED
    BY <2>2, <2>3, Zenon
<1>4. Table(sp'[p], Progress)
  BY <1>1, <1>2, <1>3, Zenon DEF Table
<1> QED
  BY <1>2, <1>3, <1>4, Zenon DEF SameTasks

(* The types a device's thread keeps                                       *)
LEMMA ThreadType ==
  ASSUME OneCommand, ScrubTypeOK, NEW p \in Proc, NEW d \in DOMAIN sp[p], d \in Dev,
         CallIoctl(p, d) \/ FinishThread(p, d)
  PROVE  ScrubTypeOK'
<1>1. UNCHANGED <<file, pc, opt, has, this, last, prog>>
  BY Zenon DEF CallIoctl, FinishThread, threadFrame, progVars
<1>2. \A q \in Proc : q = p
  BY Zenon DEF OneCommand
<1>3. ASSUME SameTasks(p), UNCHANGED kernelVars, NEW l \in {"return", "done"},
             thread' = [thread EXCEPT ![p][d] = l]
      PROVE  ScrubTypeOK'
  <2>1. thread' \in [Proc -> [Dev -> {"none", "start", "ioctl", "return", "done"}]]
    BY <1>3, Zenon DEF ScrubTypeOK
  <2> QED
    BY <1>1, <1>2, <1>3, <2>1, Zenon DEF ScrubTypeOK, SameTasks, kernelVars
<1>4. ASSUME NEW why \in Results, Refuse(p, d, why) PROVE ScrubTypeOK'
  BY <1>3, <1>4, RefuseShape, Zenon DEF Refuse
<1>5. CASE FinishThread(p, d)
  BY <1>3, <1>5, FinishShape, Zenon DEF FinishThread
<1>6. CASE Start(p, d)
  <2>1. sp[p][d] \in Progress
    BY DEF ScrubTypeOK, Table
  <2>2. sp[p][d].start \in Nat
    BY <2>1, Zenon DEF Progress
  <2>3. pos' \in [Dev -> 0 .. Size]
    BY <1>6, <2>2, ScrubAssumption DEF Start, ScrubTypeOK
  <2>4. kernel' \in [Dev -> Proc \cup {None}]
    BY <1>6, Zenon DEF Start, ScrubTypeOK
  <2>5. thread' \in [Proc -> [Dev -> {"none", "start", "ioctl", "return", "done"}]]
    BY <1>6, Zenon DEF Start, ScrubTypeOK
  <2>6. covered' \in [Dev -> SUBSET (0 .. Size - 1)]
    BY <1>6, Zenon DEF Start, ScrubTypeOK
  <2>7. resumes' \in [Dev -> Nat]
    BY <1>6 DEF Start, ScrubTypeOK
  <2>8. sp' = sp
    BY <1>6, Zenon DEF Start
  <2> QED
    BY <1>1, <2>3, <2>4, <2>5, <2>6, <2>7, <2>8, Zenon DEF ScrubTypeOK
<1> QED
  BY <1>4, <1>5, <1>6, Zenon DEF CallIoctl, Results

(* The types the kernel keeps                                              *)
LEMMA KernelType ==
  ASSUME OneCommand, ScrubTypeOK, NEW p \in Proc,
         (\E d \in Dev : KernelScrub(d) \/ KernelDone(d)) \/ Cancel
  PROVE  ScrubTypeOK'
<1>1. UNCHANGED <<file, pc, opt, has, this, last, prog>>
  BY Zenon DEF KernelScrub, KernelDone, Cancel, threadFrame, progVars
<1>2. \A q \in Proc : q = p
  BY Zenon DEF OneCommand
<1>3. ASSUME NEW d \in Dev, KernelScrub(d) PROVE ScrubTypeOK'
  <2>1. pos[d] \in 0 .. Size /\ pos[d] # Size /\ pos[d] \in 0 .. Size - 1 /\ pos[d] + 1 \in 0 .. Size
    BY <1>3, ScrubAssumption DEF KernelScrub, ScrubTypeOK
  <2>2. pos' \in [Dev -> 0 .. Size]
    BY <1>3, <2>1, Zenon DEF KernelScrub, ScrubTypeOK
  <2>3. covered' \in [Dev -> SUBSET (0 .. Size - 1)]
    BY <1>3, <2>1, Zenon DEF KernelScrub, ScrubTypeOK
  <2>4. UNCHANGED <<kernel, resumes, sp, thread>>
    BY <1>3, Zenon DEF KernelScrub
  <2> QED
    BY <1>1, <2>2, <2>3, <2>4, Zenon DEF ScrubTypeOK
<1>4. ASSUME NEW D, NEW why \in Results, Return(D, why) PROVE ScrubTypeOK'
  <2>1. SameTasks(p)
    BY <1>4, ReturnShape, Zenon
  <2>2. thread' \in [Proc -> [Dev -> {"none", "start", "ioctl", "return", "done"}]]
    BY <1>4 DEF Return, ScrubTypeOK
  <2>3. kernel' \in [Dev -> Proc \cup {None}]
    BY <1>4, Zenon DEF Return, ScrubTypeOK
  <2>4. UNCHANGED <<pos, covered, resumes>>
    BY <1>4, Zenon DEF Return
  <2> QED
    BY <1>1, <1>2, <2>1, <2>2, <2>3, <2>4, Zenon DEF ScrubTypeOK, SameTasks
<1>5. "ok" \in Results /\ "canceled" \in Results
  BY Zenon DEF Results
<1> QED
  BY <1>3, <1>4, <1>5, Zenon DEF KernelDone, Cancel

(* The types the progress thread keeps, and a sample is progress.          *)
LEMMA ProgType ==
  ASSUME OneCommand, ScrubTypeOK, NEW p \in Proc,
         prog[p] \in {"poll", "write"} =>
           DOMAIN this[p] = DOMAIN sp[p] /\ DOMAIN last[p] = DOMAIN sp[p],
         InitCycle(p) \/ Poll(p) \/ WriteProgress(p)
  PROVE  ScrubTypeOK'
<1>1. UNCHANGED <<pc, opt, has, sp, thread, kernel, pos, covered, resumes>>
  BY Zenon DEF InitCycle, Poll, WriteProgress, progFrame, kernelVars
<1>2. \A q \in Proc : q = p
  BY Zenon DEF OneCommand
<1>3. /\ DOMAIN sp = Proc /\ DOMAIN this = Proc /\ DOMAIN last = Proc
      /\ Table(sp[p], Progress) /\ Table(this[p], Progress) /\ Table(last[p], Progress)
  BY Zenon DEF ScrubTypeOK
<1>4. ASSUME NEW n, NEW o, NEW l \in {"poll", "write"}, Table(n, Progress), Table(o, Progress),
             this' = [this EXCEPT ![p] = n], last' = [last EXCEPT ![p] = o],
             prog' = [prog EXCEPT ![p] = l], file' = file
      PROVE  ScrubTypeOK'
  <2>1. /\ DOMAIN this' = Proc /\ DOMAIN last' = Proc
        /\ this'[p] = n /\ last'[p] = o
    BY <1>3, <1>4, Zenon
  <2>2. prog' \in [Proc -> {"none", "init", "poll", "write", "dead", "joined"}]
    BY <1>4, Zenon DEF ScrubTypeOK
  <2> QED
    BY <1>1, <1>2, <1>4, <2>1, <2>2, Zenon DEF ScrubTypeOK
<1>5. CASE InitCycle(p)
  <2> DEFINE buf == [d \in DOMAIN sp[p] |->
                       [sp[p][d] EXCEPT !.p = [Zero EXCEPT !.finished = sp[p][d].p.finished]]]
  <2>1. ASSUME NEW d \in DOMAIN sp[p] PROVE buf[d] \in Progress
    <3>1. sp[p][d] \in Progress
      BY <1>3, Zenon DEF Table
    <3>2. [Zero EXCEPT !.finished = sp[p][d].p.finished] \in Record
      BY <3>1, Zenon DEF Progress, Record, Zero
    <3> QED
      BY <3>1, <3>2, Zenon DEF Progress
  <2>2. Table(buf, Progress)
    BY <1>3, <2>1, Zenon DEF Table
  <2>3. /\ this' = [this EXCEPT ![p] = buf] /\ last' = [last EXCEPT ![p] = buf]
        /\ prog' = [prog EXCEPT ![p] = "poll"] /\ file' = file
    BY <1>5, Zenon DEF InitCycle
  <2> QED
    BY <1>4, <2>2, <2>3, Zenon
<1>6. CASE Poll(p)
  <2> DEFINE new == [d \in DOMAIN sp[p] |-> Sample(p, d)]
             old == [d \in DOMAIN new |-> IF new[d].p.finished THEN new[d] ELSE this[p][d]]
  <2>1. DOMAIN this[p] = DOMAIN sp[p] /\ DOMAIN last[p] = DOMAIN sp[p]
    BY <1>6, Zenon DEF Poll
  <2>2. ASSUME NEW d \in DOMAIN sp[p] PROVE Sample(p, d) \in Progress
    <3>1. /\ sp[p][d] \in Progress /\ this[p][d] \in Progress /\ last[p][d] \in Progress
          /\ pos[d] \in Nat
      BY <1>3, <2>1, ScrubAssumption DEF Table, ScrubTypeOK
    <3>2. [last[p][d] EXCEPT !.p.last = pos[d]] \in Progress
      BY <3>1, Zenon DEF Progress, Record
    <3> QED
      BY <3>1, <3>2, Zenon DEF Sample
  <2>3. Table(new, Progress)
    BY <1>3, <2>2, Zenon DEF Table
  <2>4. Table(old, Progress)
    BY <1>3, <2>1, <2>2, Zenon DEF Table
  <2>5. \E l \in {"poll", "write"} : prog' = [prog EXCEPT ![p] = l]
    BY <1>6, Zenon DEF Poll
  <2>6. this' = [this EXCEPT ![p] = new] /\ last' = [last EXCEPT ![p] = old] /\ file' = file
    BY <1>6, Zenon DEF Poll
  <2> HIDE DEF new, old
  <2> QED
    BY <1>4, <2>3, <2>4, <2>5, <2>6, Zenon
<1>7. CASE WriteProgress(p)
  <2>1. file' = file \/ file' = FileOf(this[p])
    BY <1>7, Zenon DEF WriteProgress
  <2>2. Table(file', Record)
    BY <1>3, <2>1, FileType DEF ScrubTypeOK
  <2>3. prog' \in [Proc -> {"none", "init", "poll", "write", "dead", "joined"}]
    BY <1>7 DEF WriteProgress, ScrubTypeOK
  <2>4. UNCHANGED <<this, last>>
    BY <1>7, Zenon DEF WriteProgress
  <2> QED
    BY <1>1, <2>2, <2>3, <2>4, Zenon DEF ScrubTypeOK
<1> QED
  BY <1>5, <1>6, <1>7, Zenon

(* The types that are left when a command is given again or the machine    *)
(* stops                                                                   *)
LEMMA ResetType ==
  ASSUME ScrubTypeOK, (\E p \in Proc : Again(p)) \/ Reboot
  PROVE  ScrubTypeOK'
<1>1. PICK P \in SUBSET Proc : Reset(P)
  BY Zenon DEF Again, Reboot
<1>2. kernel' \in [Dev -> Proc \cup {None}]
  BY Zenon DEF Again, Reboot, ScrubTypeOK
<1>3. UNCHANGED <<file, pos, covered, resumes>>
  BY <1>1, Zenon DEF Reset
<1>4. /\ pc' \in [Proc -> {"idle", "check", "bind", "unlink", "record", "launch", "run", "last",
                           "exit", "crashed"}]
      /\ prog' \in [Proc -> {"none", "init", "poll", "write", "dead", "joined"}]
  BY <1>1, Zenon DEF Reset, Idle, ScrubTypeOK
<1>5. opt' \in [Proc -> [resume : BOOLEAN, busy : BOOLEAN]]
  BY <1>1, Zenon DEF Reset, Idle, ScrubTypeOK
<1>6. has' \in [Proc -> Has]
  BY <1>1, Zenon DEF Reset, Idle, ScrubTypeOK, Has
<1>7. thread' \in [Proc -> [Dev -> {"none", "start", "ioctl", "return", "done"}]]
  BY <1>1, Zenon DEF Reset, Idle, ScrubTypeOK
<1>8. /\ DOMAIN sp' = Proc /\ DOMAIN this' = Proc /\ DOMAIN last' = Proc
      /\ \A p \in Proc : sp'[p] \in {sp[p], NoDevs} /\ this'[p] \in {this[p], NoDevs}
                         /\ last'[p] \in {last[p], NoDevs}
  BY <1>1, Zenon DEF Reset, Idle
<1>9. \A p \in Proc :
        Table(sp'[p], Progress) /\ Table(this'[p], Progress) /\ Table(last'[p], Progress)
  BY <1>8, NoDevsType, Zenon DEF ScrubTypeOK
<1> QED
  BY <1>2, <1>3, <1>4, <1>5, <1>6, <1>7, <1>8, <1>9, Zenon DEF ScrubTypeOK

(* The faults are counted.                                                 *)
LEMMA FaultsStep ==
  ASSUME faults \in Nat, [Next]_vars PROVE faults' \in Nat
<1>1. ASSUME NEW p \in Proc, Work(p) PROVE faults' = faults \/ faults' = faults + 1
  <2>1. CASE Check(p) \/ Bind(p) \/ Unlink(p)
    BY <2>1, Zenon DEF Check, Bind, Unlink, socketFrame, bounds
  <2>2. CASE FirstRecord(p) \/ Launch(p)
    BY <2>2, Zenon DEF FirstRecord, Launch, Fault, bounds
  <2>3. CASE JoinThreads(p) \/ LastRecord(p)
    BY <2>3, Zenon DEF JoinThreads, LastRecord, Fault, bounds
  <2>4. ASSUME NEW d \in Dev, CallIoctl(p, d) \/ FinishThread(p, d)
        PROVE  faults' = faults \/ faults' = faults + 1
    BY <2>4, Zenon DEF CallIoctl, FinishThread, threadFrame, Fault, bounds
  <2> QED
    BY <1>1, <2>1, <2>2, <2>3, <2>4, Zenon DEF Work
<1>2. ASSUME NEW p \in Proc, Begin(p) \/ ParentLeaves(p) \/ Again(p) PROVE faults' = faults
  <2>1. CASE Begin(p)
    BY <2>1, Zenon DEF Begin
  <2>2. CASE ParentLeaves(p)
    BY <2>2, Zenon DEF ParentLeaves, socketFrame, bounds
  <2>3. CASE Again(p)
    BY <2>3, Zenon DEF Again, Reset
  <2> QED
    BY <1>2, <2>1, <2>2, <2>3, Zenon
<1>3. ASSUME NEW p \in Proc, InitCycle(p) \/ Poll(p) \/ WriteProgress(p)
      PROVE  faults' = faults \/ faults' = faults + 1
  BY <1>3, Zenon DEF InitCycle, Poll, WriteProgress, Fault, bounds
<1>4. ASSUME NEW d \in Dev, KernelScrub(d) \/ KernelDone(d) PROVE faults' = faults
  BY <1>4, Zenon DEF KernelScrub, KernelDone, threadFrame, bounds
<1>5. ASSUME Cancel \/ Reboot PROVE faults' = faults
  BY <1>5, Zenon DEF Cancel, Reboot, Reset, threadFrame, bounds
<1>6. ASSUME UNCHANGED vars PROVE faults' = faults
  BY <1>6, Zenon DEF vars, bounds
<1>7. faults' = faults \/ faults' = faults + 1
  BY <1>1, <1>2, <1>3, <1>4, <1>5, <1>6, Zenon DEF Next
<1> QED
  BY <1>7


----------------------------------------------------------------------------
(* The records *)

(* What is said of a device is said of its own state.                      *)
LEMMA Local ==
  ASSUME NEW p, NEW e, opt'[p] = opt[p], sp'[p][e] = sp[p][e], thread'[p][e] = thread[p][e],
         covered'[e] = covered[e], resumes'[e] = resumes[e], pos'[e] = pos[e],
         e \in early' <=> e \in early,
         e \in DOMAIN file' <=> e \in DOMAIN file, file'[e] = file[e]
  PROVE  /\ Planned(p, e)' <=> Planned(p, e)
         /\ Running(p, e)' <=> Running(p, e)
         /\ \A b : Sampled(p, e, b)' <=> Sampled(p, e, b)
         /\ \A r : Truthful(e, r)' <=> Truthful(e, r)
<1>1. \A r : NotAhead(e, r)' <=> NotAhead(e, r)
  BY Zenon DEF NotAhead
<1>2. \A r : Truthful(e, r)' <=> Truthful(e, r)
  BY <1>1, Zenon DEF Truthful
<1>3. Planned(p, e)' <=> Planned(p, e)
  BY <1>1, <1>2 DEF Planned
<1>4. Running(p, e)' <=> Running(p, e)
  BY <1>1, Zenon DEF Running, Started
<1>5. \A b : Sampled(p, e, b)' <=> Sampled(p, e, b)
  BY <1>2, Zenon DEF Sampled
<1> QED
  BY <1>2, <1>3, <1>4, <1>5, Zenon

(* A step of a command that comes before its threads and writes nothing    *)
LEMMA QuietStep ==
  ASSUME OneCommand, ScrubInv, NEW p \in Proc,
         Check(p) \/ Bind(p) \/ Unlink(p) \/ ParentLeaves(p)
  PROVE  ScrubInv'
<1>0. ScrubTypeOK /\ ScrubTypeOK'
  BY CommandType, Zenon DEF ScrubInv
<1>1. UNCHANGED <<file, kernel, pos, opt, sp, thread, this, last, prog, covered, resumes, early,
                  faults>>
  BY Zenon DEF Check, Bind, Unlink, ParentLeaves, socketFrame, kernelVars, progVars, bounds
<1>2. has'[p].record = has[p].record
  <2>1. has' = has \/ has' = [has EXCEPT ![p].fd = TRUE] \/ has' = [has EXCEPT ![p].parent = FALSE]
    BY Zenon DEF Check, Bind, Unlink, ParentLeaves
  <2> QED
    BY <1>0, <2>1 DEF ScrubTypeOK, Has
<1>3. \/ pc'[p] = pc[p]
      \/ pc[p] \in {"check", "bind", "unlink"} /\ pc'[p] \in {"bind", "unlink", "record", "exit"}
  BY <1>0, Zenon DEF Check, Bind, Unlink, ParentLeaves, Goto, Exit, ScrubTypeOK
<1>4. \A q \in Proc : q = p
  BY Zenon DEF OneCommand
<1>5. \A e : /\ Planned(p, e)' <=> Planned(p, e)
             /\ Running(p, e)' <=> Running(p, e)
             /\ \A b : Sampled(p, e, b)' <=> Sampled(p, e, b)
             /\ \A r : Truthful(e, r)' <=> Truthful(e, r)
  BY <1>1, Local, Zenon
<1>6. Preparing(p) /\ Scrubbing(p) /\ InTime(p) /\ Buffered(p) /\ Ended(p)
  BY Zenon DEF ScrubInv
<1>7. Preparing(p)'
  BY <1>1, <1>2, <1>3, <1>5, <1>6, Zenon DEF Preparing, Before, FileOf
<1>8. Scrubbing(p)'
  BY <1>1, <1>2, <1>3, <1>5, <1>6, Zenon DEF Scrubbing
<1>9. InTime(p)'
  <2>1. CASE pc'[p] = pc[p]
    BY <1>1, <1>6, <2>1, Zenon DEF InTime
  <2>2. CASE pc'[p] # pc[p]
    BY <1>1, <1>3, <1>6, <2>2, Zenon DEF InTime
  <2> QED
    BY <2>1, <2>2, Zenon
<1>10. Buffered(p)'
  BY <1>1, <1>2, <1>5, <1>6, Zenon DEF Buffered
<1>11. Ended(p)'
  BY <1>1, <1>2, <1>3, <1>6, Zenon DEF Ended, Preparing, Before, FileOf
<1>12. \A d \in DOMAIN file' : Truthful(d, file[d])'
  BY <1>1, <1>5, Zenon DEF ScrubInv
<1>13. \A d \in Dev : kernel'[d] # None => thread'[kernel'[d]][d] = "ioctl"
  BY <1>1, Zenon DEF ScrubInv
<1> QED
  BY <1>0, <1>4, <1>7, <1>8, <1>9, <1>10, <1>11, <1>12, <1>13, Zenon DEF ScrubInv

(* What is said of a device stays true while more of it is scrubbed.       *)
LEMMA Grow ==
  ASSUME NEW p, NEW e, SameTask(sp[p][e], sp'[p][e]), opt'[p] = opt[p],
         thread'[p][e] = "start" => thread[p][e] = "start",
         resumes'[e] = resumes[e], covered[e] \subseteq covered'[e],
         covered'[e] \subseteq 0 .. Size - 1, e \in early => e \in early'
  PROVE  /\ \A r : NotAhead(e, r) => NotAhead(e, r)'
         /\ \A r : Truthful(e, r) => Truthful(e, r)'
         /\ Planned(p, e) => Planned(p, e)'
         /\ \A b : Sampled(p, e, b) => Sampled(p, e, b)'
<1>1. \A r : NotAhead(e, r) => NotAhead(e, r)'
  BY Zenon DEF NotAhead
<1>2. \A r : Truthful(e, r) => Truthful(e, r)'
  BY <1>1, Zenon DEF Truthful
<1>3. Planned(p, e) => Planned(p, e)'
  BY <1>1, <1>2, Zenon DEF Planned, SameTask
<1>4. \A b : Sampled(p, e, b) => Sampled(p, e, b)'
  BY <1>2, Zenon DEF Sampled, SameTask
<1> QED
  BY <1>1, <1>2, <1>3, <1>4, Zenon

(* A command begins: what it plans follows from true records.              *)
LEMMA BeginStep ==
  ASSUME OneCommand, ScrubInv, NEW p \in Proc, Begin(p)
  PROVE  ScrubInv'
<1>0. ScrubTypeOK /\ ScrubTypeOK'
  BY CommandType, Zenon DEF ScrubInv
<1>1. UNCHANGED <<file, kernel, pos, has, thread, this, last, prog, covered, resumes, early,
                  faults>>
  BY Zenon DEF Begin, kernelVars, progVars
<1>2. pc[p] = "idle" /\ pc'[p] = "check"
  BY <1>0, Zenon DEF Begin, Goto, ScrubTypeOK
<1>3. \A q \in Proc : q = p
  BY Zenon DEF OneCommand
<1>4. Preparing(p) /\ InTime(p)
  BY Zenon DEF ScrubInv
<1>5. PICK res \in BOOLEAN, force \in BOOLEAN, D \in Devices :
        /\ opt' = [opt EXCEPT ![p] = [resume |-> res, busy |-> ~force /\ RunningOnFs(D)]]
        /\ sp' = [sp EXCEPT ![p] = [d \in D |-> Plan(d, res)]]
  BY Zenon DEF Begin
<1>6. opt'[p].resume = res /\ sp'[p] = [d \in D |-> Plan(d, res)]
  BY <1>0, <1>5, Zenon DEF ScrubTypeOK
<1>7. ASSUME NEW d \in D PROVE Planned(p, d)' /\ sp'[p][d].p = Zero
  <2>1. sp'[p][d] = Plan(d, res)
    BY <1>6, Zenon
  <2>2. \A r : (Truthful(d, r)' <=> Truthful(d, r)) /\ (NotAhead(d, r)' <=> NotAhead(d, r))
    BY <1>1, Zenon DEF Truthful, NotAhead
  <2>3. CASE d \in DOMAIN file
    <3>1. PICK r : r = file[d] /\ r \in Record
      BY <1>0, <2>3, Zenon DEF ScrubTypeOK, Table
    <3>2. Truthful(d, r)
      BY <2>3, <3>1, Zenon DEF ScrubInv
    <3>3. PastScrub(d) = <<r>> /\ PastScrub(d) # <<>> /\ PastScrub(d)[1] = r
      BY <2>3, <3>1, Zenon DEF PastScrub
    <3>4. /\ sp'[p][d].resumed = IF res THEN <<r>> ELSE <<>>
          /\ sp'[p][d].p = Zero
          /\ sp'[p][d].skip <=> res /\ ~(r.canceled \/ ~r.finished)
          /\ sp'[p][d].start = IF res /\ (r.canceled \/ ~r.finished) THEN r.last ELSE 0
      <4>1. sp'[p][d].skip <=> res /\ ~(r.canceled \/ ~r.finished)
        <5> DEFINE again == PastScrub(d) # <<>>
                            /\ (PastScrub(d)[1].canceled \/ ~PastScrub(d)[1].finished)
        <5>1. again <=> r.canceled \/ ~r.finished
          BY <3>3, Zenon
        <5>2. Plan(d, res).skip = (res /\ ~again)
          BY Zenon DEF Plan
        <5> QED
          BY <2>1, <5>1, <5>2, Zenon
      <4>2. sp'[p][d].resumed = (IF res THEN <<r>> ELSE <<>>) /\ sp'[p][d].p = Zero
        BY <2>1, <3>3 DEF Plan
      <4>3. sp'[p][d].start = IF res /\ (r.canceled \/ ~r.finished) THEN r.last ELSE 0
        BY <2>1, <3>3 DEF Plan
      <4> QED
        BY <4>1, <4>2, <4>3, Zenon
    <3>5. res => sp'[p][d].resumed[1] = r /\ sp'[p][d].resumed # <<>>
      BY <3>4
    <3>6. NotAhead(d, r)' /\ Truthful(d, r)'
      BY <2>2, <3>2, Zenon DEF Truthful
    <3>7. CASE res
      <4>1. sp'[p][d].skip => r.finished /\ ~r.canceled
        BY <3>4, Zenon
      <4>2. ~sp'[p][d].skip => sp'[p][d].start = r.last
        BY <3>4, <3>7, Zenon
      <4> QED
        BY <1>6, <3>4, <3>5, <3>6, <3>7, <4>1, <4>2, Zenon DEF Planned
    <3>8. CASE ~res
      BY <1>6, <3>4, <3>8, Zenon DEF Planned
    <3> QED
      BY <3>7, <3>8, Zenon
  <2>4. CASE d \notin DOMAIN file
    <3>1. PastScrub(d) = <<>>
      BY <2>4, Zenon DEF PastScrub
    <3>2. /\ sp'[p][d].resumed = <<>> /\ sp'[p][d].p = Zero
          /\ sp'[p][d].skip <=> res
          /\ sp'[p][d].start = 0
      BY <2>1, <3>1 DEF Plan
    <3> QED
      BY <1>6, <3>2, Zenon DEF Planned
  <2> QED
    BY <2>3, <2>4, Zenon
<1>8. Preparing(p)'
  <2>1. DOMAIN sp'[p] = D
    BY <1>6, Zenon
  <2> QED
    BY <1>1, <1>2, <1>4, <1>7, <2>1, Zenon DEF Preparing
<1>9. Scrubbing(p)' /\ Ended(p)'
  BY <1>2, Zenon DEF Scrubbing, Ended
<1>10. InTime(p)' /\ Buffered(p)'
  <2>1. \A d \in Dev : thread'[p][d] = "none"
    BY <1>1, <1>2, <1>4, Zenon DEF Preparing, Idle
  <2>2. prog'[p] \notin {"init", "poll", "write"}
    BY <1>1, <1>2, <1>4, Zenon DEF InTime
  <2> QED
    BY <2>1, <2>2, Zenon DEF InTime, Buffered
<1>11. \A d \in DOMAIN file' : Truthful(d, file[d])'
  BY <1>1, Zenon DEF ScrubInv, Truthful, NotAhead
<1>12. \A d \in Dev : kernel'[d] # None => thread'[kernel'[d]][d] = "ioctl"
  BY <1>1, Zenon DEF ScrubInv
<1> QED
  BY <1>0, <1>3, <1>8, <1>9, <1>10, <1>11, <1>12, Zenon DEF ScrubInv

(* The first record says of no device that it is finished.                 *)
LEMMA FirstStep ==
  ASSUME OneCommand, ScrubInv, NEW p \in Proc, FirstRecord(p)
  PROVE  ScrubInv'
<1>0. ScrubTypeOK /\ ScrubTypeOK'
  BY CommandType, Zenon DEF ScrubInv
<1>1. UNCHANGED <<kernel, pos, opt, sp, thread, this, last, prog, covered, resumes>>
  BY Zenon DEF FirstRecord, kernelVars
<1>2. pc[p] = "record" /\ pc'[p] = "launch"
  BY <1>0, Zenon DEF FirstRecord, Goto, ScrubTypeOK
<1>3. \A q \in Proc : q = p
  BY Zenon DEF OneCommand
<1>4. Preparing(p) /\ InTime(p)
  BY Zenon DEF ScrubInv
<1>5. \A d \in DOMAIN sp[p] : Planned(p, d) /\ sp[p][d].p = Zero
  BY <1>2, <1>4, Zenon DEF Preparing, Before
<1>6. /\ \A d \in Dev : thread'[p][d] = "none"
      /\ thread'[p] = Idle.thread
  BY <1>1, <1>2, <1>4, Zenon DEF Preparing, Idle, Before
<1>7. Scrubbing(p)' /\ Ended(p)'
  BY <1>2, Zenon DEF Scrubbing, Ended
<1>8. InTime(p)' /\ Buffered(p)'
  <2>1. prog'[p] \notin {"init", "poll", "write"}
    BY <1>1, <1>2, <1>4, Zenon DEF InTime
  <2> QED
    BY <1>6, <2>1, Zenon DEF InTime, Buffered
<1>9. \A d \in Dev : kernel'[d] # None => thread'[kernel'[d]][d] = "ioctl"
  BY <1>1, Zenon DEF ScrubInv
<1>10. early' \subseteq early /\ \A d \in DOMAIN sp[p] : sp[p][d].skip /\ d \in early => d \in early'
  BY Zenon DEF FirstRecord, Own
<1>11. ASSUME NEW d \in DOMAIN sp[p] PROVE Planned(p, d)' /\ sp'[p][d].p = Zero
  <2>1. CASE sp[p][d].skip
    <3>1. SameTask(sp[p][d], sp'[p][d])
      BY <1>1, Zenon DEF SameTask
    <3>2. d \in Dev
      BY <1>0, Zenon DEF ScrubTypeOK, Table
    <3> QED
      BY <1>0, <1>1, <1>5, <1>10, <2>1, <3>1, <3>2, Grow, Zenon DEF ScrubTypeOK
  <2>2. CASE ~sp[p][d].skip
    BY <1>1, <1>5, <2>2, Zenon DEF Planned, NotAhead
  <2> QED
    BY <2>1, <2>2, Zenon
<1>12. CASE file' = FileOf(sp[p])
  <2>1. file' = FileOf(sp[p])
    BY <1>12, Zenon
  <2>2. Preparing(p)'
    BY <1>1, <1>2, <1>6, <1>11, <2>1, Zenon DEF Preparing, FileOf
  <2>3. ASSUME NEW d \in DOMAIN file' PROVE Truthful(d, file[d])'
    <3>1. d \in DOMAIN sp[p] /\ file'[d] = ResumedStats(sp[p][d])
      BY <2>1, <2>3, Zenon DEF FileOf
    <3>2. ~file'[d].finished
      BY <1>5, <3>1 DEF ResumedStats, Zero
    <3>3. \/ file'[d].last = 0
          \/ sp[p][d].resumed # <<>> /\ file'[d].last = sp[p][d].resumed[1].last
      <4>1. CASE sp[p][d].resumed = <<>> \/ sp[p][d].skip
        BY <1>5, <3>1, <4>1 DEF ResumedStats, Zero
      <4>2. CASE ~(sp[p][d].resumed = <<>> \/ sp[p][d].skip)
        <5>1. sp[p][d].resumed \in Seq(Record)
          BY <1>0, <3>1 DEF ScrubTypeOK, Table, Progress
        <5>2. sp[p][d].resumed[1] \in Record
          BY <4>2, <5>1
        <5>3. sp[p][d].resumed[1].last + 0 = sp[p][d].resumed[1].last
          BY <5>2 DEF Record
        <5> QED
          BY <1>5, <3>1, <4>2, <5>3 DEF ResumedStats, Zero
      <4> QED
        BY <4>1, <4>2, Zenon
    <3>4. NotAhead(d, file[d])'
      BY <1>1, <1>5, <3>1, <3>3 DEF NotAhead, Planned
    <3> QED
      BY <3>2, <3>4, Zenon DEF Truthful
  <2> QED
    BY <1>0, <1>3, <1>7, <1>8, <1>9, <2>2, <2>3, Zenon DEF ScrubInv
<1>13. CASE /\ UNCHANGED <<file, early>>
            /\ has' = [has EXCEPT ![p].listen = has[p].fd, ![p].parent = Background,
                                  ![p].record = FALSE]
  <2>1. ~has'[p].record
    BY <1>0, <1>13, Zenon DEF ScrubTypeOK, Has
  <2>2. Preparing(p)'
    BY <1>1, <1>2, <1>6, <1>11, <2>1, Zenon DEF Preparing
  <2>3. \A d \in DOMAIN file' : Truthful(d, file[d])'
    BY <1>1, <1>13, Zenon DEF ScrubInv, Truthful, NotAhead
  <2> QED
    BY <1>0, <1>3, <1>7, <1>8, <1>9, <2>2, <2>3, Zenon DEF ScrubInv
<1> QED
  BY <1>12, <1>13, Zenon DEF FirstRecord

(* The threads are launched: a device that is skipped has a true result    *)
(* already, and the record of the others says that they are not finished.  *)
LEMMA LaunchStep ==
  ASSUME OneCommand, ScrubInv, NEW p \in Proc, Launch(p)
  PROVE  ScrubInv'
<1>0. ScrubTypeOK /\ ScrubTypeOK'
  BY CommandType, Zenon DEF ScrubInv
<1>1. UNCHANGED <<file, kernel, pos, opt, has, this, last, covered, resumes, early, faults>>
  BY Zenon DEF Launch, kernelVars, bounds
<1>2. pc[p] = "launch" /\ pc'[p] \in {"crashed", "run"}
  BY <1>0, Zenon DEF Launch, Goto, ScrubTypeOK
<1>3. \A q \in Proc : q = p
  BY Zenon DEF OneCommand
<1>4. Preparing(p) /\ InTime(p)
  BY Zenon DEF ScrubInv
<1>5. \A d \in DOMAIN sp[p] : Planned(p, d) /\ sp[p][d].p = Zero
  BY <1>2, <1>4, Zenon DEF Preparing, Before
<1>6. \A d \in Dev : thread[p][d] = "none"
  BY <1>2, <1>4, Zenon DEF Preparing, Idle, Before
<1>7. \A d \in Dev : kernel'[d] = None
  <2>1. \A d \in Dev : kernel[d] # None => kernel[d] \in Proc
    BY <1>0 DEF ScrubTypeOK
  <2> QED
    BY <1>1, <1>3, <1>6, <2>1, Zenon DEF ScrubInv
<1>8. prog[p] \notin {"init", "poll", "write"}
  BY <1>2, <1>4, Zenon DEF InTime
<1>9. \A d \in DOMAIN file' : Truthful(d, file[d])'
  BY <1>1, Zenon DEF ScrubInv, Truthful, NotAhead
<1>10. Preparing(p)' /\ Ended(p)'
  BY <1>2, Zenon DEF Preparing, Ended, Before
<1>11. CASE UNCHANGED <<sp, thread, prog>> /\ pc'[p] = "crashed"
  <2>1. Scrubbing(p)' /\ InTime(p)' /\ Buffered(p)'
    BY <1>6, <1>8, <1>11, Zenon DEF Scrubbing, InTime, Buffered
  <2> QED
    BY <1>0, <1>3, <1>7, <1>9, <1>10, <2>1, Zenon DEF ScrubInv
<1>12. CASE /\ \A d \in DOMAIN sp[p] : sp[p][d].skip => sp[p][d].resumed # <<>>
            /\ sp'[p] = [d \in DOMAIN sp[p] |-> Inherit(sp[p][d])]
            /\ thread'[p] =
                 [d \in Dev |-> IF d \in DOMAIN sp[p] /\ ~sp[p][d].skip THEN "start" ELSE "none"]
            /\ prog'[p] = "init" /\ pc'[p] = "run"
  <2>1. InTime(p)' /\ Buffered(p)'
    BY <1>12, Zenon DEF InTime, Buffered
  <2>2. ASSUME has'[p].record, NEW d \in DOMAIN sp'[p] PROVE Planned(p, d)' /\ Running(p, d)'
    <3>1. /\ d \in DOMAIN sp[p] /\ d \in Dev /\ sp'[p][d] = Inherit(sp[p][d])
          /\ sp[p][d] \in Progress
      BY <1>0, <1>12, <2>2 DEF ScrubTypeOK, Table
    <3>2. SameTask(sp[p][d], sp'[p][d])
      BY <3>1, Zenon DEF Inherit, SameTask, Progress
    <3>3. covered'[d] \subseteq 0 .. Size - 1
      BY <1>0, <3>1, Zenon DEF ScrubTypeOK
    <3>4. Planned(p, d)'
      <4>1. /\ \A r : NotAhead(d, r) <=> NotAhead(d, r)'
            /\ \A r : Truthful(d, r) <=> Truthful(d, r)'
        BY <1>1, Zenon DEF NotAhead, Truthful
      <4> QED
        BY <1>1, <1>5, <3>1, <3>2, <4>1, Zenon DEF Planned, SameTask
    <3>5. CASE sp[p][d].skip
      <4>1. thread'[p][d] = "none"
        BY <1>12, <3>1, <3>5, Zenon
      <4>2. sp[p][d].resumed \in Seq(Record) /\ sp[p][d].resumed # <<>>
        BY <1>12, <3>1, <3>5, Zenon DEF Progress
      <4>3. PICK r : r = sp[p][d].resumed[1] /\ r \in Record
        BY <4>2
      <4>4. opt[p].resume
        BY <1>5, <3>1, <3>5, Zenon DEF Planned
      <4>5. r.finished /\ ~r.canceled
        BY <1>5, <3>1, <3>5, <4>2, <4>3, <4>4, Zenon DEF Planned
      <4>6. sp'[p][d] = [sp[p][d] EXCEPT !.p = [r EXCEPT !.finished = TRUE]]
        BY <3>1, <3>5, <4>3, Zenon DEF Inherit
      <4>7. sp'[p][d].p = [r EXCEPT !.finished = TRUE]
        BY <3>1, <4>6, Zenon DEF Progress
      <4>8. sp'[p][d].p.finished /\ ~sp'[p][d].p.canceled /\ sp'[p][d].p.last = r.last
        BY <4>3, <4>5, <4>7, Zenon DEF Record
      <4>9. Running(p, d)'
        BY <3>2, <3>5, <4>1, <4>2, <4>3, <4>8, Zenon DEF Running, SameTask
      <4> QED
        BY <3>4, <4>9, Zenon
    <3>6. CASE ~sp[p][d].skip
      <4>1. thread'[p][d] = "start" /\ sp'[p][d] = sp[p][d]
        BY <1>12, <3>1, <3>6, Zenon DEF Inherit
      <4>2. d \in DOMAIN file /\ file[d] = ResumedStats(sp[p][d])
        BY <1>1, <1>2, <1>4, <2>2, <3>1, Zenon DEF Preparing, FileOf
      <4>3. ~file[d].finished
        BY <1>5, <3>1, <4>2 DEF ResumedStats, Zero
      <4>4. opt[p].resume \/ file[d].last = 0
        BY <1>5, <3>1, <4>2 DEF ResumedStats, Zero, Planned
      <4>5. Running(p, d)'
        BY <1>1, <1>5, <3>1, <3>6, <4>1, <4>2, <4>3, <4>4, Zenon DEF Running
      <4> QED
        BY <3>4, <4>5, Zenon
    <3> QED
      BY <3>5, <3>6, Zenon
  <2>3. Scrubbing(p)'
    BY <2>2, Zenon DEF Scrubbing
  <2> QED
    BY <1>0, <1>3, <1>7, <1>9, <1>10, <2>1, <2>3, Zenon DEF ScrubInv
<1>13. \/ UNCHANGED <<sp, thread, prog>> /\ pc'[p] = "crashed"
       \/ /\ \A d \in DOMAIN sp[p] : sp[p][d].skip => sp[p][d].resumed # <<>>
          /\ sp'[p] = [d \in DOMAIN sp[p] |-> Inherit(sp[p][d])]
          /\ thread'[p] =
               [d \in Dev |-> IF d \in DOMAIN sp[p] /\ ~sp[p][d].skip THEN "start" ELSE "none"]
          /\ prog'[p] = "init" /\ pc'[p] = "run"
  BY <1>0 DEF Launch, Goto, ScrubTypeOK
<1> QED
  BY <1>11, <1>12, <1>13, Zenon

(* The fields of what is written about a device                            *)
LEMMA StatsFields ==
  ASSUME NEW x \in Progress
  PROVE  /\ ResumedStats(x).finished = x.p.finished /\ ResumedStats(x).canceled = x.p.canceled
         /\ ResumedStats(x).last = IF x.resumed = <<>> \/ x.skip THEN x.p.last
                                   ELSE x.resumed[1].last + x.p.last
         /\ x.p.last \in Nat /\ (x.resumed # <<>> => x.resumed[1].last \in Nat)
<1>1. x.p \in Record /\ x.resumed \in Seq(Record)
  BY Zenon DEF Progress
<1>2. x.resumed # <<>> => x.resumed[1] \in Record
  BY <1>1
<1>3. x.p.last \in Nat /\ (x.resumed # <<>> => x.resumed[1].last \in Nat)
  BY <1>1, <1>2, Zenon DEF Record
<1>4. ResumedStats(x).finished = x.p.finished /\ ResumedStats(x).canceled = x.p.canceled
  BY <1>1, Zenon DEF ResumedStats, Record
<1>5. ResumedStats(x).last = IF x.resumed = <<>> \/ x.skip THEN x.p.last
                             ELSE x.resumed[1].last + x.p.last
  BY <1>1, Zenon DEF ResumedStats, Record
<1> QED
  BY <1>3, <1>4, <1>5, Zenon

(* The place that would be written of a device depends on its task and on  *)
(* what the kernel told of it.                                             *)
LEMMA SameLast ==
  ASSUME NEW x \in Progress, NEW y \in Progress, SameTask(x, y), y.p.last = x.p.last
  PROVE  ResumedStats(y).last = ResumedStats(x).last
BY StatsFields, Zenon DEF SameTask

(* Before the kernel has been asked anything about a device, what would be *)
(* written of it is where the recorded scrub stood, or nothing.            *)
LEMMA StatsAtZero ==
  ASSUME NEW x \in Progress, x.p.last = 0
  PROVE  ResumedStats(x).last = IF x.resumed = <<>> \/ x.skip THEN 0 ELSE x.resumed[1].last
<1>1. CASE x.resumed = <<>> \/ x.skip
  BY <1>1, StatsFields, Zenon
<1>2. CASE ~(x.resumed = <<>> \/ x.skip)
  <2>1. x.resumed[1].last \in Nat /\ ResumedStats(x).last = x.resumed[1].last + 0
    BY <1>2, StatsFields, Zenon
  <2>2. \A n \in Nat : n + 0 = n
    OBVIOUS
  <2> QED
    BY <1>2, <2>1, <2>2, Zenon
<1> QED
  BY <1>1, <1>2, Zenon

(* A step of the thread of one device, or of the kernel on it, concerns    *)
(* nothing but this device.                                                *)
LEMMA OneDevice ==
  ASSUME OneCommand, ScrubInv, ScrubTypeOK', NEW p \in Proc, NEW d \in DOMAIN sp[p], d \in Dev,
         pc[p] = "run",
         UNCHANGED <<file, opt, has, pc, this, last, prog, early>>,
         DOMAIN sp'[p] = DOMAIN sp[p],
         \A e \in DOMAIN sp[p] \ {d} : sp'[p][e] = sp[p][e],
         SameTask(sp[p][d], sp'[p][d]),
         \A e \in Dev \ {d} :
           /\ thread'[p][e] = thread[p][e] /\ covered'[e] = covered[e]
           /\ resumes'[e] = resumes[e] /\ pos'[e] = pos[e] /\ kernel'[e] = kernel[e],
         kernel'[d] # None => thread'[p][d] = "ioctl",
         has[p].record =>
           /\ Planned(p, d)' /\ Running(p, d)'
           /\ \A b \in Progress : Sampled(p, d, b) => Sampled(p, d, b)',
         \A r \in Record : d \in DOMAIN file /\ r = file[d] => Truthful(d, r)'
  PROVE  ScrubInv'
<1>1. \A q \in Proc : q = p
  BY Zenon DEF OneCommand
<1>2. Preparing(p)' /\ Ended(p)'
  BY Zenon DEF Preparing, Ended, Before
<1>3. Scrubbing(p) /\ InTime(p) /\ Buffered(p) /\ ScrubTypeOK
  BY Zenon DEF ScrubInv
<1>4. DOMAIN sp[p] \subseteq Dev /\ DOMAIN file \subseteq Dev
  BY <1>3, Zenon DEF ScrubTypeOK, Table
<1>5. ASSUME NEW e \in Dev \ {d}
      PROVE  \A r : Truthful(e, r)' <=> Truthful(e, r)
  BY <1>5, Zenon DEF Truthful, NotAhead
<1>6. ASSUME NEW e \in DOMAIN sp[p] \ {d}
      PROVE  /\ Planned(p, e)' <=> Planned(p, e)
             /\ Running(p, e)' <=> Running(p, e)
             /\ \A b : Sampled(p, e, b)' <=> Sampled(p, e, b)
  <2>1. e \in Dev \ {d}
    BY <1>4, <1>6, Zenon
  <2> QED
    BY <2>1, <1>6, Local, Zenon
<1>7. Scrubbing(p)'
  BY <1>3, <1>6, Zenon DEF Scrubbing
<1>8. InTime(p)'
  BY <1>3, Zenon DEF InTime
<1>9. Buffered(p)'
  <2>1. ASSUME prog[p] \in {"poll", "write"}, has[p].record, NEW e \in DOMAIN sp[p]
        PROVE  Sampled(p, e, this[p][e])' /\ Sampled(p, e, last[p][e])'
    <3>1. Sampled(p, e, this[p][e]) /\ Sampled(p, e, last[p][e])
      BY <1>3, <2>1, Zenon DEF Buffered
    <3>2. PICK a, b : a = this[p][e] /\ b = last[p][e] /\ a \in Progress /\ b \in Progress
      BY <1>3, <2>1, Zenon DEF Buffered, ScrubTypeOK, Table
    <3>3. Sampled(p, e, a)' /\ Sampled(p, e, b)'
      <4>1. CASE e = d
        BY <2>1, <3>1, <3>2, <4>1, Zenon
      <4>2. CASE e # d
        BY <1>6, <3>1, <3>2, <4>2, Zenon
      <4> QED
        BY <4>1, <4>2, Zenon
    <3>4. this'[p][e] = a /\ last'[p][e] = b
      BY <3>2, Zenon
    <3> QED
      BY <3>3, <3>4, Zenon DEF Sampled, Truthful, NotAhead
  <2> QED
    BY <1>3, <2>1, Zenon DEF Buffered
<1>10. ASSUME NEW e \in DOMAIN file' PROVE Truthful(e, file[e])'
  <2>1. PICK r : r = file[e] /\ r \in Record /\ Truthful(e, r)
    BY <1>3, <1>10, Zenon DEF ScrubInv, ScrubTypeOK, Table
  <2>2. Truthful(e, r)'
    BY <1>4, <1>5, <1>10, <2>1, Zenon
  <2>3. file'[e] = r
    BY <2>1, Zenon
  <2> QED
    BY <2>2, <2>3, Zenon
<1>11. \A e \in Dev : kernel'[e] # None => thread'[kernel'[e]][e] = "ioctl"
  <2>1. \A e \in Dev : kernel'[e] # None => kernel'[e] = p
    <3>1. kernel' \in [Dev -> Proc \cup {None}]
      BY Zenon DEF ScrubTypeOK
    <3> QED
      BY <1>1, <3>1, Zenon
  <2>2. \A e \in Dev \ {d} : kernel'[e] # None => thread[kernel[e]][e] = "ioctl"
    BY Zenon DEF ScrubInv
  <2>3. ASSUME NEW e \in Dev, kernel'[e] # None PROVE thread'[p][e] = "ioctl"
    <3>1. CASE e = d
      BY <2>3, <3>1, Zenon
    <3>2. CASE e # d
      <4>1. kernel[e] = p /\ thread'[p][e] = thread[p][e]
        BY <2>1, <2>3, <3>2, Zenon
      <4> QED
        BY <2>2, <2>3, <3>2, <4>1, Zenon
    <3> QED
      BY <3>1, <3>2, Zenon
  <2> QED
    BY <2>1, <2>3, Zenon
<1> QED
  BY <1>1, <1>2, <1>7, <1>8, <1>9, <1>10, <1>11, Zenon DEF ScrubInv

(* Where the thread of a device is                                         *)
LEMMA ThreadAt ==
  ASSUME ScrubInv, NEW p \in Proc, NEW d \in Dev, thread[p][d] \in {"start", "ioctl", "return"}
  PROVE  /\ pc[p] = "run" /\ d \in DOMAIN sp[p] /\ sp[p][d] \in Progress
         /\ has[p].record => Planned(p, d) /\ Running(p, d)
<1>1. InTime(p) /\ Scrubbing(p) /\ ScrubTypeOK
  BY Zenon DEF ScrubInv
<1>2. pc[p] = "run" /\ d \in DOMAIN sp[p]
  BY <1>1, Zenon DEF InTime
<1> QED
  BY <1>1, <1>2, Zenon DEF Scrubbing, ScrubTypeOK, Table

(* An ioctl that was refused leaves the record where it was.               *)
LEMMA RefuseStep ==
  ASSUME OneCommand, ScrubInv, NEW p \in Proc, NEW d \in Dev, NEW why \in Results,
         CallIoctl(p, d), Refuse(p, d, why)
  PROVE  ScrubInv'
<1>1. thread[p][d] = "start"
  BY Zenon DEF CallIoctl
<1>2. /\ pc[p] = "run" /\ d \in DOMAIN sp[p] /\ sp[p][d] \in Progress
      /\ has[p].record => Planned(p, d) /\ Running(p, d)
  BY <1>1, ThreadAt, Zenon
<1>3. ScrubTypeOK /\ ScrubTypeOK'
  BY <1>2, ThreadType, Zenon DEF ScrubInv
<1>4. /\ UNCHANGED <<file, opt, has, pc, this, last, prog, early, kernel, pos, covered, resumes>>
      /\ thread' = [thread EXCEPT ![p][d] = "return"]
  BY Zenon DEF CallIoctl, threadFrame, progVars, Refuse, kernelVars
<1>5. /\ thread'[p][d] = "return" /\ \A e \in Dev \ {d} : thread'[p][e] = thread[p][e]
  <2>1. thread \in [Proc -> [Dev -> {"none", "start", "ioctl", "return", "done"}]]
    BY <1>3, Zenon DEF ScrubTypeOK
  <2> QED
    BY <1>4, <2>1, Zenon
<1>6. /\ SameTasks(p)
      /\ \A e \in DOMAIN sp[p] \ {d} : sp'[p][e] = sp[p][e]
      /\ sp'[p][d].p.canceled
      /\ sp'[p][d].p.last = sp[p][d].p.last /\ sp'[p][d].p.finished = sp[p][d].p.finished
  BY <1>2, <1>3, RefuseShape, Zenon
<1>7. SameTask(sp[p][d], sp'[p][d]) /\ sp'[p][d] \in Progress
  BY <1>2, <1>6, Zenon DEF SameTasks, Table
<1>8. covered'[d] \subseteq 0 .. Size - 1
  BY <1>3, Zenon DEF ScrubTypeOK
<1>9. /\ \A r : Truthful(d, r) => Truthful(d, r)'
      /\ Planned(p, d) => Planned(p, d)'
      /\ \A b : Sampled(p, d, b) => Sampled(p, d, b)'
  BY <1>1, <1>4, <1>5, <1>7, <1>8, Grow, Zenon
<1>11. ASSUME has[p].record PROVE Running(p, d)'
  <2>1. ~sp[p][d].skip /\ sp[p][d].p.last = 0
    BY <1>1, <1>2, <1>11 DEF Running, Zero
  <2>2. PICK y : y = sp'[p][d] /\ y \in Progress
    BY <1>7, Zenon
  <2>3. /\ y.resumed = <<>> => ResumedStats(y).last = 0
        /\ y.resumed # <<>> => ResumedStats(y).last = y.resumed[1].last
    <3>1. ~y.skip /\ y.p.last = 0
      BY <1>6, <1>7, <2>1, <2>2, Zenon DEF SameTask
    <3> QED
      BY <2>2, <3>1, StatsAtZero, Zenon
  <2>4. NotAhead(d, ResumedStats(y))'
    BY <1>2, <1>4, <1>7, <1>11, <2>2, <2>3 DEF NotAhead, Planned, SameTask
  <2>5. NotAhead(d, ResumedStats(sp[p][d]))'
    BY <2>2, <2>4, Zenon DEF NotAhead, ResumedStats
  <2> QED
    BY <1>5, <1>6, <1>7, <2>1, <2>5, Zenon DEF Running, SameTask
<1>12. \A r \in Record : d \in DOMAIN file /\ r = file[d] => Truthful(d, r)'
  BY <1>9, Zenon DEF ScrubInv
<1>13. kernel'[d] = None
  <2>1. ASSUME kernel[d] # None PROVE FALSE
    <3>1. kernel[d] = p
      BY <1>3, <2>1, ZenonT(60) DEF ScrubTypeOK, OneCommand
    <3> QED
      BY <1>1, <2>1, <3>1, Zenon DEF ScrubInv
  <2> QED
    BY <1>4, <2>1, Zenon
<1> QED
  BY <1>2, <1>3, <1>4, <1>5, <1>6, <1>7, <1>9, <1>11, <1>12, <1>13, OneDevice, Zenon DEF SameTasks

(* A scrub that starts does so where the record says, and the record does  *)
(* not say finished.                                                       *)
LEMMA StartStep ==
  ASSUME OneCommand, ScrubInv, NEW p \in Proc, NEW d \in Dev, CallIoctl(p, d), Start(p, d)
  PROVE  ScrubInv'
<1>1. thread[p][d] = "start"
  BY Zenon DEF CallIoctl
<1>2. /\ pc[p] = "run" /\ d \in DOMAIN sp[p] /\ sp[p][d] \in Progress
      /\ has[p].record => Planned(p, d) /\ Running(p, d)
  BY <1>1, ThreadAt, Zenon
<1>3. ScrubTypeOK /\ ScrubTypeOK'
  BY <1>2, ThreadType, Zenon DEF ScrubInv
<1>4. UNCHANGED <<file, opt, has, pc, this, last, prog, early, sp>>
  BY Zenon DEF CallIoctl, threadFrame, progVars, Start
<1>5. /\ thread'[p][d] = "ioctl" /\ kernel'[d] = p
      /\ pos'[d] = IF sp[p][d].start > Size THEN Size ELSE sp[p][d].start
      /\ \A e \in Dev \ {d} :
           /\ thread'[p][e] = thread[p][e] /\ covered'[e] = covered[e]
           /\ resumes'[e] = resumes[e] /\ pos'[e] = pos[e] /\ kernel'[e] = kernel[e]
  <2>1. /\ thread'[p][d] = "ioctl"
        /\ \A e \in Dev \ {d} : thread'[p][e] = thread[p][e]
    <3>1. /\ thread \in [Proc -> [Dev -> {"none", "start", "ioctl", "return", "done"}]]
          /\ thread' = [thread EXCEPT ![p][d] = "ioctl"]
      BY <1>3, Zenon DEF Start, ScrubTypeOK
    <3> QED
      BY <3>1, Zenon
  <2>2. kernel'[d] = p /\ \A e \in Dev \ {d} : kernel'[e] = kernel[e]
    BY <1>3, ZenonT(60) DEF Start, ScrubTypeOK
  <2>3. /\ pos'[d] = IF sp[p][d].start > Size THEN Size ELSE sp[p][d].start
        /\ \A e \in Dev \ {d} : pos'[e] = pos[e]
    BY <1>3, ZenonT(60) DEF Start, ScrubTypeOK
  <2>4. \A e \in Dev \ {d} : covered'[e] = covered[e] /\ resumes'[e] = resumes[e]
    BY <1>3, ZenonT(60) DEF Start, ScrubTypeOK
  <2> QED
    BY <2>1, <2>2, <2>3, <2>4, Zenon
<1>6. /\ covered'[d] = IF opt[p].resume \/ ~has[p].record THEN covered[d] ELSE {}
      /\ resumes'[d] = IF ~has[p].record THEN resumes[d]
                       ELSE IF opt[p].resume THEN resumes[d] + 1 ELSE 0
  BY <1>3, ZenonT(60) DEF Start, ScrubTypeOK
<1>7. resumes[d] \in Nat /\ sp[p][d].start \in Nat /\ Size \in Nat
  BY <1>2, <1>3, ScrubAssumption, Zenon DEF ScrubTypeOK, Progress
<1>8. SameTask(sp[p][d], sp'[p][d])
  BY <1>4, Zenon DEF SameTask
<1>9. ASSUME ~has[p].record PROVE ScrubInv'
  <2>1. \A r \in Record : d \in DOMAIN file /\ r = file[d] => Truthful(d, r)'
    BY <1>4, <1>6, <1>9, Zenon DEF ScrubInv, Truthful, NotAhead
  <2> QED
    BY <1>2, <1>3, <1>4, <1>5, <1>8, <1>9, <2>1, OneDevice, Zenon
<1>10. ASSUME has[p].record PROVE ScrubInv'
  <2>1. /\ ~sp[p][d].skip /\ sp[p][d].p = Zero
        /\ d \in DOMAIN file /\ ~file[d].finished /\ (opt[p].resume \/ file[d].last = 0)
    BY <1>1, <1>2, <1>10, Zenon DEF Running
  <2>2. /\ opt[p].resume => resumes'[d] > 0
        /\ ~opt[p].resume => resumes'[d] = 0 /\ sp[p][d].resumed = <<>> /\ sp[p][d].start = 0
    <3>1. resumes'[d] = IF opt[p].resume THEN resumes[d] + 1 ELSE 0
      BY <1>6, <1>10, Zenon
    <3>2. ~opt[p].resume => sp[p][d].resumed = <<>> /\ sp[p][d].start = 0
      BY <1>2, <1>10, Zenon DEF Planned
    <3> QED
      BY <1>7, <3>1, <3>2
  <2>3. Planned(p, d)'
    <3>1. CASE opt[p].resume
      <4>1. sp[p][d].resumed # <<>> /\ sp[p][d].start = sp[p][d].resumed[1].last
        BY <1>2, <1>10, <2>1, <3>1, Zenon DEF Planned
      <4> QED
        BY <1>4, <2>1, <2>2, <3>1, <4>1 DEF Planned, NotAhead
    <3>2. CASE ~opt[p].resume
      BY <1>4, <2>1, <2>2, <3>2, Zenon DEF Planned
    <3> QED
      BY <3>1, <3>2, Zenon
  <2>4. ASSUME resumes'[d] <= 1 PROVE 0 .. pos'[d] - 1 \subseteq covered'[d]
    <3>1. CASE opt[p].resume
      <4>1. resumes[d] = 0 /\ covered'[d] = covered[d]
        BY <1>6, <1>7, <1>10, <2>4, <3>1
      <4>2. sp[p][d].resumed # <<>> /\ sp[p][d].start = sp[p][d].resumed[1].last
        BY <1>2, <1>10, <2>1, <3>1, Zenon DEF Planned
      <4>3. 0 .. sp[p][d].start - 1 \subseteq covered[d]
        BY <1>2, <1>10, <4>1, <4>2, Zenon DEF Planned, NotAhead
      <4>4. pos'[d] \in Nat /\ pos'[d] <= sp[p][d].start
        BY <1>5, <1>7
      <4> QED
        BY <1>7, <4>1, <4>3, <4>4
    <3>2. CASE ~opt[p].resume
      <4>1. pos'[d] = 0
        BY <1>5, <1>7, <2>2, <3>2
      <4> QED
        BY <4>1
    <3> QED
      BY <3>1, <3>2, Zenon
  <2>5. Running(p, d)'
    BY <1>4, <1>5, <2>1, <2>2, <2>4 DEF Running, Started
  <2>6. ASSUME NEW r \in Record, d \in DOMAIN file, r = file[d] PROVE Truthful(d, r)'
    BY <2>1, <2>2, <2>6 DEF Truthful, NotAhead
  <2>7. ASSUME NEW b \in Progress, Sampled(p, d, b) PROVE Sampled(p, d, b)'
    <3>1. b.p = Zero /\ b.skip = sp[p][d].skip /\ b.resumed = sp[p][d].resumed
      BY <1>1, <2>7, Zenon DEF Sampled
    <3>2. ~ResumedStats(b).finished
      BY <3>1, StatsFields DEF Zero
    <3>3. NotAhead(d, ResumedStats(b))'
      <4>1. CASE opt[p].resume
        BY <2>2, <4>1 DEF NotAhead
      <4>2. CASE ~opt[p].resume
        <5>1. ResumedStats(b).last = 0
          BY <2>2, <3>1, <4>2, StatsFields DEF Zero
        <5> QED
          BY <5>1 DEF NotAhead
      <4> QED
        BY <4>1, <4>2, Zenon
    <3> QED
      BY <1>4, <1>5, <3>1, <3>2, <3>3, Zenon DEF Sampled, Truthful
  <2> QED
    BY <1>2, <1>3, <1>4, <1>5, <1>8, <2>3, <2>5, <2>6, <2>7, OneDevice, Zenon
<1> QED
  BY <1>9, <1>10, Zenon

(* A thread that is through sets its flag; the result is there before.     *)
LEMMA FinishStep ==
  ASSUME OneCommand, ScrubInv, NEW p \in Proc, NEW d \in Dev, FinishThread(p, d)
  PROVE  ScrubInv'
<1>1. thread[p][d] = "return"
  BY Zenon DEF FinishThread
<1>2. /\ pc[p] = "run" /\ d \in DOMAIN sp[p] /\ sp[p][d] \in Progress
      /\ has[p].record => Planned(p, d) /\ Running(p, d)
  BY <1>1, ThreadAt, Zenon
<1>3. ScrubTypeOK /\ ScrubTypeOK'
  BY <1>2, ThreadType, Zenon DEF ScrubInv
<1>4. /\ UNCHANGED <<file, opt, has, pc, this, last, prog, early, kernel, pos, covered, resumes>>
      /\ thread' = [thread EXCEPT ![p][d] = "done"]
  BY Zenon DEF FinishThread, threadFrame, progVars, kernelVars
<1>5. /\ thread'[p][d] = "done" /\ \A e \in Dev \ {d} : thread'[p][e] = thread[p][e]
  <2>1. thread \in [Proc -> [Dev -> {"none", "start", "ioctl", "return", "done"}]]
    BY <1>3, Zenon DEF ScrubTypeOK
  <2> QED
    BY <1>4, <2>1, Zenon
<1>6. /\ SameTasks(p)
      /\ \A e \in DOMAIN sp[p] \ {d} : sp'[p][e] = sp[p][e]
      /\ sp'[p][d].p.finished
      /\ sp'[p][d].p.last = sp[p][d].p.last /\ sp'[p][d].p.canceled = sp[p][d].p.canceled
  BY <1>2, <1>3, FinishShape, Zenon
<1>7. SameTask(sp[p][d], sp'[p][d]) /\ sp'[p][d] \in Progress
  BY <1>2, <1>6, Zenon DEF SameTasks, Table
<1>8. covered'[d] \subseteq 0 .. Size - 1
  BY <1>3, Zenon DEF ScrubTypeOK
<1>9. /\ \A r : Truthful(d, r) => Truthful(d, r)'
      /\ Planned(p, d) => Planned(p, d)'
      /\ \A b : Sampled(p, d, b) => Sampled(p, d, b)'
  BY <1>1, <1>4, <1>5, <1>7, <1>8, Grow, Zenon
<1>10. ASSUME has[p].record PROVE Running(p, d)'
  <2>1. /\ ~sp[p][d].skip /\ NotAhead(d, ResumedStats(sp[p][d]))
        /\ ~sp[p][d].p.canceled /\ resumes[d] <= 1 => covered[d] = 0 .. Size - 1
    BY <1>1, <1>2, <1>10, Zenon DEF Running
  <2>2. PICK x, y : x = sp[p][d] /\ x \in Progress /\ y = sp'[p][d] /\ y \in Progress
    BY <1>2, <1>7, Zenon
  <2>3. ResumedStats(y).last = ResumedStats(x).last
    BY <1>6, <1>7, <2>2, SameLast, Zenon
  <2>4. NotAhead(d, ResumedStats(y))'
    BY <1>4, <2>1, <2>2, <2>3, Zenon DEF NotAhead
  <2>5. NotAhead(d, ResumedStats(sp[p][d]))'
    BY <2>2, <2>4, Zenon DEF NotAhead, ResumedStats
  <2> QED
    BY <1>4, <1>5, <1>6, <1>7, <2>1, <2>5, Zenon DEF Running, SameTask
<1>11. \A r \in Record : d \in DOMAIN file /\ r = file[d] => Truthful(d, r)'
  BY <1>9, Zenon DEF ScrubInv
<1>12. kernel'[d] = None
  <2>1. ASSUME kernel[d] # None PROVE FALSE
    <3>1. kernel[d] = p
      BY <1>3, <2>1, ZenonT(60) DEF ScrubTypeOK, OneCommand
    <3> QED
      BY <1>1, <2>1, <3>1, Zenon DEF ScrubInv
  <2> QED
    BY <1>4, <2>1, Zenon
<1> QED
  BY <1>2, <1>3, <1>4, <1>5, <1>6, <1>7, <1>9, <1>10, <1>11, <1>12, OneDevice, Zenon DEF SameTasks

----------------------------------------------------------------------------
(* The kernel *)

(* The kernel scrubs what it passes.                                       *)
LEMMA KernelStep ==
  ASSUME OneCommand, ScrubInv, NEW d \in Dev, KernelScrub(d)
  PROVE  ScrubInv'
<1>1. PICK p \in Proc : kernel[d] = p /\ thread[p][d] = "ioctl"
  <2>1. kernel[d] \in Proc \cup {None} /\ kernel[d] # None
    BY Zenon DEF KernelScrub, ScrubInv, ScrubTypeOK
  <2>2. kernel[d] # None => thread[kernel[d]][d] = "ioctl"
    BY Zenon DEF ScrubInv
  <2> QED
    BY <2>1, <2>2, Zenon
<1>2. /\ pc[p] = "run" /\ d \in DOMAIN sp[p] /\ sp[p][d] \in Progress
      /\ has[p].record => Planned(p, d) /\ Running(p, d)
  BY <1>1, ThreadAt, Zenon
<1>3. ScrubTypeOK /\ ScrubTypeOK'
  BY KernelType, Zenon DEF ScrubInv
<1>4. UNCHANGED <<file, opt, has, pc, this, last, prog, early, kernel, resumes, sp, thread>>
  BY Zenon DEF KernelScrub, threadFrame, progVars
<1>5. /\ covered'[d] = covered[d] \cup {pos[d]} /\ pos'[d] = pos[d] + 1
      /\ \A e \in Dev \ {d} : covered'[e] = covered[e] /\ pos'[e] = pos[e]
  BY <1>3, Zenon DEF KernelScrub, ScrubTypeOK
<1>6. SameTask(sp[p][d], sp'[p][d])
  BY <1>4, Zenon DEF SameTask
<1>7. covered'[d] \subseteq 0 .. Size - 1 /\ pos[d] \in Nat
  <2>1. covered'[d] \in SUBSET (0 .. Size - 1) /\ pos[d] \in 0 .. Size
    BY <1>3, Zenon DEF ScrubTypeOK
  <2> QED
    BY <2>1, ScrubAssumption
<1>8. /\ \A r : Truthful(d, r) => Truthful(d, r)'
      /\ Planned(p, d) => Planned(p, d)'
      /\ \A b : Sampled(p, d, b) => Sampled(p, d, b)'
  BY <1>4, <1>5, <1>6, <1>7, Grow, Zenon
<1>9. ASSUME has[p].record PROVE Running(p, d)'
  <2>1. /\ ~sp[p][d].skip /\ sp[p][d].p = Zero /\ Started(p, d)
        /\ resumes[d] <= 1 => 0 .. pos[d] - 1 \subseteq covered[d]
    BY <1>1, <1>2, <1>9, Zenon DEF Running
  <2>2. resumes'[d] <= 1 => 0 .. pos'[d] - 1 \subseteq covered'[d]
    BY <1>4, <1>5, <1>7, <2>1
  <2> QED
    BY <1>1, <1>4, <2>1, <2>2, Zenon DEF Running, Started
<1>10. \A r \in Record : d \in DOMAIN file /\ r = file[d] => Truthful(d, r)'
  BY <1>8, Zenon DEF ScrubInv
<1> QED
  BY <1>1, <1>2, <1>3, <1>4, <1>5, <1>6, <1>8, <1>9, <1>10, OneDevice, Zenon

(* What a return does besides                                              *)
LEMMA ReturnFrame ==
  ASSUME NEW p \in Proc, NEW D, NEW why, Return(D, why)
  PROVE  /\ UNCHANGED <<pos, covered, resumes>>
         /\ \A e \in Dev : thread'[p][e] = IF e \in D /\ kernel[e] = p THEN "return"
                                           ELSE thread[p][e]
         /\ \A e \in Dev : kernel'[e] = IF e \in D THEN None ELSE kernel[e]
<1>1. UNCHANGED <<pos, covered, resumes>>
  BY Zenon DEF Return
<1>2. \A e \in Dev : kernel'[e] = IF e \in D THEN None ELSE kernel[e]
  BY Zenon DEF Return
<1>3. \A e \in Dev : thread'[p][e] = IF e \in D /\ kernel[e] = p THEN "return" ELSE thread[p][e]
  BY Zenon DEF Return
<1> QED
  BY <1>1, <1>2, <1>3, Zenon

(* The ioctl returns on some devices, because it is through or because it  *)
(* was cancelled.                                                          *)
LEMMA ReturnStep ==
  ASSUME OneCommand, ScrubInv, ScrubTypeOK', NEW p \in Proc, NEW D \in SUBSET Dev,
         NEW why \in Results,
         \E e \in Dev : kernel[e] # None,
         why = "ok" => \A e \in D : pos[e] = Size,
         Return(D, why), threadFrame
  PROVE  ScrubInv'
<1>1. ScrubTypeOK /\ \A q \in Proc : q = p
  BY Zenon DEF ScrubInv, OneCommand
<1>2. UNCHANGED <<file, opt, has, pc, this, last, prog, early, pos, covered, resumes>>
  BY ReturnFrame, Zenon DEF threadFrame, progVars
<1>3. \A e \in Dev : thread'[p][e] = IF e \in D /\ kernel[e] = p THEN "return" ELSE thread[p][e]
  BY ReturnFrame
<1>4. /\ SameTasks(p)
      /\ \A e \in DOMAIN sp[p] :
           IF e \in D /\ kernel[e] = p
           THEN /\ sp'[p][e].p.last = pos[e]
                /\ sp'[p][e].p.canceled <=> why # "ok"
                /\ sp'[p][e].p.finished = sp[p][e].p.finished
           ELSE sp'[p][e] = sp[p][e]
  BY <1>1, ReturnShape
<1>5. \A e \in Dev : kernel[e] = p => thread[p][e] = "ioctl"
  BY <1>1, ScrubAssumption, Zenon DEF ScrubInv
<1>6. Preparing(p) /\ Scrubbing(p) /\ InTime(p) /\ Buffered(p) /\ Ended(p)
  BY Zenon DEF ScrubInv
<1>7. ASSUME NEW e \in DOMAIN sp[p]
      PROVE  /\ e \in Dev /\ SameTask(sp[p][e], sp'[p][e])
             /\ sp[p][e] \in Progress /\ sp'[p][e] \in Progress
             /\ \A r : Truthful(e, r) => Truthful(e, r)'
             /\ Planned(p, e) => Planned(p, e)'
             /\ \A b : Sampled(p, e, b) => Sampled(p, e, b)'
  <2>1. /\ e \in Dev /\ SameTask(sp[p][e], sp'[p][e])
        /\ sp[p][e] \in Progress /\ sp'[p][e] \in Progress
    BY <1>1, <1>4 DEF SameTasks, ScrubTypeOK, Table
  <2>2. covered'[e] \subseteq 0 .. Size - 1
    BY <2>1, Zenon DEF ScrubTypeOK
  <2>3. thread'[p][e] = "start" => thread[p][e] = "start"
    BY <1>3, <2>1, Zenon
  <2> QED
    BY <1>2, <2>1, <2>2, <2>3, Grow, Zenon
<1>8. ASSUME NEW e \in DOMAIN sp[p], Planned(p, e), Running(p, e) PROVE Running(p, e)'
  <2>1. CASE e \in D /\ kernel[e] = p
    <3>1. thread[p][e] = "ioctl" /\ thread'[p][e] = "return"
      BY <1>3, <1>5, <1>7, <2>1, Zenon
    <3>2. /\ ~sp[p][e].skip /\ Started(p, e)
          /\ resumes[e] <= 1 => 0 .. pos[e] - 1 \subseteq covered[e]
      BY <1>8, <3>1, Zenon DEF Running
    <3>3. PICK y : y = sp'[p][e] /\ y \in Progress
      BY <1>7, Zenon
    <3>4. /\ y.skip = sp[p][e].skip /\ y.resumed = sp[p][e].resumed /\ y.p.last = pos[e]
          /\ y.p.canceled <=> why # "ok"
      BY <1>4, <1>7, <2>1, <3>3, Zenon DEF SameTask
    <3>5. resumes[e] \in Nat /\ Size \in Nat /\ covered[e] \subseteq 0 .. Size - 1
      BY <1>1, <1>7, ScrubAssumption, Zenon DEF ScrubTypeOK
    <3>6. NotAhead(e, ResumedStats(y))'
      <4>1. ASSUME resumes[e] = 0 PROVE 0 .. ResumedStats(y).last - 1 \subseteq covered[e]
        <5>1. ~opt[p].resume
          BY <3>2, <4>1 DEF Started
        <5>2. y.resumed = <<>>
          BY <1>8, <3>4, <5>1, Zenon DEF Planned
        <5>3. ResumedStats(y).last = pos[e]
          BY <3>3, <3>4, <5>2, StatsFields, Zenon
        <5> QED
          BY <3>2, <4>1, <5>3
      <4> QED
        BY <1>2, <4>1, Zenon DEF NotAhead
    <3>7. NotAhead(e, ResumedStats(sp[p][e]))'
      BY <3>3, <3>6, Zenon DEF NotAhead, ResumedStats
    <3>8. ~y.p.canceled /\ resumes[e] <= 1 => covered[e] = 0 .. Size - 1
      <4>1. ASSUME ~y.p.canceled, resumes[e] <= 1 PROVE 0 .. Size - 1 \subseteq covered[e]
        <5>1. why = "ok"
          BY <3>4, <4>1, Zenon
        <5>2. pos[e] = Size
          BY <2>1, <5>1, Zenon
        <5> QED
          BY <3>2, <4>1, <5>2, Zenon
      <4>2. 0 .. Size - 1 \subseteq covered[e] => covered[e] = 0 .. Size - 1
        BY <3>5, Zenon
      <4> QED
        BY <4>1, <4>2, Zenon
    <3> QED
      BY <1>2, <3>1, <3>2, <3>3, <3>4, <3>7, <3>8, Zenon DEF Running
  <2>2. CASE ~(e \in D /\ kernel[e] = p)
    <3>1. sp'[p][e] = sp[p][e] /\ thread'[p][e] = thread[p][e]
      BY <1>3, <1>4, <1>7, <2>2, Zenon
    <3> QED
      BY <1>2, <1>8, <3>1, Local, Zenon
  <2> QED
    BY <2>1, <2>2, Zenon
<1>9. DOMAIN sp'[p] = DOMAIN sp[p]
  BY <1>4, Zenon DEF SameTasks
<1>10. pc[p] = "run" /\ pc'[p] = "run"
  <2>1. PICK e \in Dev : kernel[e] # None
    BY Zenon
  <2>2. kernel[e] \in Proc \cup {None}
    BY <1>1, Zenon DEF ScrubTypeOK
  <2>3. thread[p][e] = "ioctl"
    BY <1>1, <1>5, <2>1, <2>2, Zenon
  <2>4. pc[p] = "run"
    BY <1>6, <2>3, Zenon DEF InTime
  <2> QED
    BY <1>2, <2>4, Zenon
<1>11. Preparing(p)' /\ Ended(p)'
  BY <1>10, Zenon DEF Preparing, Ended, Before
<1>12. Scrubbing(p)'
  BY <1>2, <1>6, <1>7, <1>8, <1>9, Zenon DEF Scrubbing
<1>13. InTime(p)'
  <2>1. \A e \in Dev : kernel[e] = p => e \in DOMAIN sp[p]
    BY <1>5, <1>6, Zenon DEF InTime
  <2> QED
    BY <1>2, <1>3, <1>6, <1>9, <1>10, <2>1, Zenon DEF InTime
<1>14. Buffered(p)'
  <2>1. ASSUME prog[p] \in {"poll", "write"}, has[p].record, NEW e \in DOMAIN sp[p]
        PROVE  Sampled(p, e, this[p][e])' /\ Sampled(p, e, last[p][e])'
    <3>1. PICK a, b : a = this[p][e] /\ b = last[p][e] /\ Sampled(p, e, a) /\ Sampled(p, e, b)
      BY <1>6, <2>1, Zenon DEF Buffered
    <3>2. Sampled(p, e, a)' /\ Sampled(p, e, b)'
      BY <1>7, <3>1, Zenon
    <3>3. this'[p][e] = a /\ last'[p][e] = b
      BY <1>2, <3>1, Zenon
    <3> QED
      BY <3>2, <3>3, Zenon DEF Sampled, Truthful, NotAhead
  <2> QED
    BY <1>2, <1>6, <1>9, <2>1, Zenon DEF Buffered
<1>15. ASSUME NEW e \in DOMAIN file' PROVE Truthful(e, file[e])'
  <2>1. PICK r : r = file[e] /\ Truthful(e, r)
    BY <1>2, <1>15, Zenon DEF ScrubInv
  <2>2. Truthful(e, r)'
    BY <1>2, <2>1, Zenon DEF Truthful, NotAhead
  <2> QED
    BY <1>2, <2>1, <2>2, Zenon
<1>16. \A e \in Dev : kernel'[e] # None => thread'[kernel'[e]][e] = "ioctl"
  <2>1. \A e \in Dev : kernel'[e] # None => e \notin D /\ kernel'[e] = kernel[e] /\ kernel[e] = p
    <3>1. \A e \in Dev : kernel[e] \in Proc \cup {None}
      BY <1>1, Zenon DEF ScrubTypeOK
    <3>2. \A e \in Dev : kernel'[e] = IF e \in D THEN None ELSE kernel[e]
      BY ReturnFrame, Zenon
    <3> QED
      BY <1>1, <3>1, <3>2, Zenon
  <2> QED
    BY <1>3, <1>5, <2>1, Zenon
<1> QED
  BY <1>1, <1>11, <1>12, <1>13, <1>14, <1>15, <1>16, Zenon DEF ScrubInv

----------------------------------------------------------------------------
(* The progress thread *)

(* A step of the progress thread that writes nothing, if its buffers stay  *)
(* true                                                                    *)
LEMMA SampleStep ==
  ASSUME OneCommand, ScrubInv, ScrubTypeOK', NEW p \in Proc,
         UNCHANGED <<file, pc, opt, has, sp, thread, kernel, pos, covered, resumes, faults>>,
         early \subseteq early', pc[p] = "run",
         Buffered(p)'
  PROVE  ScrubInv'
<1>1. \A q \in Proc : q = p
  BY Zenon DEF OneCommand
<1>2. Scrubbing(p) /\ InTime(p) /\ ScrubTypeOK
  BY Zenon DEF ScrubInv
<1>3. Preparing(p)' /\ Ended(p)'
  BY Zenon DEF Preparing, Ended, Before
<1>4. InTime(p)'
  BY <1>2, Zenon DEF InTime
<1>5. Scrubbing(p)'
  <2>1. ASSUME NEW d \in DOMAIN sp[p], Planned(p, d), Running(p, d)
        PROVE  Planned(p, d)' /\ Running(p, d)'
    <3>1. SameTask(sp[p][d], sp'[p][d]) /\ d \in Dev
      BY <1>2, Zenon DEF SameTask, ScrubTypeOK, Table
    <3>2. covered'[d] \subseteq 0 .. Size - 1
      BY <3>1, Zenon DEF ScrubTypeOK
    <3>3. Planned(p, d)'
      BY <2>1, <3>1, <3>2, Grow, Zenon
    <3>4. Running(p, d)'
      BY <2>1, Zenon DEF Running, NotAhead, Started, ResumedStats
    <3> QED
      BY <3>3, <3>4, Zenon
  <2> QED
    BY <1>2, <2>1, Zenon DEF Scrubbing
<1>6. \A d \in DOMAIN file' : Truthful(d, file[d])'
  BY Zenon DEF ScrubInv, Truthful, NotAhead
<1>7. \A d \in Dev : kernel'[d] # None => thread'[kernel'[d]][d] = "ioctl"
  BY Zenon DEF ScrubInv
<1> QED
  BY <1>1, <1>3, <1>4, <1>5, <1>6, <1>7, Zenon DEF ScrubInv

(* The buffers begin with nothing but the finished flag; who has that set  *)
(* already is early.                                                       *)
LEMMA InitCycleStep ==
  ASSUME OneCommand, ScrubInv, NEW p \in Proc, InitCycle(p)
  PROVE  ScrubInv'
<1>1. /\ UNCHANGED <<file, pc, opt, has, sp, thread, kernel, pos, covered, resumes, faults>>
      /\ early' = early \cup {d \in Own(p) : sp[p][d].p.finished}
  BY Zenon DEF InitCycle, progFrame, kernelVars, bounds
<1>2. InTime(p) /\ Scrubbing(p) /\ Buffered(p) /\ ScrubTypeOK
  BY Zenon DEF ScrubInv
<1>3. pc[p] = "run"
  BY <1>2, Zenon DEF InTime, InitCycle
<1>4. ScrubTypeOK'
  BY <1>2, ProgType, Zenon DEF Buffered
<1> DEFINE buf == [d \in DOMAIN sp[p] |->
                     [sp[p][d] EXCEPT !.p = [Zero EXCEPT !.finished = sp[p][d].p.finished]]]
<1>5. this'[p] = buf /\ last'[p] = buf /\ prog'[p] = "poll"
  BY <1>2, Zenon DEF InitCycle, ScrubTypeOK
<1>6. ASSUME has[p].record, NEW d \in DOMAIN sp[p] PROVE Sampled(p, d, buf[d])'
  <2>1. Planned(p, d) /\ Running(p, d) /\ sp[p][d] \in Progress
    BY <1>2, <1>3, <1>6, Zenon DEF Scrubbing, ScrubTypeOK, Table
  <2>2. PICK x, z : /\ x = sp[p][d] /\ x \in Progress
                    /\ z = [Zero EXCEPT !.finished = x.p.finished]
    BY <2>1, Zenon
  <2>3. x.p \in Record /\ x.p.finished \in BOOLEAN
    BY <2>2, Zenon DEF Progress, Record
  <2>4. /\ z \in Record /\ z.last = 0 /\ z.canceled = FALSE
        /\ z.finished = x.p.finished
    BY <2>2, <2>3, Zenon DEF Zero, Record
  <2>5. PICK b : b = buf[d] /\ b = [x EXCEPT !.p = z]
    BY <2>2, Zenon
  <2>6. b \in Progress /\ b.skip = x.skip /\ b.resumed = x.resumed /\ b.p = z
    BY <2>2, <2>4, <2>5, Zenon DEF Progress
  <2>7. /\ b.resumed = <<>> \/ b.skip => ResumedStats(b).last = 0
        /\ ~(b.resumed = <<>> \/ b.skip) => ResumedStats(b).last = b.resumed[1].last
        /\ ResumedStats(b).finished = x.p.finished
    <3>1. b.p.last = 0 /\ b.p.finished = x.p.finished
      BY <2>4, <2>6, Zenon
    <3>2. ResumedStats(b).finished = b.p.finished
      BY <2>6, StatsFields, Zenon
    <3> QED
      BY <2>6, <3>1, <3>2, StatsAtZero, Zenon
  <2>8. NotAhead(d, ResumedStats(b))
    BY <2>1, <2>2, <2>6, <2>7 DEF NotAhead, Planned
  <2>9. ASSUME x.p.finished, resumes[d] <= 1, d \notin early' PROVE covered[d] = 0 .. Size - 1
    <3>1. d \notin early /\ x.skip
      BY <1>1, <2>2, <2>9, Zenon DEF Own
    <3>2. thread[p][d] = "none"
      BY <2>1, <2>2, <3>1, Zenon DEF Running
    <3>3. x.resumed # <<>>
      BY <2>1, <2>2, <3>2, Zenon DEF Running
    <3>4. x.resumed[1].finished /\ ~x.resumed[1].canceled /\ Truthful(d, x.resumed[1])
      BY <2>1, <2>2, <3>1, <3>3, Zenon DEF Planned
    <3> QED
      BY <2>9, <3>1, <3>4, Zenon DEF Truthful
  <2>10. Truthful(d, ResumedStats(b))'
    <3>1. PICK r : r = ResumedStats(b)
      BY Zenon
    <3>2. Truthful(d, r)'
      BY <1>1, <2>7, <2>8, <2>9, <3>1, Zenon DEF Truthful, NotAhead
    <3> QED
      BY <3>1, <3>2, Zenon
  <2>11. thread'[p][d] = "start" => b.p = Zero
    <3>1. ASSUME thread'[p][d] = "start" PROVE z = Zero
      <4>1. x.p = Zero
        BY <1>1, <2>1, <2>2, <3>1, Zenon DEF Running
      <4>2. x.p.finished = FALSE
        BY <4>1 DEF Zero
      <4> QED
        BY <2>2, <4>2, Zenon DEF Zero
    <3> QED
      BY <2>6, <3>1, Zenon
  <2>12. Sampled(p, d, b)'
    BY <1>1, <2>2, <2>6, <2>10, <2>11, Zenon DEF Sampled
  <2> QED
    BY <1>1, <2>5, <2>12, Zenon DEF Sampled, Truthful, NotAhead
<1>7. Buffered(p)'
  <2>1. DOMAIN this'[p] = DOMAIN sp'[p] /\ DOMAIN last'[p] = DOMAIN sp'[p]
    BY <1>1, <1>5, Zenon
  <2>2. ASSUME has'[p].record, NEW d \in DOMAIN sp'[p]
        PROVE  Sampled(p, d, this[p][d])' /\ Sampled(p, d, last[p][d])'
    <3>1. PICK b : b = buf[d]
      BY Zenon
    <3>2. this'[p][d] = b /\ last'[p][d] = b
      BY <1>5, <3>1, Zenon
    <3> HIDE DEF buf
    <3>3. Sampled(p, d, b)'
      <4>1. Sampled(p, d, buf[d])'
        BY <1>1, <1>6, <2>2, Zenon
      <4>2. b = buf[d]'
        BY <1>1, <3>1, Zenon DEF buf
      <4> QED
        BY <4>1, <4>2, Zenon
    <3> QED
      BY <3>2, <3>3, Zenon
  <2> QED
    BY <1>5, <2>1, <2>2, Zenon DEF Buffered
<1> QED
  BY <1>1, <1>3, <1>4, <1>7, SampleStep, Zenon

(* A sample is as true as what it is taken from.                           *)
LEMMA SampleTrue ==
  ASSUME OneCommand, ScrubInv, NEW p \in Proc, prog[p] = "poll", has[p].record,
         NEW d \in DOMAIN sp[p]
  PROVE  Sampled(p, d, Sample(p, d)) /\ Sampled(p, d, this[p][d])
<1>1. InTime(p) /\ Scrubbing(p) /\ Buffered(p) /\ ScrubTypeOK
  BY Zenon DEF ScrubInv
<1>2. pc[p] = "run"
  BY <1>1, Zenon DEF InTime
<1>3. Planned(p, d) /\ Running(p, d) /\ Sampled(p, d, this[p][d]) /\ Sampled(p, d, last[p][d])
  BY <1>1, <1>2, Zenon DEF Scrubbing, Buffered
<1>4. /\ d \in Dev /\ sp[p][d] \in Progress /\ last[p][d] \in Progress
      /\ resumes[d] \in Nat /\ pos[d] \in Nat
  BY <1>1, ScrubAssumption DEF ScrubTypeOK, Table, Buffered
<1>5. CASE last[p][d].p.finished
  BY <1>3, <1>5, Zenon DEF Sample
<1>6. CASE ~last[p][d].p.finished /\ kernel[d] # None
  <2>1. kernel[d] = p /\ thread[p][d] = "ioctl"
    <3>1. kernel[d] = p
      BY <1>1, <1>4, <1>6, Zenon DEF OneCommand, ScrubTypeOK
    <3> QED
      BY <1>4, <1>6, <3>1, Zenon DEF ScrubInv
  <2>2. /\ ~sp[p][d].skip /\ Started(p, d)
        /\ resumes[d] <= 1 => 0 .. pos[d] - 1 \subseteq covered[d]
    BY <1>3, <2>1, Zenon DEF Running
  <2>3. PICK l, n : l = last[p][d] /\ l \in Progress /\ n = pos[d] /\ n \in Nat
    BY <1>4, Zenon
  <2>4. PICK b : b = Sample(p, d) /\ b = [l EXCEPT !.p.last = n]
    BY <1>6, <2>3, Zenon DEF Sample
  <2>5. /\ b \in Progress /\ b.skip = l.skip /\ b.resumed = l.resumed
        /\ b.p.last = n /\ b.p.finished = l.p.finished
    <3> USE DEF Progress, Record
    <3>1. b \in Progress
      BY <2>3, <2>4
    <3>2. b.skip = l.skip /\ b.resumed = l.resumed
      BY <2>3, <2>4, Zenon
    <3>3. b.p.last = n
      BY <2>3, <2>4
    <3>4. b.p.finished = l.p.finished
      BY <2>3, <2>4
    <3> HIDE DEF Progress, Record
    <3> QED
      BY <3>1, <3>2, <3>3, <3>4, Zenon
  <2>6. ~ResumedStats(b).finished
    BY <1>6, <2>3, <2>5, StatsFields, Zenon
  <2>7. NotAhead(d, ResumedStats(b))
    <3>1. ASSUME resumes[d] = 0 PROVE 0 .. ResumedStats(b).last - 1 \subseteq covered[d]
      <4>1. ~opt[p].resume
        BY <2>2, <3>1 DEF Started
      <4>2. b.resumed = <<>>
        BY <1>3, <2>3, <2>5, <4>1, Zenon DEF Planned, Sampled
      <4>3. ResumedStats(b).last = pos[d]
        BY <2>3, <2>5, <4>2, StatsFields, Zenon
      <4> QED
        BY <2>2, <3>1, <4>3
    <3> QED
      BY <3>1, Zenon DEF NotAhead
  <2>8. Truthful(d, ResumedStats(b))
    BY <2>6, <2>7, Zenon DEF Truthful
  <2>9. Sampled(p, d, b)
    BY <1>3, <2>1, <2>3, <2>5, <2>8, Zenon DEF Sampled
  <2> QED
    BY <1>3, <2>4, <2>9, Zenon
<1>7. CASE ~last[p][d].p.finished /\ kernel[d] = None /\ sp[p][d].p.finished
  <2>1. Sample(p, d) = sp[p][d]
    BY <1>7, Zenon DEF Sample
  <2>2. thread[p][d] \in {"none", "return", "done"}
    <3>1. thread[p][d] \in {"none", "start", "ioctl", "return", "done"}
      <4>1. thread \in [Proc -> [Dev -> {"none", "start", "ioctl", "return", "done"}]]
        BY <1>1, Zenon DEF ScrubTypeOK
      <4> QED
        BY <1>4, <4>1, Zenon
    <3>2. sp[p][d].p # Zero
      <4>1. ~Zero.finished
        BY Zenon DEF Zero
      <4> QED
        BY <1>7, <4>1, Zenon
    <3> QED
      BY <1>3, <3>1, <3>2, Zenon DEF Running
  <2>3. PICK x : x = sp[p][d] /\ x \in Progress
    BY <1>4, Zenon
  <2>4. Truthful(d, ResumedStats(x))
    <3>1. CASE thread[p][d] = "none"
      <4>1. /\ x.skip /\ x.resumed # <<>>
            /\ ~x.p.canceled /\ x.p.last = x.resumed[1].last
        BY <1>3, <2>3, <3>1, Zenon DEF Running
      <4>2. Truthful(d, x.resumed[1]) /\ x.resumed[1].finished /\ ~x.resumed[1].canceled
        BY <1>3, <2>3, <4>1, Zenon DEF Planned
      <4>3. ResumedStats(x).last = x.resumed[1].last
        BY <2>3, <4>1, StatsFields, Zenon
      <4> QED
        BY <4>2, <4>3, Zenon DEF Truthful, NotAhead
    <3>2. CASE thread[p][d] \in {"return", "done"}
      <4>1. /\ NotAhead(d, ResumedStats(x))
            /\ ~x.p.canceled /\ resumes[d] <= 1 => covered[d] = 0 .. Size - 1
        BY <1>3, <2>3, <3>2, Zenon DEF Running
      <4>2. ResumedStats(x).canceled = x.p.canceled
        BY <2>3, StatsFields, Zenon
      <4> QED
        BY <4>1, <4>2, Zenon DEF Truthful
    <3> QED
      BY <2>2, <3>1, <3>2, Zenon
  <2>5. Sampled(p, d, sp[p][d])
    BY <2>2, <2>3, <2>4, Zenon DEF Sampled
  <2> QED
    BY <1>3, <2>1, <2>5, Zenon
<1>8. CASE ~last[p][d].p.finished /\ kernel[d] = None /\ ~sp[p][d].p.finished
  BY <1>3, <1>8, Zenon DEF Sample
<1> QED
  BY <1>5, <1>6, <1>7, <1>8, Zenon

(* A round over the devices                                                *)
LEMMA PollStep ==
  ASSUME OneCommand, ScrubInv, NEW p \in Proc, Poll(p)
  PROVE  ScrubInv'
<1>1. UNCHANGED <<file, pc, opt, has, sp, thread, kernel, pos, covered, resumes, faults, early>>
  BY Zenon DEF Poll, progFrame, kernelVars, bounds
<1>2. InTime(p) /\ Buffered(p) /\ ScrubTypeOK
  BY Zenon DEF ScrubInv
<1>3. pc[p] = "run" /\ prog[p] = "poll"
  BY <1>2, Zenon DEF InTime, Poll
<1>4. ScrubTypeOK'
  BY <1>2, ProgType, Zenon DEF Buffered
<1> DEFINE new == [d \in DOMAIN sp[p] |-> Sample(p, d)]
<1>5. /\ this'[p] = new
      /\ last'[p] = [d \in DOMAIN new |-> IF new[d].p.finished THEN new[d] ELSE this[p][d]]
      /\ prog'[p] = IF has[p].record THEN "write" ELSE "poll"
  BY <1>2, Zenon DEF Poll, ScrubTypeOK
<1>6. Buffered(p)'
  <2>1. DOMAIN this'[p] = DOMAIN sp'[p] /\ DOMAIN last'[p] = DOMAIN sp'[p]
    BY <1>1, <1>5, Zenon
  <2>2. ASSUME has[p].record, NEW d \in DOMAIN sp[p]
        PROVE  Sampled(p, d, this[p][d])' /\ Sampled(p, d, last[p][d])'
    <3>1. PICK a, b : a = Sample(p, d) /\ b = this[p][d]
      BY Zenon
    <3>2. Sampled(p, d, a) /\ Sampled(p, d, b)
      BY <1>3, <2>2, <3>1, SampleTrue, Zenon
    <3>3. Sampled(p, d, a)' /\ Sampled(p, d, b)'
      BY <1>1, <3>2, Local, Zenon
    <3>4. this'[p][d] = a /\ last'[p][d] \in {a, b}
      BY <1>5, <3>1, Zenon
    <3> QED
      BY <3>3, <3>4, Zenon
  <2> QED
    BY <1>1, <1>5, <2>1, <2>2, Zenon DEF Buffered
<1> QED
  BY <1>1, <1>3, <1>4, <1>6, SampleStep, Zenon

(* What the progress thread writes is true, and of a device whose scrub    *)
(* has not begun it says nothing.                                          *)
LEMMA WriteStep ==
  ASSUME OneCommand, ScrubInv, NEW p \in Proc, WriteProgress(p)
  PROVE  ScrubInv'
<1>1. UNCHANGED <<pc, opt, has, sp, thread, kernel, pos, covered, resumes, early, this, last>>
  BY Zenon DEF WriteProgress, progFrame, kernelVars
<1>2. InTime(p) /\ Scrubbing(p) /\ Buffered(p) /\ ScrubTypeOK /\ \A q \in Proc : q = p
  BY Zenon DEF ScrubInv, OneCommand
<1>3. pc[p] = "run" /\ prog[p] = "write" /\ prog'[p] \in {"poll", "dead"}
  BY <1>2, Zenon DEF InTime, WriteProgress, ScrubTypeOK
<1>4. ScrubTypeOK'
  BY <1>2, ProgType, Zenon DEF Buffered
<1>5. /\ has[p].record /\ DOMAIN this[p] = DOMAIN sp[p] /\ DOMAIN last[p] = DOMAIN sp[p]
      /\ \A d \in DOMAIN sp[p] : /\ Sampled(p, d, this[p][d]) /\ Sampled(p, d, last[p][d])
                                 /\ Planned(p, d) /\ Running(p, d)
  BY <1>2, <1>3, Zenon DEF Buffered, Scrubbing
<1>6. Preparing(p)' /\ Ended(p)' /\ InTime(p)'
  BY <1>1, <1>2, <1>3, Zenon DEF Preparing, Ended, Before, InTime
<1>7. \A d \in Dev : kernel'[d] # None => thread'[kernel'[d]][d] = "ioctl"
  BY <1>1, Zenon DEF ScrubInv
<1>8. ASSUME NEW d
      PROVE  /\ \A r : Truthful(d, r)' <=> Truthful(d, r)
             /\ Planned(p, d)' <=> Planned(p, d)
             /\ \A b : Sampled(p, d, b)' <=> Sampled(p, d, b)
  <2>1. /\ \A r : Truthful(d, r)' <=> Truthful(d, r)
        /\ \A r : NotAhead(d, r)' <=> NotAhead(d, r)
    BY <1>1, Zenon DEF Truthful, NotAhead
  <2>2. Planned(p, d)' <=> Planned(p, d)
    BY <1>1, <2>1, Zenon DEF Planned
  <2>3. \A b : Sampled(p, d, b)' <=> Sampled(p, d, b)
    BY <1>1, <2>1, Zenon DEF Sampled
  <2> QED
    BY <2>1, <2>2, <2>3, Zenon
<1>9. Buffered(p)'
  BY <1>1, <1>3, <1>5, <1>8, Zenon DEF Buffered
<1>10. CASE file' = file
  <2>1. Scrubbing(p)'
    BY <1>1, <1>2, <1>10, Local, Zenon DEF Scrubbing
  <2>2. \A d \in DOMAIN file' : Truthful(d, file[d])'
    BY <1>8, <1>10, Zenon DEF ScrubInv
  <2> QED
    BY <1>2, <1>4, <1>6, <1>7, <1>9, <2>1, <2>2, Zenon DEF ScrubInv
<1>11. CASE file' = FileOf(this[p])
  <2>1. ASSUME NEW d \in DOMAIN sp[p]
        PROVE  /\ d \in DOMAIN file' /\ file'[d] = ResumedStats(this[p][d])
               /\ this[p][d] \in Progress
    BY <1>2, <1>5, <1>11, Zenon DEF FileOf, ScrubTypeOK, Table
  <2>2. ASSUME NEW d \in DOMAIN file' PROVE Truthful(d, file[d])'
    <3>1. PICK r : r = file'[d]
      BY Zenon
    <3>2. d \in DOMAIN sp[p]
      BY <1>5, <1>11, <2>2, Zenon DEF FileOf
    <3>3. Truthful(d, r)
      BY <1>5, <2>1, <3>1, <3>2, Zenon DEF Sampled
    <3> QED
      BY <1>8, <3>1, <3>3, Zenon
  <2>3. ASSUME NEW d \in DOMAIN sp[p] PROVE Running(p, d)'
    <3>1. CASE thread[p][d] = "start"
      <4>1. this[p][d].p = Zero /\ this[p][d].resumed = sp[p][d].resumed
        BY <1>5, <3>1, Zenon DEF Sampled
      <4>2. ~file'[d].finished
        BY <2>1, <4>1, StatsFields DEF Zero
      <4>3. opt[p].resume \/ file'[d].last = 0
        <5>1. ~opt[p].resume => sp[p][d].resumed = <<>>
          BY <1>5, Zenon DEF Planned
        <5> QED
          BY <2>1, <4>1, <5>1, StatsFields DEF Zero
      <4>4. ~sp[p][d].skip /\ sp[p][d].p = Zero
        BY <1>5, <3>1, Zenon DEF Running
      <4> QED
        BY <1>1, <2>1, <3>1, <4>2, <4>3, <4>4, Zenon DEF Running
    <3>2. CASE thread[p][d] # "start"
      BY <1>1, <1>5, <3>2, Zenon DEF Running, Started, NotAhead, ResumedStats
    <3> QED
      BY <3>1, <3>2, Zenon
  <2>4. Scrubbing(p)'
    BY <1>1, <1>5, <1>8, <2>3, Zenon DEF Scrubbing
  <2> QED
    BY <1>2, <1>4, <1>6, <1>7, <1>9, <2>2, <2>4, Zenon DEF ScrubInv
<1> QED
  BY <1>10, <1>11, Zenon DEF WriteProgress

----------------------------------------------------------------------------
(* The end of a command *)

(* The threads are joined.                                                 *)
LEMMA JoinStep ==
  ASSUME OneCommand, ScrubInv, NEW p \in Proc, JoinThreads(p)
  PROVE  ScrubInv'
<1>0. ScrubTypeOK /\ ScrubTypeOK'
  BY CommandType, Zenon DEF ScrubInv
<1>1. UNCHANGED <<file, opt, has, sp, thread, kernel, pos, covered, resumes, early>>
  BY Zenon DEF JoinThreads, kernelVars
<1>2. /\ pc[p] = "run" /\ pc'[p] = "last" /\ prog'[p] = "joined"
      /\ \A d \in Dev : thread'[p][d] \in {"none", "done"}
  BY <1>0, Zenon DEF JoinThreads, Goto, ScrubTypeOK
<1>3. Scrubbing(p) /\ \A q \in Proc : q = p
  BY Zenon DEF ScrubInv, OneCommand
<1>4. Preparing(p)' /\ Ended(p)' /\ InTime(p)' /\ Buffered(p)'
  BY <1>2, Zenon DEF Preparing, Ended, InTime, Buffered, Before
<1>5. Scrubbing(p)'
  BY <1>1, <1>2, <1>3, Local, Zenon DEF Scrubbing
<1>6. \A d \in DOMAIN file' : Truthful(d, file[d])'
  BY <1>1, Zenon DEF ScrubInv, Truthful, NotAhead
<1>7. \A d \in Dev : kernel'[d] # None => thread'[kernel'[d]][d] = "ioctl"
  BY <1>1, Zenon DEF ScrubInv
<1> QED
  BY <1>0, <1>3, <1>4, <1>5, <1>6, <1>7, Zenon DEF ScrubInv

(* The last record: every device is finished, and what is said of it is    *)
(* true whether or not its thread was early.                               *)
LEMMA LastStep ==
  ASSUME OneCommand, ScrubInv, faults \in Nat, NEW p \in Proc, LastRecord(p)
  PROVE  ScrubInv'
<1>0. ScrubTypeOK /\ ScrubTypeOK'
  BY CommandType, Zenon DEF ScrubInv
<1>1. UNCHANGED <<opt, sp, thread, this, last, prog, kernel, pos, covered, resumes>>
  BY Zenon DEF LastRecord, kernelVars
<1>2. pc[p] = "last" /\ pc'[p] = "exit"
  BY <1>0, Zenon DEF LastRecord, Exit, Goto, ScrubTypeOK
<1>3. InTime(p) /\ Scrubbing(p) /\ \A q \in Proc : q = p
  BY Zenon DEF ScrubInv, OneCommand
<1>4. has'[p].record = has[p].record
  BY <1>0 DEF LastRecord, ScrubTypeOK, Has
<1>5. \A d \in Dev : thread[p][d] \in {"none", "done"}
  BY <1>0, <1>2, <1>3 DEF InTime, ScrubTypeOK
<1>6. prog[p] \notin {"init", "poll", "write"}
  BY <1>2, <1>3, Zenon DEF InTime
<1>7. Preparing(p)' /\ Scrubbing(p)' /\ InTime(p)' /\ Buffered(p)'
  BY <1>1, <1>2, <1>5, <1>6, Zenon DEF Preparing, Scrubbing, InTime, Buffered, Before
<1>8. \A d \in Dev : kernel'[d] # None => thread'[kernel'[d]][d] = "ioctl"
  BY <1>1, Zenon DEF ScrubInv
<1>9. CASE UNCHANGED <<file, early>> /\ (has[p].record => faults' = faults + 1)
  <2>1. Ended(p)'
    <3>1. has'[p].record => faults' # 0
      BY <1>4, <1>9
    <3> QED
      BY <3>1, Zenon DEF Ended
  <2>2. \A d \in DOMAIN file' : Truthful(d, file[d])'
    BY <1>1, <1>9, Zenon DEF ScrubInv, Truthful, NotAhead
  <2> QED
    BY <1>0, <1>3, <1>7, <1>8, <2>1, <2>2, Zenon DEF ScrubInv
<1>10. CASE has[p].record /\ file' = FileOf(sp[p]) /\ early' = early \ Own(p)
  <2>1. ASSUME NEW d \in DOMAIN sp[p]
        PROVE  /\ sp[p][d].p.finished
               /\ \A r : r = ResumedStats(sp[p][d]) => Truthful(d, r)'
    <3>1. Planned(p, d) /\ Running(p, d)
      BY <1>2, <1>3, <1>10, <2>1, Zenon DEF Scrubbing
    <3>2. PICK x : x = sp[p][d] /\ x \in Progress /\ d \in Dev
      BY <1>0, <2>1 DEF ScrubTypeOK, Table
    <3>3. CASE thread[p][d] = "none"
      <4>1. /\ x.skip /\ x.resumed # <<>>
            /\ x.p.finished /\ ~x.p.canceled /\ x.p.last = x.resumed[1].last
        BY <3>1, <3>2, <3>3, Zenon DEF Running
      <4>2. Truthful(d, x.resumed[1]) /\ x.resumed[1].finished /\ ~x.resumed[1].canceled
        BY <3>1, <3>2, <4>1, Zenon DEF Planned
      <4>3. ResumedStats(x).last = x.resumed[1].last
        BY <3>2, <4>1, StatsFields, Zenon
      <4>4. d \in early' <=> d \in early
        BY <1>10, <3>2, <4>1, Zenon DEF Own
      <4>5. ASSUME NEW r, r = ResumedStats(x) PROVE Truthful(d, r)'
        BY <1>1, <4>2, <4>3, <4>4, <4>5, Zenon DEF Truthful, NotAhead
      <4> QED
        BY <3>2, <4>1, <4>5, Zenon
    <3>4. CASE thread[p][d] = "done"
      <4>1. /\ NotAhead(d, ResumedStats(x)) /\ x.p.finished
            /\ ~x.p.canceled /\ resumes[d] <= 1 => covered[d] = 0 .. Size - 1
        BY <3>1, <3>2, <3>4, Zenon DEF Running
      <4>2. ResumedStats(x).canceled = x.p.canceled
        BY <3>2, StatsFields, Zenon
      <4>3. ASSUME NEW r, r = ResumedStats(x) PROVE Truthful(d, r)'
        BY <1>1, <4>1, <4>2, <4>3, Zenon DEF Truthful, NotAhead
      <4> QED
        BY <3>2, <4>1, <4>3, Zenon
    <3> QED
      BY <1>5, <3>2, <3>3, <3>4, Zenon
  <2>2. Ended(p)'
    BY <1>1, <1>10, <2>1, Zenon DEF Ended, FileOf, ResumedStats
  <2>3. ASSUME NEW d \in DOMAIN file' PROVE Truthful(d, file[d])'
    <3>1. PICK r : r = file'[d]
      BY Zenon
    <3>2. d \in DOMAIN sp[p] /\ r = ResumedStats(sp[p][d])
      BY <1>10, <2>3, <3>1, Zenon DEF FileOf
    <3>3. Truthful(d, r)'
      BY <2>1, <3>2, Zenon
    <3> QED
      BY <3>1, <3>3, Zenon
  <2> QED
    BY <1>0, <1>3, <1>7, <1>8, <2>2, <2>3, Zenon DEF ScrubInv
<1> QED
  BY <1>9, <1>10, Zenon DEF LastRecord, Fault

(* A command that is given again, and a machine that was stopped, begin    *)
(* with the status file alone.                                             *)
LEMMA ResetStep ==
  ASSUME OneCommand, ScrubInv, Reboot \/ \E p \in Proc : Again(p)
  PROVE  ScrubInv'
<1>0. ScrubTypeOK /\ ScrubTypeOK'
  BY ResetType, Zenon DEF ScrubInv
<1> PICK P : Reset(P) /\ Proc \subseteq P
  BY Zenon DEF Reboot, Again, OneCommand
<1>1. UNCHANGED <<file, pos, covered, resumes, early>>
  BY Zenon DEF Reset
<1>2. ASSUME NEW p \in Proc
      PROVE  /\ p \in P
             /\ pc'[p] = "idle" /\ thread'[p] = Idle.thread /\ prog'[p] = "none"
  BY Zenon DEF Reset, Idle
<1>3. \A d \in Dev : kernel'[d] = None
  <2>1. CASE Reboot
    BY <2>1, Zenon DEF Reboot
  <2>2. ASSUME NEW p \in Proc, Again(p) PROVE \A d \in Dev : kernel'[d] = None
    <3>1. pc[p] = "exit" /\ kernel' = kernel /\ InTime(p) /\ \A q \in Proc : q = p
      BY <2>2, Zenon DEF Again, ScrubInv, OneCommand
    <3>2. \A d \in Dev : thread[p][d] # "ioctl"
      BY <3>1, Zenon DEF InTime
    <3>3. \A d \in Dev : kernel[d] # None => kernel[d] = p
      BY <1>0, <3>1, ZenonT(60) DEF ScrubTypeOK
    <3> QED
      BY <3>1, <3>2, <3>3, Zenon DEF ScrubInv
  <2> QED
    BY <2>1, <2>2, Zenon
<1>4. \A p \in Proc, d \in Dev : thread'[p][d] = "none"
  BY <1>2, Zenon DEF Idle
<1>5. ASSUME NEW p \in Proc
      PROVE  Preparing(p)' /\ Scrubbing(p)' /\ InTime(p)' /\ Buffered(p)' /\ Ended(p)'
  <2>1. Preparing(p)' /\ Scrubbing(p)' /\ Ended(p)'
    BY <1>2, Zenon DEF Preparing, Scrubbing, Ended, Before
  <2>2. InTime(p)' /\ Buffered(p)'
    BY <1>2, <1>4, Zenon DEF InTime, Buffered
  <2> QED
    BY <2>1, <2>2, Zenon
<1>6. \A d \in DOMAIN file' : Truthful(d, file[d])'
  BY <1>1, Zenon DEF ScrubInv, Truthful, NotAhead
<1> QED
  BY <1>0, <1>3, <1>5, <1>6, Zenon DEF ScrubInv

----------------------------------------------------------------------------
(* The theorems *)

LEMMA ScrubInit == Init => ScrubInv
<1> SUFFICES ASSUME Init PROVE ScrubInv
  BY Zenon
<1>1. Table(NoDevs, Record) /\ Table(NoDevs, Progress)
  BY NoDevsType, Zenon
<1>2. /\ \A p \in Proc : /\ sp[p] = NoDevs /\ this[p] = NoDevs /\ last[p] = NoDevs
                         /\ pc[p] = "idle" /\ prog[p] = "none" /\ thread[p] = Idle.thread
      /\ file = NoDevs /\ DOMAIN NoDevs = {}
  BY Zenon DEF Init, Idle, NoDevs
<1>3. has \in [Proc -> Has] /\ opt \in [Proc -> [resume : BOOLEAN, busy : BOOLEAN]]
  BY Zenon DEF Init, Idle, Has
<1>4. /\ thread \in [Proc -> [Dev -> {"none", "start", "ioctl", "return", "done"}]]
      /\ \A p \in Proc, d \in Dev : thread[p][d] = "none"
  BY Zenon DEF Init, Idle
<1>5. /\ pc \in [Proc -> {"idle", "check", "bind", "unlink", "record", "launch", "run", "last",
                          "exit", "crashed"}]
      /\ prog \in [Proc -> {"none", "init", "poll", "write", "dead", "joined"}]
  BY Zenon DEF Init, Idle
<1>6. /\ kernel \in [Dev -> Proc \cup {None}] /\ pos \in [Dev -> 0 .. Size]
      /\ covered \in [Dev -> SUBSET (0 .. Size - 1)] /\ resumes \in [Dev -> Nat]
      /\ \A d \in Dev : kernel[d] = None
  BY ScrubAssumption DEF Init
<1>7. DOMAIN sp = Proc /\ DOMAIN this = Proc /\ DOMAIN last = Proc
  BY Zenon DEF Init
<1>8. ScrubTypeOK
  <2>1. /\ Table(file, Record)
        /\ \A p \in Proc : /\ Table(sp[p], Progress) /\ Table(this[p], Progress)
                           /\ Table(last[p], Progress)
    BY <1>1, <1>2, Zenon
  <2>2. /\ kernel \in [Dev -> Proc \cup {None}] /\ pos \in [Dev -> 0 .. Size]
        /\ covered \in [Dev -> SUBSET (0 .. Size - 1)] /\ resumes \in [Dev -> Nat]
    BY <1>6, Zenon
  <2>3. thread \in [Proc -> [Dev -> {"none", "start", "ioctl", "return", "done"}]]
    BY <1>4, Zenon
  <2> QED BY <2>1, <2>2, <2>3, <1>3, <1>5, <1>7, Zenon DEF ScrubTypeOK
<1>9. ASSUME NEW p \in Proc
      PROVE  Preparing(p) /\ Scrubbing(p) /\ InTime(p) /\ Buffered(p) /\ Ended(p)
  BY <1>2, <1>4, Zenon DEF Preparing, Scrubbing, InTime, Buffered, Ended, Before
<1> QED
  BY <1>2, <1>6, <1>8, <1>9, Zenon DEF ScrubInv

(* Every step keeps ScrubInv, if there is one command at a time.           *)
LEMMA ScrubStep ==
  ASSUME OneCommand PROVE ScrubInv /\ faults \in Nat /\ [Next]_vars => ScrubInv' /\ faults' \in Nat
<1> SUFFICES ASSUME ScrubInv, faults \in Nat, [Next]_vars PROVE ScrubInv' /\ faults' \in Nat
  BY Zenon
<1>1. faults' \in Nat
  BY FaultsStep, Zenon
<1>2. ASSUME NEW p \in Proc, Check(p) \/ Bind(p) \/ Unlink(p) \/ ParentLeaves(p)
      PROVE  ScrubInv'
  BY <1>2, QuietStep, Zenon
<1>3. ASSUME NEW p \in Proc, NEW d \in Dev, CallIoctl(p, d) PROVE ScrubInv'
  <2>1. (\E why \in Results : Refuse(p, d, why)) \/ Start(p, d)
    BY <1>3, Zenon DEF CallIoctl, Results
  <2> QED
    BY <1>3, <2>1, RefuseStep, StartStep, Zenon
<1>4. ASSUME NEW p \in Proc, Work(p) PROVE ScrubInv'
  BY <1>2, <1>3, <1>4, FirstStep, LaunchStep, JoinStep, LastStep, FinishStep, Zenon DEF Work
<1>5. ASSUME Reboot \/ \E p \in Proc : Again(p) PROVE ScrubInv'
  BY <1>5, ResetStep, Zenon
<1>6. ASSUME NEW p \in Proc, InitCycle(p) \/ Poll(p) \/ WriteProgress(p) PROVE ScrubInv'
  BY <1>6, InitCycleStep, PollStep, WriteStep, Zenon
<1>7. ASSUME NEW D \in SUBSET Dev, NEW why \in Results, \E e \in Dev : kernel[e] # None,
             why = "ok" => \A e \in D : pos[e] = Size,
             (\E d \in Dev : KernelDone(d)) \/ Cancel, Return(D, why), threadFrame
      PROVE  ScrubInv'
  <2>1. PICK p \in Proc : TRUE
    BY <1>7, Zenon DEF ScrubInv, ScrubTypeOK
  <2>2. ScrubTypeOK'
    BY <1>7, <2>1, KernelType, Zenon DEF ScrubInv
  <2> QED
    BY <1>7, <2>1, <2>2, ReturnStep, Zenon
<1>8. "ok" \in Results /\ "canceled" \in Results /\ "ok" # "canceled"
  BY Zenon DEF Results
<1>9. ASSUME NEW d \in Dev, KernelDone(d) PROVE ScrubInv'
  <2>1. /\ {d} \in SUBSET Dev /\ \A e \in {d} : pos[e] = Size
        /\ Return({d}, "ok") /\ threadFrame /\ kernel[d] # None
    BY <1>9, Zenon DEF KernelDone
  <2> QED
    BY <1>7, <1>8, <1>9, <2>1, Zenon
<1>10. ASSUME Cancel PROVE ScrubInv'
  <2>1. PICK D \in SUBSET Dev, why \in Results : Return(D, why) /\ why # "ok"
    BY <1>8, <1>10, Zenon DEF Cancel
  <2>2. threadFrame /\ \E e \in Dev : kernel[e] # None
    BY <1>10, Zenon DEF Cancel, RunningInKernel
  <2> QED
    BY <1>7, <1>10, <2>1, <2>2, Zenon
<1>11. CASE UNCHANGED vars
  <2>1. /\ UNCHANGED <<file, socket, kernel, pos, covered, resumes, pc, status, opt, has, sp>>
        /\ UNCHANGED <<thread, this, last, prog, early, faults>>
    BY <1>11, Zenon DEF vars, kernelVars, progVars, bounds
  <2>2. ScrubTypeOK'
    BY <2>1, Zenon DEF ScrubInv, ScrubTypeOK
  <2>3. \A p, e : /\ Planned(p, e)' <=> Planned(p, e)
                  /\ Running(p, e)' <=> Running(p, e)
                  /\ \A b : Sampled(p, e, b)' <=> Sampled(p, e, b)
                  /\ \A r : Truthful(e, r)' <=> Truthful(e, r)
    BY <2>1, Local, Zenon
  <2>4. ASSUME NEW p \in Proc
        PROVE  Preparing(p)' /\ Scrubbing(p)' /\ InTime(p)' /\ Buffered(p)' /\ Ended(p)'
    <3>1. Preparing(p) /\ Scrubbing(p) /\ InTime(p) /\ Buffered(p) /\ Ended(p)
      BY Zenon DEF ScrubInv
    <3>2. Preparing(p)' /\ Ended(p)'
      BY <2>1, <2>3, <3>1, Zenon DEF Preparing, Ended, FileOf
    <3>3. Scrubbing(p)' /\ InTime(p)'
      BY <2>1, <2>3, <3>1, Zenon DEF Scrubbing, InTime
    <3>4. Buffered(p)'
      BY <2>1, <2>3, <3>1, Zenon DEF Buffered
    <3> QED
      BY <3>2, <3>3, <3>4, Zenon
  <2> QED
    BY <2>1, <2>2, <2>3, <2>4, Zenon DEF ScrubInv
<1> QED
  BY <1>1, <1>2, <1>4, <1>5, <1>6, <1>9, <1>10, <1>11, BeginStep, KernelStep, Zenon DEF Next

(* ScrubInv is inductive and holds in every reachable state, for any       *)
(* devices, sizes and numbers of mishaps, if there is one command at a     *)
(* time.                                                                   *)
THEOREM ScrubInvariance == ASSUME OneCommand PROVE Spec => []ScrubInv
<1>1. Init => faults \in Nat
  BY DEF Init
<1>2. ScrubInv /\ faults \in Nat /\ [Next]_vars => (ScrubInv /\ faults \in Nat)'
  BY ScrubStep, Zenon
<1> QED
  BY <1>1, <1>2, ScrubInit, PTL DEF Spec

(* With one command at a time the status file says finished only of a      *)
(* device that was scrubbed from one end to the other, wherever the scrub  *)
(* was cancelled and the machine stopped, if it was resumed once.          *)
THEOREM FinishedAlwaysCovered == ASSUME OneCommand PROVE Spec => []FinishedIsCovered
<1>1. ScrubInv => FinishedIsCovered
  BY Zenon DEF ScrubInv, Truthful, FinishedIsCovered
<1> QED
  BY <1>1, ScrubInvariance, PTL

(* With one command at a time no record points behind a place that was not *)
(* scrubbed.                                                               *)
THEOREM RecordNeverAhead == ASSUME OneCommand PROVE Spec => []RecordNotAhead
<1>1. ScrubInv => RecordNotAhead
  BY Zenon DEF ScrubInv, Truthful, NotAhead, RecordNotAhead
<1> QED
  BY <1>1, ScrubInvariance, PTL

(* With one command at a time the status file holds the result of a        *)
(* command that is through and could write it.                             *)
THEOREM ResultAlwaysRecorded == ASSUME OneCommand PROVE Spec => []ResultRecorded
<1>1. ScrubInv => ResultRecorded
  <2> SUFFICES ASSUME ScrubInv, NEW p \in Proc,
                      pc[p] = "exit", thread[p] # Idle.thread, has[p].record, faults = 0,
                      NEW d \in DOMAIN sp[p]
               PROVE  /\ d \in DOMAIN file /\ file[d].finished
                      /\ file[d].canceled = sp[p][d].p.canceled
    BY Zenon DEF ResultRecorded
  <2>1. file = FileOf(sp[p]) /\ sp[p][d].p.finished
    BY Zenon DEF ScrubInv, Ended
  <2>2. sp[p][d] \in Progress
    BY Zenon DEF ScrubInv, ScrubTypeOK, Table
  <2>3. d \in DOMAIN file /\ file[d] = ResumedStats(sp[p][d])
    BY <2>1, Zenon DEF FileOf
  <2> QED
    BY <2>1, <2>2, <2>3, StatsFields, Zenon
<1> QED
  BY <1>1, ScrubInvariance, PTL
=============================================================================
