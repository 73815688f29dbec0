------------------------------- MODULE Scrub --------------------------------
(***************************************************************************)
(* btrfs scrub start, resume and cancel (cmds-scrub.c): the checks before  *)
(* a scrub is started, the progress socket, the status file, one thread    *)
(* per device inside the scrub ioctl, the thread that samples the progress *)
(* every five seconds, and what is left of all this when the machine stops *)
(* in the middle.  Of the statistics only last_physical is kept, the one a *)
(* resumed scrub depends on.                                               *)
(***************************************************************************)
EXTENDS Naturals, FiniteSets, Sequences

CONSTANTS
  Proc,        \* invocations of the command
  Dev,         \* devices of the filesystem
  Size,        \* positions of a device
  Background,  \* whether scrubs run without -B
  Devices,     \* the sets of devices a command may be called for
  MaxRuns, MaxCancels, MaxReboots, MaxFaults,  \* how often each may happen,
  MaxMishaps,                                 \* and cancels, reboots and faults together
  None

VARIABLES
  file,      \* the status file: a record for some devices
  socket,    \* who bound the progress socket in the file system, or None
  kernel,    \* the process whose scrub runs on a device, or None
  pos,       \* how far it is
  pc, status,
  opt,       \* of a process: resume, and what it read: is a scrub running
  has,       \* of a process: prg_fd is open, listens; do_record; the parent lives
  sp,        \* scrub_progress of every device of a process
  thread,    \* scrub_one_dev: "none", "start", "ioctl", "return" or "done"
  this, last,  \* the two buffers of scrub_progress_cycle, newest first
  prog,      \* the progress thread: "none", "init", "poll", "write", "dead", "joined"
  covered,   \* positions scrubbed since the recorded scrub of a device began
  resumes,   \* how often that was resumed
  early,     \* devices whose thread was through before the progress thread began
  runs, cancels, reboots, faults

kernelVars == <<kernel, pos, covered, resumes>>
progVars == <<this, last, prog, early>>
bounds == <<runs, cancels, reboots, faults>>
vars == <<file, socket, kernelVars, pc, status, opt, has, sp, thread, progVars, bounds>>

ASSUME ScrubAssumption ==
  /\ Size \in Nat /\ MaxRuns \in Nat /\ MaxCancels \in Nat
  /\ MaxReboots \in Nat /\ MaxFaults \in Nat /\ MaxMishaps \in Nat
  /\ Devices \subseteq SUBSET Dev
  /\ Background \in BOOLEAN /\ None \notin Proc

(* last_physical, finished and canceled of a scrub_file_record             *)
Zero == [last |-> 0, finished |-> FALSE, canceled |-> FALSE]
NoDevs == [d \in {} |-> Zero]

Idle ==
  [pc |-> "idle", status |-> 0, sp |-> NoDevs, thread |-> [d \in Dev |-> "none"],
   this |-> NoDevs, last |-> NoDevs, prog |-> "none",
   opt |-> [resume |-> FALSE, busy |-> FALSE],
   has |-> [fd |-> FALSE, listen |-> FALSE, record |-> TRUE, parent |-> FALSE]]

Init ==
  /\ file = NoDevs /\ socket = None
  /\ kernel = [d \in Dev |-> None] /\ pos = [d \in Dev |-> 0]
  /\ pc = [p \in Proc |-> Idle.pc] /\ status = [p \in Proc |-> Idle.status]
  /\ opt = [p \in Proc |-> Idle.opt] /\ has = [p \in Proc |-> Idle.has]
  /\ sp = [p \in Proc |-> Idle.sp] /\ thread = [p \in Proc |-> Idle.thread]
  /\ this = [p \in Proc |-> Idle.this] /\ last = [p \in Proc |-> Idle.last]
  /\ prog = [p \in Proc |-> Idle.prog] /\ early = {}
  /\ covered = [d \in Dev |-> {}] /\ resumes = [d \in Dev |-> 0]
  /\ runs = 0 /\ cancels = 0 /\ reboots = 0 /\ faults = 0

----------------------------------------------------------------------------
(* The status file *)

(* What is written for a device: a resumed scrub adds its figures to those *)
(* of the record it was resumed from.                                      *)
ResumedStats(x) ==
  IF x.resumed = <<>> \/ x.skip THEN x.p
  ELSE [x.p EXCEPT !.last = x.resumed[1].last + @]

(* scrub_write_progress: the whole file, which the rename puts in place at *)
(* once.                                                                   *)
FileOf(x) == [d \in DOMAIN x |-> ResumedStats(x[d])]

(* A write that fails, or a device that is gone.                           *)
Mishap == cancels + reboots + faults < MaxMishaps

Fault == Mishap /\ faults < MaxFaults /\ faults' = faults + 1

----------------------------------------------------------------------------
(* scrub_start: before the threads *)

(* last_dev_scrub: no record, or one.                                      *)
PastScrub(d) == IF d \in DOMAIN file THEN <<file[d]>> ELSE <<>>

(* What is done with a device, from its record in the status file.         *)
PlanKeepsResumed(d, res) ==
  LET rec == PastScrub(d)
      again == rec # <<>> /\ (rec[1].canceled \/ ~rec[1].finished)
  IN [skip |-> res /\ ~again, resumed |-> rec,
      start |-> IF res /\ again THEN rec[1].last ELSE 0,
      ret |-> "ok", p |-> Zero]
Plan(d, res) ==
  LET rec == PastScrub(d)
      again == rec # <<>> /\ (rec[1].canceled \/ ~rec[1].finished)
  IN [skip |-> res /\ ~again, resumed |-> IF res THEN rec ELSE <<>>,
      start |-> IF res /\ again THEN rec[1].last ELSE 0,
      ret |-> "ok", p |-> Zero]

RunningOnFs(D) ==
  \E d \in D \cap DOMAIN file : ~(file[d].finished \/ file[d].canceled)
RunningInKernel(D) == \E d \in D : kernel[d] # None

Goto(p, l) == pc' = [pc EXCEPT ![p] = l]
Exit(p, s) == Goto(p, "exit") /\ status' = [status EXCEPT ![p] = s]

(* The options and the past scrubs.                                        *)
Begin(p) ==
  /\ pc[p] = "idle" /\ runs < MaxRuns /\ runs' = runs + 1
  /\ \E res, force \in BOOLEAN, D \in Devices :
       /\ opt' = [opt EXCEPT ![p] = [resume |-> res, busy |-> ~force /\ RunningOnFs(D)]]
       /\ sp' = [sp EXCEPT ![p] = [d \in D |-> Plan(d, res)]]
  /\ Goto(p, "check")
  /\ UNCHANGED <<file, socket, status, has, thread, cancels, reboots, faults>>
  /\ UNCHANGED kernelVars /\ UNCHANGED progVars

(* The scrub is refused if the status file says that one is running and    *)
(* the kernel agrees.                                                      *)
Check(p) ==
  /\ pc[p] = "check"
  /\ LET D == DOMAIN sp[p]
     IN \/ opt[p].busy /\ RunningInKernel(D) /\ Exit(p, 1)
        \/ /\ ~(opt[p].busy /\ RunningInKernel(D))
           /\ \A d \in D : sp[p][d].skip
           /\ Exit(p, 2)
        \/ /\ ~(opt[p].busy /\ RunningInKernel(D))
           /\ \E d \in D : ~sp[p][d].skip
           /\ Goto(p, "bind") /\ UNCHANGED status
  /\ UNCHANGED <<file, socket, opt, has, sp, thread>>
  /\ UNCHANGED kernelVars /\ UNCHANGED progVars /\ UNCHANGED bounds

socketFrame == /\ UNCHANGED <<file, opt, sp, thread>> /\ UNCHANGED kernelVars
               /\ UNCHANGED progVars /\ UNCHANGED bounds

Listens(q) == has[q].listen /\ (pc[q] # "crashed" \/ has[q].parent)

(* bind, and connect when the name is in use.  When somebody answers, the  *)
(* command leaves with err unset.                                          *)
BindForgetsFd(p) ==
  /\ pc[p] = "bind"
  /\ \/ socket = None /\ socket' = p /\ Goto(p, "record") /\ UNCHANGED status
     \/ socket # None /\ Listens(socket) /\ Exit(p, 0) /\ UNCHANGED socket
     \/ socket # None /\ ~Listens(socket) /\ Goto(p, "unlink") /\ UNCHANGED <<socket, status>>
  /\ UNCHANGED has /\ socketFrame
Bind(p) ==
  /\ pc[p] = "bind"
  /\ \/ /\ socket = None
        /\ socket' = p /\ has' = [has EXCEPT ![p].fd = TRUE]
        /\ Goto(p, "record") /\ UNCHANGED status
     \/ /\ socket # None /\ Listens(socket)
        /\ Exit(p, 0) /\ UNCHANGED <<socket, has>>
     \/ /\ socket # None /\ ~Listens(socket)
        /\ Goto(p, "unlink") /\ UNCHANGED <<socket, has, status>>
  /\ socketFrame

(* An unused name is removed and bind tried again; if it has vanished, the *)
(* scrub goes on without a socket.                                         *)
Unlink(p) ==
  /\ pc[p] = "unlink"
  /\ socket' = None
  /\ Goto(p, IF socket = None THEN "record" ELSE "bind")
  /\ UNCHANGED <<has, status>> /\ socketFrame

(* The devices a command scrubs itself.                                    *)
Own(p) == {d \in DOMAIN sp[p] : ~sp[p][d].skip}

(* listen and the first, all-zero, record.                                 *)
FirstRecord(p) ==
  /\ pc[p] = "record"
  /\ \/ file' = FileOf(sp[p]) /\ early' = early \ Own(p) /\ UNCHANGED faults
        /\ has' = [has EXCEPT ![p].listen = has[p].fd, ![p].parent = Background]
     \/ Fault /\ UNCHANGED <<file, early>>
        /\ has' = [has EXCEPT ![p].listen = has[p].fd, ![p].parent = Background,
                              ![p].record = FALSE]
  /\ Goto(p, "launch")
  /\ UNCHANGED <<socket, status, opt, sp, thread, this, last, prog, runs, cancels, reboots>>
  /\ UNCHANGED kernelVars

(* The parent of a scrub in the background leaves through the common       *)
(* cleanup, which removes the name its child listens at.                   *)
ParentLeaves(p) ==
  /\ has[p].parent
  /\ has' = [has EXCEPT ![p].parent = FALSE]
  /\ socket' = IF has[p].fd THEN None ELSE socket
  /\ UNCHANGED <<pc, status>> /\ socketFrame

(* A device that is skipped takes over the record it is skipped for.       *)
Inherit(x) == IF x.skip THEN [x EXCEPT !.p = [x.resumed[1] EXCEPT !.finished = TRUE]] ELSE x

(* The threads are created.  There may be no record to take over.          *)
Launch(p) ==
  /\ pc[p] = "launch"
  /\ \/ /\ \E d \in DOMAIN sp[p] : sp[p][d].skip /\ sp[p][d].resumed = <<>>
        /\ Goto(p, "crashed")
        /\ UNCHANGED <<sp, thread, prog>>
     \/ /\ \A d \in DOMAIN sp[p] : sp[p][d].skip => sp[p][d].resumed # <<>>
        /\ sp' = [sp EXCEPT ![p] = [d \in DOMAIN sp[p] |-> Inherit(sp[p][d])]]
        /\ thread' = [thread EXCEPT ![p] =
             [d \in Dev |-> IF d \in DOMAIN sp[p] /\ ~sp[p][d].skip THEN "start" ELSE "none"]]
        /\ prog' = [prog EXCEPT ![p] = "init"]
        /\ Goto(p, "run")
  /\ UNCHANGED <<file, socket, status, opt, has, this, last, early>>
  /\ UNCHANGED kernelVars /\ UNCHANGED bounds

----------------------------------------------------------------------------
(* scrub_one_dev and the kernel *)

threadFrame == /\ UNCHANGED <<file, socket, pc, status, opt, has>>
               /\ UNCHANGED progVars

(* The ioctl is refused when the device is missing or a scrub runs on it.  *)
(* canceled is set for whatever reason it fails.                           *)
Refuse(p, d, why) ==
  /\ sp' = [sp EXCEPT ![p][d].p.canceled = TRUE, ![p][d].ret = why]
  /\ thread' = [thread EXCEPT ![p][d] = "return"]
  /\ UNCHANGED kernelVars

Start(p, d) ==
  /\ kernel' = [kernel EXCEPT ![d] = p]
  /\ pos' = [pos EXCEPT ![d] = IF sp[p][d].start > Size THEN Size ELSE sp[p][d].start]
  /\ thread' = [thread EXCEPT ![p][d] = "ioctl"]
  /\ covered' = [covered EXCEPT ![d] = IF opt[p].resume \/ ~has[p].record THEN @ ELSE {}]
  /\ resumes' = [resumes EXCEPT ![d] = IF ~has[p].record THEN @
                                      ELSE IF opt[p].resume THEN @ + 1 ELSE 0]
  /\ UNCHANGED sp

CallIoctl(p, d) ==
  /\ thread[p][d] = "start"
  /\ \/ kernel[d] = None /\ Fault /\ Refuse(p, d, "nodev")
     \/ kernel[d] # None /\ Refuse(p, d, "inprogress") /\ UNCHANGED faults
     \/ kernel[d] = None /\ Start(p, d) /\ UNCHANGED faults
  /\ threadFrame /\ UNCHANGED <<runs, cancels, reboots>>

KernelScrub(d) ==
  /\ kernel[d] # None /\ pos[d] < Size
  /\ covered' = [covered EXCEPT ![d] = @ \cup {pos[d]}]
  /\ pos' = [pos EXCEPT ![d] = @ + 1]
  /\ threadFrame /\ UNCHANGED <<kernel, resumes, sp, thread>> /\ UNCHANGED bounds

(* The ioctl returns, with the progress made.                              *)
Returned(x, n, short, why) == [x EXCEPT !.p.last = n, !.p.canceled = short, !.ret = why]
ReturnUncanceled(D, why) ==
  /\ sp' = [p \in Proc |-> [d \in DOMAIN sp[p] |->
              IF d \in D /\ kernel[d] = p
              THEN [sp[p][d] EXCEPT !.p.last = pos[d], !.ret = why]
              ELSE sp[p][d]]]
  /\ thread' = [p \in Proc |-> [d \in Dev |->
              IF d \in D /\ kernel[d] = p THEN "return" ELSE thread[p][d]]]
  /\ kernel' = [d \in Dev |-> IF d \in D THEN None ELSE kernel[d]]
  /\ UNCHANGED <<pos, covered, resumes>>
Return(D, why) ==
  /\ sp' = [p \in Proc |-> [d \in DOMAIN sp[p] |->
              IF d \in D /\ kernel[d] = p
              THEN Returned(sp[p][d], pos[d], why # "ok", why)
              ELSE sp[p][d]]]
  /\ thread' = [p \in Proc |-> [d \in Dev |->
              IF d \in D /\ kernel[d] = p THEN "return" ELSE thread[p][d]]]
  /\ kernel' = [d \in Dev |-> IF d \in D THEN None ELSE kernel[d]]
  /\ UNCHANGED <<pos, covered, resumes>>

KernelDone(d) ==
  /\ kernel[d] # None /\ pos[d] = Size
  /\ Return({d}, "ok")
  /\ threadFrame /\ UNCHANGED bounds

(* btrfs scrub cancel, and SIGINT: all scrubs that run on the filesystem.  *)
Cancel ==
  /\ Mishap /\ cancels < MaxCancels /\ cancels' = cancels + 1
  /\ RunningInKernel(Dev)
  /\ Return({d \in Dev : kernel[d] # None}, "canceled")
  /\ threadFrame /\ UNCHANGED <<runs, reboots, faults>>

(* The finished flag is set, in a step of its own.                         *)
FinishThread(p, d) ==
  /\ thread[p][d] = "return"
  /\ thread' = [thread EXCEPT ![p][d] = "done"]
  /\ sp' = [sp EXCEPT ![p][d].p.finished = TRUE]
  /\ threadFrame /\ UNCHANGED kernelVars /\ UNCHANGED bounds

----------------------------------------------------------------------------
(* scrub_progress_cycle *)

progFrame == /\ UNCHANGED <<socket, pc, status, opt, has, sp, thread>>
             /\ UNCHANGED kernelVars

(* The buffers begin all zero, with the finished flag of the device.       *)
InitCycle(p) ==
  /\ prog[p] = "init"
  /\ LET buf == [d \in DOMAIN sp[p] |->
                   [sp[p][d] EXCEPT !.p = [Zero EXCEPT !.finished = sp[p][d].p.finished]]]
     IN this' = [this EXCEPT ![p] = buf] /\ last' = [last EXCEPT ![p] = buf]
  /\ early' = early \cup {d \in Own(p) : sp[p][d].p.finished}
  /\ prog' = [prog EXCEPT ![p] = "poll"]
  /\ UNCHANGED file /\ progFrame /\ UNCHANGED bounds

(* One device: the kernel's figures while a scrub runs on it; after that   *)
(* the result of the thread, or the sample before if the thread has not    *)
(* set its finished flag yet.                                              *)
Sample(p, d) ==
  IF last[p][d].p.finished THEN last[p][d]
  ELSE IF kernel[d] # None THEN [last[p][d] EXCEPT !.p.last = pos[d]]
  ELSE IF sp[p][d].p.finished THEN sp[p][d]
  ELSE this[p][d]

(* A round over the devices into the older buffer; a result goes to both.  *)
Poll(p) ==
  /\ prog[p] = "poll"
  /\ LET new == [d \in DOMAIN sp[p] |-> Sample(p, d)]
     IN /\ this' = [this EXCEPT ![p] = new]
        /\ last' = [last EXCEPT ![p] = [d \in DOMAIN new |->
                      IF new[d].p.finished THEN new[d] ELSE this[p][d]]]
  /\ prog' = [prog EXCEPT ![p] = IF has[p].record THEN "write" ELSE "poll"]
  /\ UNCHANGED <<file, early>> /\ progFrame /\ UNCHANGED bounds

(* The thread gives up when the file cannot be written.                    *)
WriteProgress(p) ==
  /\ prog[p] = "write"
  /\ \/ file' = FileOf(this[p]) /\ prog' = [prog EXCEPT ![p] = "poll"] /\ UNCHANGED faults
     \/ Fault /\ prog' = [prog EXCEPT ![p] = "dead"] /\ UNCHANGED file
  /\ UNCHANGED <<this, last, early, runs, cancels, reboots>> /\ progFrame

----------------------------------------------------------------------------
(* scrub_start: after the threads *)

(* All device threads are joined, then the progress thread is cancelled:   *)
(* never inside scrub_write_progress.                                      *)
JoinSkippedToo(p) ==
  /\ pc[p] = "run" /\ \A d \in DOMAIN sp[p] : thread[p][d] = "done"
  /\ prog[p] \in {"init", "poll", "dead"}
  /\ prog' = [prog EXCEPT ![p] = "joined"]
  /\ Goto(p, "last")
  /\ UNCHANGED <<file, socket, status, opt, has, sp, thread, this, last, early>>
  /\ UNCHANGED kernelVars /\ UNCHANGED bounds
JoinThreads(p) ==
  /\ pc[p] = "run" /\ \A d \in Dev : thread[p][d] \in {"none", "done"}
  /\ prog[p] \in {"init", "poll", "dead"}
  /\ prog' = [prog EXCEPT ![p] = "joined"]
  /\ Goto(p, "last")
  /\ UNCHANGED <<file, socket, status, opt, has, sp, thread, this, last, early>>
  /\ UNCHANGED kernelVars /\ UNCHANGED bounds

(* The result is recorded and the name of the socket removed.  A missing   *)
(* device is no error.                                                     *)
LastRecordSample(p) ==
  /\ pc[p] = "last"
  /\ \/ has[p].record /\ file' = FileOf(this[p]) /\ UNCHANGED faults
     \/ has[p].record /\ Fault /\ UNCHANGED file
     \/ ~has[p].record /\ UNCHANGED <<file, faults>>
  /\ Exit(p, IF \E d \in DOMAIN sp[p] : sp[p][d].ret \in {"canceled", "inprogress"}
             THEN 1 ELSE 0)
  /\ socket' = IF has[p].fd THEN None ELSE socket
  /\ has' = [has EXCEPT ![p].listen = FALSE]
  /\ UNCHANGED <<opt, sp, thread, this, last, prog, early, runs, cancels, reboots>>
  /\ UNCHANGED kernelVars
LastRecord(p) ==
  /\ pc[p] = "last"
  /\ \/ has[p].record /\ file' = FileOf(sp[p]) /\ early' = early \ Own(p)
        /\ UNCHANGED faults
     \/ has[p].record /\ Fault /\ UNCHANGED <<file, early>>
     \/ ~has[p].record /\ UNCHANGED <<file, early, faults>>
  /\ Exit(p, IF \E d \in DOMAIN sp[p] : sp[p][d].ret \in {"canceled", "inprogress"}
             THEN 1 ELSE 0)
  /\ socket' = IF has[p].fd THEN None ELSE socket
  /\ has' = [has EXCEPT ![p].listen = FALSE]
  /\ UNCHANGED <<opt, sp, thread, this, last, prog, runs, cancels, reboots>>
  /\ UNCHANGED kernelVars

(* The command can be given again.                                         *)
Reset(P) ==
  /\ pc' = [p \in Proc |-> IF p \in P THEN Idle.pc ELSE pc[p]]
  /\ status' = [p \in Proc |-> IF p \in P THEN Idle.status ELSE status[p]]
  /\ opt' = [p \in Proc |-> IF p \in P THEN Idle.opt ELSE opt[p]]
  /\ has' = [p \in Proc |-> IF p \in P THEN Idle.has ELSE has[p]]
  /\ sp' = [p \in Proc |-> IF p \in P THEN Idle.sp ELSE sp[p]]
  /\ thread' = [p \in Proc |-> IF p \in P THEN Idle.thread ELSE thread[p]]
  /\ this' = [p \in Proc |-> IF p \in P THEN Idle.this ELSE this[p]]
  /\ last' = [p \in Proc |-> IF p \in P THEN Idle.last ELSE last[p]]
  /\ prog' = [p \in Proc |-> IF p \in P THEN Idle.prog ELSE prog[p]]
  /\ UNCHANGED <<file, pos, covered, resumes, early, runs, cancels, faults>>

Again(p) ==
  /\ pc[p] = "exit" /\ ~has[p].parent
  /\ Reset({p}) /\ UNCHANGED <<socket, kernel, reboots>>

(* The machine stops: the files are left, the name of a socket with them.  *)
Reboot ==
  /\ Mishap /\ reboots < MaxReboots /\ reboots' = reboots + 1
  /\ Reset(Proc) /\ kernel' = [d \in Dev |-> None] /\ UNCHANGED socket

Work(p) ==
  \/ Check(p) \/ Bind(p) \/ Unlink(p) \/ FirstRecord(p) \/ Launch(p)
  \/ JoinThreads(p) \/ LastRecord(p)
  \/ \E d \in Dev : CallIoctl(p, d) \/ FinishThread(p, d)

Next ==
  \/ \E p \in Proc : Begin(p) \/ ParentLeaves(p) \/ Work(p) \/ Again(p)
  \/ \E p \in Proc : InitCycle(p) \/ Poll(p) \/ WriteProgress(p)
  \/ \E d \in Dev : KernelScrub(d) \/ KernelDone(d)
  \/ Cancel \/ Reboot

(* Threads run, a cancellation that is pending is delivered the next time  *)
(* the progress thread allows it, and the kernel goes on with a scrub it   *)
(* has begun.                                                              *)
Spec ==
  /\ Init /\ [][Next]_vars
  /\ \A p \in Proc : SF_vars(Work(p)) /\ WF_vars(WriteProgress(p))
  /\ \A d \in Dev : WF_vars(KernelScrub(d)) /\ WF_vars(KernelDone(d))

----------------------------------------------------------------------------
(* Properties *)

(* A device whose record says finished and not canceled has been scrubbed  *)
(* from one end to the other since that scrub was started: wherever between *)
(* two writes of the status file it was cancelled or the machine stopped,  *)
(* if that happened once (see ResumeSkipsNothing), and if its thread did   *)
(* not end before the progress thread had begun (see FinishedIsTrue).      *)
FinishedIsCovered ==
  \A d \in DOMAIN file :
    file[d].finished /\ ~file[d].canceled /\ resumes[d] <= 1 /\ d \notin early =>
      covered[d] = 0 .. Size - 1

(* A record never points behind a place that was not scrubbed, so that a   *)
(* first resume leaves nothing out.                                        *)
RecordNotAhead ==
  \A d \in DOMAIN file : resumes[d] = 0 => 0 .. file[d].last - 1 \subseteq covered[d]

(* When a command is through and its last record was written, the status   *)
(* file tells for each of its devices that it is no longer running, and    *)
(* whether its scrub was complete; nothing written later by the progress   *)
(* thread replaces it.                                                     *)
ResultRecorded ==
  \A p \in Proc :
    pc[p] = "exit" /\ thread[p] # Idle.thread /\ has[p].record /\ faults = 0
    /\ (\A q \in Proc \ {p} : pc[q] = "idle") =>
      \A d \in DOMAIN sp[p] :
        /\ d \in DOMAIN file /\ file[d].finished
        /\ file[d].canceled = sp[p][d].p.canceled

(* The name of the socket is in the file system only while a command that  *)
(* bound it, or its parent, is about: whoever removes it and whoever takes *)
(* it over, no finished command leaves it behind.  (A reboot does.)        *)
SocketNotLeftBehind ==
  (\A p \in Proc : pc[p] \in {"idle", "exit"} /\ ~has[p].parent) /\ reboots = 0 =>
    socket = None

----------------------------------------------------------------------------
(* Why a record is true, as long as one command at a time is given. *)

Record == [last : Nat, finished : BOOLEAN, canceled : BOOLEAN]
Progress ==
  [skip : BOOLEAN, resumed : Seq(Record), start : Nat,
   ret : {"ok", "nodev", "inprogress", "canceled"}, p : Record]

Has == [fd : BOOLEAN, listen : BOOLEAN, record : BOOLEAN, parent : BOOLEAN]

(* A table has an entry for some of the devices.                           *)
Table(f, V) == DOMAIN f \subseteq Dev /\ f \in [DOMAIN f -> V]

ScrubTypeOK ==
  /\ Table(file, Record)
  /\ kernel \in [Dev -> Proc \cup {None}] /\ pos \in [Dev -> 0 .. Size]
  /\ covered \in [Dev -> SUBSET (0 .. Size - 1)] /\ resumes \in [Dev -> Nat]
  /\ pc \in [Proc -> {"idle", "check", "bind", "unlink", "record", "launch", "run", "last",
                      "exit", "crashed"}]
  /\ opt \in [Proc -> [resume : BOOLEAN, busy : BOOLEAN]]
  /\ has \in [Proc -> Has]
  /\ thread \in [Proc -> [Dev -> {"none", "start", "ioctl", "return", "done"}]]
  /\ prog \in [Proc -> {"none", "init", "poll", "write", "dead", "joined"}]
  /\ DOMAIN sp = Proc /\ DOMAIN this = Proc /\ DOMAIN last = Proc
  /\ \A p \in Proc :
       Table(sp[p], Progress) /\ Table(this[p], Progress) /\ Table(last[p], Progress)

(* What may be written about a device: its position is not ahead of what   *)
(* was scrubbed, and if it says finished, all was.                         *)
NotAhead(d, r) == resumes[d] = 0 => 0 .. r.last - 1 \subseteq covered[d]
Truthful(d, r) ==
  /\ NotAhead(d, r)
  /\ r.finished /\ ~r.canceled /\ resumes[d] <= 1 /\ d \notin early => covered[d] = 0 .. Size - 1

(* What a command does with a device, decided from a truthful record       *)
Planned(p, d) ==
  LET x == sp[p][d]
  IN /\ x.resumed # <<>> => NotAhead(d, x.resumed[1])
     /\ IF opt[p].resume
        THEN IF x.skip
             THEN x.resumed # <<>> =>
                    /\ x.resumed[1].finished /\ ~x.resumed[1].canceled
                    /\ Truthful(d, x.resumed[1])
             ELSE x.resumed # <<>> /\ x.start = x.resumed[1].last
        ELSE ~x.skip /\ x.resumed = <<>> /\ x.start = 0

(* A device the threads are at, or have been at                            *)
Started(p, d) == opt[p].resume <=> resumes[d] > 0

Running(p, d) ==
  LET x == sp[p][d] IN
  CASE thread[p][d] = "none" ->
         /\ x.skip /\ x.resumed # <<>>
         /\ x.p.finished /\ ~x.p.canceled /\ x.p.last = x.resumed[1].last
    [] thread[p][d] = "start" ->
         /\ ~x.skip /\ x.p = Zero
         /\ d \in DOMAIN file /\ ~file[d].finished /\ (opt[p].resume \/ file[d].last = 0)
    [] thread[p][d] = "ioctl" ->
         /\ ~x.skip /\ x.p = Zero /\ Started(p, d)
         /\ resumes[d] <= 1 => 0 .. pos[d] - 1 \subseteq covered[d]
    [] OTHER ->
         /\ ~x.skip
         /\ NotAhead(d, ResumedStats(x))
         /\ ~x.p.canceled /\ resumes[d] <= 1 => covered[d] = 0 .. Size - 1
         /\ thread[p][d] = "done" => x.p.finished

(* What the progress thread holds of a device                              *)
Sampled(p, d, b) ==
  /\ b.skip = sp[p][d].skip /\ b.resumed = sp[p][d].resumed
  /\ Truthful(d, ResumedStats(b))
  /\ thread[p][d] = "start" => b.p = Zero

Before == {"check", "bind", "unlink", "record", "launch"}

Preparing(p) ==
  /\ pc[p] \in Before => \A d \in DOMAIN sp[p] : Planned(p, d) /\ sp[p][d].p = Zero
  /\ pc[p] \in Before \cup {"idle"} => thread[p] = Idle.thread
  /\ pc[p] = "launch" /\ has[p].record => file = FileOf(sp[p])

Scrubbing(p) ==
  pc[p] \in {"run", "last"} /\ has[p].record =>
    \A d \in DOMAIN sp[p] : Planned(p, d) /\ Running(p, d)

(* Threads there are only while scrub_start waits for them, and for devices *)
(* of the command.                                                         *)
InTime(p) ==
  /\ \A d \in Dev : thread[p][d] \in {"start", "ioctl", "return"} =>
       pc[p] = "run" /\ d \in DOMAIN sp[p]
  /\ prog[p] \in {"init", "poll", "write"} => pc[p] = "run"

Buffered(p) ==
  /\ prog[p] = "write" => has[p].record
  /\ prog[p] \in {"poll", "write"} =>
       /\ DOMAIN this[p] = DOMAIN sp[p] /\ DOMAIN last[p] = DOMAIN sp[p]
       /\ has[p].record =>
            \A d \in DOMAIN sp[p] : Sampled(p, d, this[p][d]) /\ Sampled(p, d, last[p][d])

(* What the last record of a command says                                  *)
Ended(p) ==
  pc[p] = "exit" /\ thread[p] # Idle.thread /\ has[p].record /\ faults = 0 =>
    file = FileOf(sp[p]) /\ \A d \in DOMAIN sp[p] : sp[p][d].p.finished

ScrubInv ==
  /\ ScrubTypeOK
  /\ \A d \in DOMAIN file : Truthful(d, file[d])
  /\ \A d \in Dev : kernel[d] # None => thread[kernel[d]][d] = "ioctl"
  /\ \A p \in Proc : Preparing(p) /\ Scrubbing(p) /\ InTime(p) /\ Buffered(p) /\ Ended(p)

(* A scrub that was launched ends, cancelled or not, and its progress      *)
(* thread with it.                                                         *)
ScrubEnds == \A p \in Proc : pc[p] = "run" ~> pc[p] # "run"

(* btrfs-scrub(8): "A resumed scrub will continue from the last saved      *)
(* position": what is finished was scrubbed completely, however often it   *)
(* was resumed.                                                            *)
ResumeSkipsNothing ==
  \A d \in DOMAIN file :
    file[d].finished /\ ~file[d].canceled /\ d \notin early => covered[d] = 0 .. Size - 1

(* btrfs-scrub(8): resume continues "a cancelled or interrupted scrub" and *)
(* leaves alone what "finished successfully": a record says so only of a   *)
(* device that was scrubbed completely.                                    *)
FinishedIsTrue ==
  \A d \in DOMAIN file :
    file[d].finished /\ ~file[d].canceled /\ resumes[d] = 0 => covered[d] = 0 .. Size - 1

(* btrfs-scrub(8): "If a scrub is already running, the new one fails."     *)
OneScrub ==
  \A p, q \in Proc :
    p # q /\ pc[p] = "run" /\ pc[q] = "run" => DOMAIN sp[p] \cap DOMAIN sp[q] = {}

(* btrfs-scrub(8): "a zero exit status if it succeeds".                    *)
ZeroMeansScrubbed ==
  \A p \in Proc :
    pc[p] = "exit" /\ status[p] = 0 => \A d \in DOMAIN sp[p] : sp[p][d].p.finished

(* btrfs-scrub(8): "Resume a cancelled or interrupted scrub on the         *)
(* filesystem": the command survives that.                                 *)
ResumeSurvives == \A p \in Proc : pc[p] # "crashed"
=============================================================================
