------------------------------ MODULE TestProg --------------------------------
(***************************************************************************)
(* The test programs wb_test and adm_test: the main thread with its poll   *)
(* loop and the SIGINT handler, the thread of each test (Execute), which   *)
(* receives or sends blocks, and, for the receiving test of adm_test, the  *)
(* thread that passes frames to the ISVI viewer (ExecuteIsvi).  They share *)
(* the fields of the test objects without any lock.                        *)
(* A stream is only open or not, running or not; a block received is right *)
(* or wrong; its contents are the subject of TestBuf, its place in the     *)
(* ring that of StreamRing.                                                *)
(***************************************************************************)
EXTENDS Naturals, Sequences

CONSTANTS
  Programs,  \* what may be run, see Program
  Burst,     \* buffers handled in a call of ReceiveData or SendData: 16
  RingSize   \* CntBuffer * CntBlockInBuffer

Streams == {0, 1}

(* adm: adm_test or wb_test; for each test its class ("in": TestStrm, "out":*)
(* TestStrmOut), stream, whether isTest, isTestCtrl and isRestart are set,  *)
(* an ISVI file is named, and the file of register values AdmReg2 is used.  *)
Program == [adm : BOOLEAN,
            tests : UNION {[1 .. n -> [kind : {"in", "out"}, strm : Streams,
              isTest : BOOLEAN, ctrl : BOOLEAN, isvi : BOOLEAN,
              restart : BOOLEAN, reg2 : BOOLEAN]] : n \in 1 .. 2}]

ASSUME TestProgAssumption ==
  /\ \A p \in Programs : p \in Program
  /\ Burst \in Nat \ {0} /\ RingSize \in Nat \ {0}

VARIABLES
  prog,       \* the program that runs
  main,       \* where main is: [pc, t], t the test it is busy with
  exit_flag, isStopped, isFirstCallStep,
  test,       \* the fields of the test objects
  worker,     \* the threads of the tests: [pc, kk]
  isvi,       \* the ISVI threads: [pc, val], val read by IsviStatus++
  stream,     \* m_streamParam and the channel: [status, run, owner]
  verdict     \* what GetResult has printed

vars == <<prog, main, exit_flag, isStopped, isFirstCallStep, test, worker,
          isvi, stream, verdict>>
pollVars == <<exit_flag, isStopped, isFirstCallStep>>

Tests == DOMAIN prog.tests
Is(t, adm, kind) == prog.adm = adm /\ prog.tests[t].kind = kind
Strm(t) == prog.tests[t].strm

(* The constructors: CL_WBPEX is a global object, CL_AMBPEX is allocated    *)
(* with new and leaves status as the heap had it, as TF_Test does           *)
(* isDmaStart.  bad: buf_cnt_error, or the counter in the FPGA, is not 0;   *)
(* BlockError: so says the copy that Step makes; on, gen: the tetrad of the *)
(* test is in stream mode, the test block of the FPGA generates or checks;  *)
(* buf: bufIsvi.                                                            *)
NewTest(dma) ==
  [Terminate |-> FALSE, lc_status |-> 0, IsviStatus |-> 0, isDmaStart |-> dma,
   BlockRd |-> 0, bad |-> FALSE, BlockError |-> FALSE, on |-> FALSE,
   gen |-> FALSE, buf |-> FALSE]
Fresh == [status |-> 0, run |-> FALSE, owner |-> 0]
Junk == [Fresh EXCEPT !.status = 2]

Init ==
  /\ prog \in Programs
  /\ main = [pc |-> "prepare", t |-> 1]
  /\ exit_flag = FALSE /\ isStopped = FALSE /\ isFirstCallStep = TRUE
  /\ \E dma \in BOOLEAN : test = [t \in Tests |-> NewTest(dma)]
  /\ worker = [t \in Tests |-> [pc |-> "none", kk |-> 0]]
  /\ isvi = [t \in Tests |-> [pc |-> "none", val |-> 0]]
  /\ stream \in [Streams -> IF prog.adm THEN {Fresh, Junk} ELSE {Fresh}]
  /\ verdict = [t \in Tests |-> "none"]

(* main has returned, or the process was killed with all its threads.       *)
Over == main.pc \in {"done", "err", "abort"}

MainAt(pc) == main.pc = pc
MainGoto(pc) == main' = [pc |-> pc, t |-> 1]
(* main does pc for the first test, then for the second, then goes on.      *)
MainNext(pc) == main' = IF main.t + 1 \in Tests THEN [main EXCEPT !.t = @ + 1]
                        ELSE [pc |-> pc, t |-> 1]
Abort == main' = [main EXCEPT !.pc = "abort"]

At(t, pc) == ~Over /\ worker[t].pc = pc
Goto(t, pc) == worker' = [worker EXCEPT ![t] = [pc |-> pc, kk |-> 0]]

-----------------------------------------------------------------------------
(* The stream class.  StreamInit returns 1 for a stream that is in use; no  *)
(* caller looks.                                                            *)
StreamInit(t) ==
  stream' = IF stream[Strm(t)].status = 0
            THEN [stream EXCEPT ![Strm(t)] = [status |-> 1, run |-> FALSE, owner |-> t]]
            ELSE stream

(* Only the tetrad of the test that opened the stream is reset.             *)
TetradsOff(s) == [t \in Tests |-> IF prog.adm /\ stream[s].owner = t
                                  THEN [test[t] EXCEPT !.on = FALSE] ELSE test[t]]
StreamStop(s) == stream' = [stream EXCEPT ![s].run = FALSE]

StreamStart(s) ==
  stream' = [stream EXCEPT ![s].run = stream[s].status = 1 \/ @]

(* Mutant: the channel is left as it is. *)
StreamDestroyOnly(s) ==
  stream' = IF stream[s].status = 0 THEN stream
            ELSE [stream EXCEPT ![s] = [@ EXCEPT !.status = 0, !.owner = 0]]
StreamDestroy(s) ==
  stream' = IF stream[s].status = 0 THEN stream ELSE [stream EXCEPT ![s] = Fresh]

-----------------------------------------------------------------------------
(* PrepareAdm of the receiving test of adm_test: the generator is reset, and *)
(* IsviStatus is 1 when an ISVI file is named.                              *)
PrepareAdm(t) ==
  [test EXCEPT ![t].gen = IF prog.tests[t].ctrl THEN FALSE ELSE @,
               ![t].IsviStatus = IF prog.tests[t].isvi THEN 1 ELSE 0]

(* main: Prepare.  StreamInit and PrepareAdmReg may throw; main prints the  *)
(* error and returns.                                                       *)
Prepare ==
  LET t == main.t IN
  /\ MainAt("prepare")
  /\ MainNext("start")
  /\ StreamInit(t)
  /\ test' = IF Is(t, TRUE, "in") THEN [PrepareAdm(t) EXCEPT ![t].buf = TRUE]
             ELSE test
  /\ UNCHANGED <<prog, pollVars, worker, isvi, verdict>>

PrepareThrow ==
  /\ MainAt("prepare") /\ MainGoto("err")
  /\ stream[Strm(main.t)].status = 0 \/ Is(main.t, TRUE, "in")
  /\ UNCHANGED <<prog, pollVars, test, worker, isvi, stream, verdict>>

(* Start: pthread_create may fail; "Stream not started".                    *)
Start ==
  LET t == main.t IN
  /\ MainAt("start") /\ ~Is(t, TRUE, "in") /\ MainNext("poll")
  /\ \/ worker' = [worker EXCEPT ![t].pc = "start"]
     \/ UNCHANGED worker
  /\ UNCHANGED <<prog, pollVars, test, isvi, stream, verdict>>

(* The receiving test of adm_test has two threads.                          *)
StartTwo ==
  LET t == main.t IN
  /\ MainAt("start") /\ Is(t, TRUE, "in") /\ MainNext("poll")
  /\ \/ UNCHANGED <<worker, isvi>>
     \/ /\ worker' = [worker EXCEPT ![t].pc = "start"]
        /\ \/ isvi' = [isvi EXCEPT ![t].pc = "loop"]
           \/ UNCHANGED isvi
  /\ UNCHANGED <<prog, pollVars, test, stream, verdict>>

signa_handler ==
  /\ ~Over /\ ~exit_flag /\ exit_flag' = TRUE
  /\ UNCHANGED <<prog, main, isStopped, isFirstCallStep, test, worker, isvi,
                 stream, verdict>>

(* The poll loop: after the first SIGINT both tests are stopped ...         *)
Poll ==
  /\ MainAt("poll")
  /\ MainGoto(IF exit_flag /\ ~isStopped THEN "terminate" ELSE "complete")
  /\ UNCHANGED <<prog, pollVars, test, worker, isvi, stream, verdict>>

(* Stop: in TF_TestStrmOut the checker of the FPGA is stopped; then         *)
(* Terminate = 1 ...                                                        *)
StopTerminate ==
  LET t == main.t IN
  /\ MainAt("terminate") /\ main' = [main EXCEPT !.pc = "status"]
  /\ test' = [test EXCEPT ![t].Terminate = TRUE,
                          ![t].gen = @ /\ ~(Is(t, TRUE, "out") /\ prog.tests[t].isTest)]
  /\ UNCHANGED <<prog, pollVars, worker, isvi, stream, verdict>>

(* ... and then lc_status = 3.                                              *)
StopStatus ==
  /\ MainAt("status")
  /\ test' = [test EXCEPT ![main.t].lc_status = 3]
  /\ main' = IF main.t + 1 \in Tests THEN [pc |-> "terminate", t |-> main.t + 1]
             ELSE [pc |-> "complete", t |-> 1]
  /\ isStopped' = (isStopped \/ main.t + 1 \notin Tests)
  /\ UNCHANGED <<prog, exit_flag, isFirstCallStep, worker, isvi, stream, verdict>>

(* Mutant: the ISVI thread is forgotten. *)
isCompleteWorker(t) == test[t].lc_status = 4
isComplete(t) == /\ test[t].lc_status = 4
                 /\ Is(t, TRUE, "in") => test[t].IsviStatus = 100

(* ... and the loop is left once both say they are complete.  Otherwise     *)
(* Step, in adm_test only after the DMA was started or with two tests.      *)
Complete ==
  /\ MainAt("complete")
  /\ IF isStopped /\ \A t \in Tests : isComplete(t)
     THEN MainGoto("result") /\ UNCHANGED isFirstCallStep
     ELSE /\ isFirstCallStep' =
               (isFirstCallStep /\ prog.adm /\ Tests = {1} /\ ~test[1].isDmaStart)
          /\ MainGoto(IF isFirstCallStep' THEN "poll" ELSE "step")
  /\ UNCHANGED <<prog, exit_flag, isStopped, test, worker, isvi, stream, verdict>>

(* Step of the receiving tests copies the number of wrong blocks, that of   *)
(* TF_TestStrmOut reads it from the FPGA, that of WB_TestStrmOut does not.  *)
InStep ==
  LET t == main.t IN
  /\ MainAt("step") /\ prog.tests[t].kind = "in" /\ MainNext("poll")
  /\ test' = [test EXCEPT ![t].BlockError = test[t].bad]
  /\ UNCHANGED <<prog, pollVars, worker, isvi, stream, verdict>>

OutStep ==
  LET t == main.t IN
  /\ MainAt("step") /\ prog.tests[t].kind = "out" /\ MainNext("poll")
  /\ test' = IF prog.adm /\ prog.tests[t].isTest
             THEN [test EXCEPT ![t].BlockError = test[t].bad] ELSE test
  /\ UNCHANGED <<prog, pollVars, worker, isvi, stream, verdict>>

(* GetResult of the receiving tests, from the copies of the last Step ...   *)
Verdict(t) == IF test[t].BlockRd = 0 THEN "no data"
              ELSE IF test[t].BlockError THEN "errors" ELSE "All data is correct"

InResult ==
  LET t == main.t IN
  /\ MainAt("result") /\ prog.tests[t].kind = "in" /\ MainNext("delete")
  /\ verdict' = [verdict EXCEPT ![t] = Verdict(t)]
  /\ UNCHANGED <<prog, pollVars, test, worker, isvi, stream>>

(* ... and of the sending ones: the counters are read again in adm_test     *)
(* (TestCtrlResult), wb_test prints nothing.                                *)
OutResult ==
  LET t == main.t IN
  /\ MainAt("result") /\ prog.tests[t].kind = "out" /\ MainNext("delete")
  /\ IF prog.adm /\ prog.tests[t].isTest
     THEN /\ test' = [test EXCEPT ![t].BlockError = test[t].bad]
          /\ verdict' = [verdict EXCEPT ![t] = IF test[t].bad THEN "errors" ELSE @]
     ELSE UNCHANGED <<test, verdict>>
  /\ UNCHANGED <<prog, pollVars, worker, isvi, stream>>

(* delete: StreamDestroy and, in the receiving test, delete bufIsvi.        *)
Delete ==
  LET t == main.t IN
  /\ MainAt("delete") /\ MainNext("done")
  /\ StreamDestroy(Strm(t))
  /\ test' = [u \in Tests |->
       LET off == IF stream[Strm(t)].status = 0 THEN test[u]
                  ELSE TetradsOff(Strm(t))[u]
       IN  IF u = t THEN [off EXCEPT !.buf = FALSE] ELSE off]
  /\ UNCHANGED <<prog, pollVars, worker, isvi, verdict>>

Main == \/ Prepare \/ PrepareThrow \/ Start \/ StartTwo \/ Poll
        \/ StopTerminate \/ StopStatus \/ Complete \/ InStep \/ OutStep
        \/ InResult \/ OutResult \/ Delete

-----------------------------------------------------------------------------
(* Execute, first part: the stream is started and then the source of data;  *)
(* a sending test fills the ring and starts the checker first.              *)
WbInStart(t) ==
  /\ At(t, "start") /\ Is(t, FALSE, "in") /\ Goto(t, "loop")
  /\ StreamStart(Strm(t))
  /\ test' = [test EXCEPT ![t].gen = TRUE]
  /\ UNCHANGED <<prog, main, pollVars, isvi, verdict>>

WbOutStart(t) ==
  /\ At(t, "start") /\ Is(t, FALSE, "out") /\ Goto(t, "loop")
  /\ StreamStart(Strm(t))
  /\ UNCHANGED <<prog, main, pollVars, test, isvi, verdict>>

InStarted(t) == [test EXCEPT ![t].on = TRUE, ![t].gen = @ \/ prog.tests[t].ctrl]

AdmInStart(t) ==
  /\ At(t, "start") /\ Is(t, TRUE, "in") /\ Goto(t, "loop")
  /\ StreamStart(Strm(t))
  /\ test' = [InStarted(t) EXCEPT ![t].isDmaStart = TRUE]
  /\ UNCHANGED <<prog, main, pollVars, isvi, verdict>>

(* PrepareAdmReg throws in the thread: nothing catches it there.            *)
AdmInStartThrow(t) ==
  /\ At(t, "start") /\ Is(t, TRUE, "in") /\ prog.tests[t].reg2
  /\ Abort /\ StreamStart(Strm(t))
  /\ test' = InStarted(t)
  /\ UNCHANGED <<prog, pollVars, worker, isvi, verdict>>

(* StreamGetBufByNum has no buffer for a stream that is not open.           *)
AdmOutStart(t) ==
  /\ At(t, "start") /\ Is(t, TRUE, "out")
  /\ IF stream[Strm(t)].status # 1
     THEN Abort /\ UNCHANGED <<worker, stream, test>>
     ELSE /\ Goto(t, "loop") /\ StreamStart(Strm(t)) /\ UNCHANGED main
          /\ test' = [test EXCEPT ![t].on = TRUE, ![t].isDmaStart = TRUE,
                                  ![t].gen = TRUE]
  /\ UNCHANGED <<prog, pollVars, isvi, verdict>>

(* Mutant: the loop is never left. *)
LoopTestNone(t) ==
  /\ At(t, "loop") /\ worker' = [worker EXCEPT ![t] = [pc |-> "buf", kk |-> 0]]
  /\ UNCHANGED <<prog, main, pollVars, test, isvi, stream, verdict>>

(* Execute: Terminate is looked at once per call of ReceiveData, SendData.  *)
LoopTest(t) ==
  /\ At(t, "loop") /\ Goto(t, IF test[t].Terminate THEN "finish" ELSE "buf")
  /\ UNCHANGED <<prog, main, pollVars, test, isvi, stream, verdict>>

(* On to the next of the Burst buffers, or back to the loop.                *)
NextBuf(t) ==
  worker' = [worker EXCEPT ![t] =
    IF worker[t].kk + 1 < Burst THEN [pc |-> "buf", kk |-> @.kk + 1]
    ELSE [pc |-> "loop", kk |-> 0]]

(* One more block: BlockRd, which is only compared with 0 and RingSize,     *)
(* stops counting above it.                                                 *)
Checked(t, wrong) ==
  [test EXCEPT ![t].bad = @ \/ (wrong /\ prog.tests[t].isTest),
               ![t].BlockRd = IF @ > RingSize THEN @ ELSE @ + 1]

(* ReceiveData ends when there is no buffer.                                *)
NoBuf(t) ==
  /\ At(t, "buf") /\ prog.tests[t].kind = "in" /\ Goto(t, "loop")
  /\ UNCHANGED <<prog, main, pollVars, test, isvi, stream, verdict>>

(* On a stream that never was opened neither pStub nor the descriptor of    *)
(* the board object is a pointer: StreamGetBuf or StreamStop ends the       *)
(* process.                                                                 *)
WildStub(t) ==
  /\ At(t, "buf") \/ At(t, "finish")
  /\ stream[Strm(t)].status # 1 /\ Abort
  /\ UNCHANGED <<prog, pollVars, test, worker, isvi, stream, verdict>>

WbReceive(t) ==
  /\ At(t, "buf") /\ Is(t, FALSE, "in") /\ stream[Strm(t)].status = 1
  /\ \E wrong \in BOOLEAN : test' = Checked(t, wrong)
  /\ NextBuf(t)
  /\ UNCHANGED <<prog, main, pollVars, isvi, stream, verdict>>

(* SendData goes on without a buffer; the checker, which only adm_test uses,*)
(* may find a block wrong.                                                  *)
WbSend(t) ==
  /\ At(t, "buf") /\ Is(t, FALSE, "out") /\ NextBuf(t)
  /\ UNCHANGED <<prog, main, pollVars, test, isvi, stream, verdict>>

AdmSend(t) ==
  /\ At(t, "buf") /\ Is(t, TRUE, "out") /\ NextBuf(t)
  /\ \E wrong \in BOOLEAN :
       /\ wrong => stream[Strm(t)].run /\ test[t].gen
       /\ test' = [test EXCEPT ![t].bad = @ \/ wrong]
  /\ UNCHANGED <<prog, main, pollVars, isvi, stream, verdict>>

(* TF_TestStrm::ReceiveData: IsviStep first, if the ISVI thread wants a     *)
(* block.                                                                   *)
WantedMore(s) == s >= 1    \* Mutant: in every state of the exchange.
Wanted(s) == s = 1 \/ s = 4

AdmReceive(t) ==
  /\ At(t, "buf") /\ Is(t, TRUE, "in") /\ stream[Strm(t)].status = 1
  /\ worker' = [worker EXCEPT ![t].pc =
       IF prog.tests[t].isvi /\ Wanted(test[t].IsviStatus) THEN "copy" ELSE "check"]
  /\ UNCHANGED <<prog, main, pollVars, test, isvi, stream, verdict>>

(* The block is copied into bufIsvi; then IsviStatus++, a read ...          *)
IsviCopied(t) ==
  /\ At(t, "copy") /\ worker' = [worker EXCEPT ![t].pc = "inc"]
  /\ isvi' = [isvi EXCEPT ![t].val = test[t].IsviStatus]
  /\ UNCHANGED <<prog, main, pollVars, test, stream, verdict>>

(* ... and a write.                                                         *)
IsviInc(t) ==
  /\ At(t, "inc") /\ worker' = [worker EXCEPT ![t].pc = "check"]
  /\ test' = [test EXCEPT ![t].IsviStatus = isvi[t].val + 1]
  /\ isvi' = [isvi EXCEPT ![t].val = 0]
  /\ UNCHANGED <<prog, main, pollVars, stream, verdict>>

(* The check; RestartAdc once the ring was filled.                          *)
AdmCheck(t) ==
  /\ At(t, "check")
  /\ \E wrong \in BOOLEAN : test' = Checked(t, wrong)
  /\ IF prog.tests[t].restart /\ test'[t].BlockRd = RingSize
     THEN worker' = [worker EXCEPT ![t].pc = "restart"] ELSE NextBuf(t)
  /\ UNCHANGED <<prog, main, pollVars, isvi, stream, verdict>>

RestartAdc(t) ==
  /\ At(t, "restart") /\ NextBuf(t)
  /\ StreamStart(Strm(t))
  /\ test' = [TetradsOff(Strm(t)) EXCEPT ![t].BlockRd = 0, ![t].on = TRUE]
  /\ UNCHANGED <<prog, main, pollVars, isvi, verdict>>

(* Execute, last part: the stream is stopped (in WB_TestStrmOut that line   *)
(* is a comment) ...                                                        *)
WbInFinish(t) ==
  /\ At(t, "finish") /\ Is(t, FALSE, "in") /\ Goto(t, "last")
  /\ StreamStop(Strm(t))
  /\ UNCHANGED <<prog, main, pollVars, test, isvi, verdict>>

WbOutFinish(t) ==
  /\ At(t, "finish") /\ Is(t, FALSE, "out") /\ Goto(t, "last")
  /\ UNCHANGED <<prog, main, pollVars, test, isvi, stream, verdict>>

AdmFinish(t) ==
  /\ At(t, "finish") /\ prog.adm /\ stream[Strm(t)].status = 1
  /\ Goto(t, "last") /\ StreamStop(Strm(t))
  /\ test' = [TetradsOff(Strm(t)) EXCEPT ![t].on = FALSE]
  /\ UNCHANGED <<prog, main, pollVars, isvi, verdict>>

(* ... and lc_status = 4.                                                   *)
Last(t) ==
  /\ At(t, "last") /\ Goto(t, "end")
  /\ test' = [test EXCEPT ![t].lc_status = 4]
  /\ UNCHANGED <<prog, main, pollVars, isvi, stream, verdict>>

Worker(t) ==
  \/ WbInStart(t) \/ WbOutStart(t)
  \/ AdmInStart(t) \/ AdmInStartThrow(t) \/ AdmOutStart(t)
  \/ LoopTest(t) \/ NoBuf(t) \/ WildStub(t)
  \/ WbReceive(t) \/ WbSend(t) \/ AdmSend(t)
  \/ AdmReceive(t) \/ IsviCopied(t) \/ IsviInc(t) \/ AdmCheck(t) \/ RestartAdc(t)
  \/ WbInFinish(t) \/ WbOutFinish(t) \/ AdmFinish(t) \/ Last(t)

-----------------------------------------------------------------------------
(* ExecuteIsvi *)
IsviAt(t, pc) == ~Over /\ isvi[t].pc = pc
IsviGoto(t, pc) == isvi' = [isvi EXCEPT ![t].pc = pc]

(* Mutant: case 4 has no break. *)
IsviLoopFall(t) ==
  LET s == test[t].IsviStatus IN
  /\ IsviAt(t, "loop")
  /\ IsviGoto(t, IF test[t].Terminate THEN "last"
                 ELSE IF s \in {2, 4, 5} THEN "write" ELSE IF s = 3 THEN "flag" ELSE "loop")
  /\ UNCHANGED <<prog, main, pollVars, test, worker, stream, verdict>>

IsviLoop(t) ==
  LET s == test[t].IsviStatus IN
  /\ IsviAt(t, "loop")
  /\ IsviGoto(t, IF test[t].Terminate THEN "last"
                 ELSE IF s \in {2, 5} THEN "write" ELSE IF s = 3 THEN "flag" ELSE "loop")
  /\ UNCHANGED <<prog, main, pollVars, test, worker, stream, verdict>>

(* WriteDataFile from bufIsvi, with WriteFlagSinc after it and, for the     *)
(* first frame, before; a data file that does not open is passed over.      *)
IsviWrite(t) ==
  /\ IsviAt(t, "write") /\ IsviGoto(t, "loop")
  /\ test' = [test EXCEPT ![t].IsviStatus = 3]
  /\ UNCHANGED <<prog, main, pollVars, worker, stream, verdict>>

(* The viewer has taken the frame, or not yet.                              *)
ReadFlagSinc(t) ==
  /\ IsviAt(t, "flag") /\ IsviGoto(t, "loop")
  /\ \E taken \in BOOLEAN :
       test' = IF taken THEN [test EXCEPT ![t].IsviStatus = 4] ELSE test
  /\ UNCHANGED <<prog, main, pollVars, worker, stream, verdict>>

(* WriteFlagSinc and ReadFlagSinc try until the flag file opens, and look   *)
(* at nothing else: here it never does.  One that opens later is a delay.   *)
OpenFails(t) ==
  /\ IsviAt(t, "write") \/ IsviAt(t, "flag")
  /\ IsviGoto(t, "retry")
  /\ UNCHANGED <<prog, main, pollVars, test, worker, stream, verdict>>

IsviLast(t) ==
  /\ IsviAt(t, "last") /\ IsviGoto(t, "end")
  /\ test' = [test EXCEPT ![t].IsviStatus = 100]
  /\ UNCHANGED <<prog, main, pollVars, worker, stream, verdict>>

ExecuteIsvi(t) == \/ IsviLoop(t) \/ IsviWrite(t) \/ ReadFlagSinc(t)
                  \/ OpenFails(t) \/ IsviLast(t)

-----------------------------------------------------------------------------
Next ==
  \/ Main \/ signa_handler
  \/ \E t \in Tests : Worker(t) \/ ExecuteIsvi(t)
  \/ Over /\ UNCHANGED vars

Spec == Init /\ [][Next]_vars

(* The scheduler runs every thread; SIGINT may never come.                  *)
Fairness == /\ WF_vars(Main)
            /\ \A t \in 1 .. 2 : /\ WF_vars(t \in Tests /\ Worker(t))
                                 /\ WF_vars(t \in Tests /\ ExecuteIsvi(t))
FairSpec == Spec /\ Fairness

-----------------------------------------------------------------------------
TypeOK ==
  /\ prog \in Programs
  /\ main \in [pc : {"prepare", "start", "poll", "terminate", "status",
                     "complete", "step", "result", "delete", "done", "err",
                     "abort"}, t : Tests]
  /\ exit_flag \in BOOLEAN /\ isStopped \in BOOLEAN /\ isFirstCallStep \in BOOLEAN
  /\ test \in [Tests -> [Terminate : BOOLEAN, lc_status : {0, 3, 4},
       IsviStatus : 0 .. 5 \cup {100, 101}, isDmaStart : BOOLEAN,
       BlockRd : 0 .. RingSize + 1, bad : BOOLEAN, BlockError : BOOLEAN,
       on : BOOLEAN, gen : BOOLEAN, buf : BOOLEAN]]
  /\ worker \in [Tests -> [pc : {"none", "start", "loop", "buf", "copy", "inc",
       "check", "restart", "finish", "last", "end"}, kk : 0 .. Burst - 1]]
  /\ isvi \in [Tests -> [pc : {"none", "loop", "write", "flag", "retry", "last", "end"},
                         val : {0, 1, 4, 100}]]
  /\ stream \in [Streams -> [status : 0 .. 2, run : BOOLEAN, owner : {0} \cup Tests]]
  /\ verdict \in [Tests -> {"none", "no data", "errors", "All data is correct"}]

(* When main has left the poll loop no thread of any test is still at work: *)
(* delete unmaps the stream's blocks and stub and frees bufIsvi and the     *)
(* test itself.                                                             *)
DeleteQuiet == main.pc \in {"result", "delete", "done"} =>
  \A t \in Tests : /\ worker[t].pc \in {"none", "end"}
                   /\ isvi[t].pc \in {"none", "end"}

(* A frame is never written to the ISVI file while the receiving thread     *)
(* copies the next block into bufIsvi: IsviStatus hands the buffer over.    *)
WholeFrames == \A t \in Tests : ~(worker[t].pc = "copy" /\ isvi[t].pc = "write")

(* A program that returns from main leaves no channel running and no tetrad *)
(* in stream mode, whichever tests shared a stream; when its loop ended, no *)
(* stream stays open either.                                                *)
ExitStopped ==
  /\ main.pc \in {"done", "err"} => /\ \A s \in Streams : ~stream[s].run
                                    /\ \A t \in Tests : ~test[t].on
  /\ main.pc = "done" => \A s \in Streams : stream[s].status # 1

(* A test whose end main will never see: a thread that was not created, a   *)
(* last status that another thread's write has replaced, or an ISVI thread  *)
(* that tries for ever to open its flag file.                               *)
Lost(t) ==
  \/ worker[t].pc = "none"
  \/ worker[t].pc = "end" /\ test[t].lc_status = 3
  \/ Is(t, TRUE, "in") /\ isvi[t].pc = "none"
  \/ isvi[t].pc = "end" /\ worker[t].pc = "end" /\ test[t].IsviStatus # 100
  \/ isvi[t].pc = "retry"

(* After SIGINT the program ends, unless one of those has happened.         *)
ExitOrLost == exit_flag ~> Over \/ \E t \in Tests : Lost(t)

(* "All data is correct. No error" is printed only when no block was found  *)
(* wrong.                                                                   *)
VerdictCurrent == \A t \in Tests :
  verdict[t] = "All data is correct" => ~test[t].bad
===============================================================================
