---------------------------- MODULE TestProg_proof ----------------------------
(***************************************************************************)
(* TestProg for every command line with one test or two, every length of   *)
(* the bursts and every size of the ring: the types of the shared fields,  *)
(* that nothing is deleted while a thread still works with it, that frames *)
(* reach the ISVI file whole, and that a program which returns from main   *)
(* leaves no channel running.  The threads share their fields without a    *)
(* lock; the argument is that each field says where the thread that wrote  *)
(* it last has got to.                                                     *)
(***************************************************************************)
EXTENDS TestProg, Integers, TLAPS

MainRec == [pc : {"prepare", "start", "poll", "terminate", "status", "complete",
                  "step", "result", "delete", "done", "err", "abort"}, t : Tests]
TestRec == [Terminate : BOOLEAN, lc_status : {0, 3, 4},
            IsviStatus : 0 .. 5 \cup {100, 101}, isDmaStart : BOOLEAN,
            BlockRd : 0 .. RingSize + 1, bad : BOOLEAN, BlockError : BOOLEAN,
            on : BOOLEAN, gen : BOOLEAN, buf : BOOLEAN]
WorkerRec == [pc : {"none", "start", "loop", "buf", "copy", "inc", "check",
                    "restart", "finish", "last", "end"}, kk : 0 .. Burst - 1]
IsviRec == [pc : {"none", "loop", "write", "flag", "retry", "last", "end"},
            val : {0, 1, 4, 100}]
StreamRec == [status : 0 .. 2, run : BOOLEAN, owner : {0} \cup Tests]

(* TypeOK in parts. *)
LEMMA Types ==
  TypeOK <=>
    /\ prog \in Programs
    /\ main \in MainRec
    /\ exit_flag \in BOOLEAN /\ isStopped \in BOOLEAN /\ isFirstCallStep \in BOOLEAN
    /\ test \in [Tests -> TestRec]
    /\ worker \in [Tests -> WorkerRec]
    /\ isvi \in [Tests -> IsviRec]
    /\ stream \in [Streams -> StreamRec]
    /\ verdict \in [Tests -> {"none", "no data", "errors", "All data is correct"}]
BY DEF TypeOK, MainRec, TestRec, WorkerRec, IsviRec, StreamRec

(* There are one or two tests, and what is said of each is what Program says. *)
LEMMA ProgramTypes ==
  ASSUME prog \in Programs
  PROVE  /\ Tests = 1 .. 1 \/ Tests = 1 .. 2
         /\ 1 \in Tests /\ Tests \subseteq 1 .. 2
         /\ prog.adm \in BOOLEAN
         /\ \A t \in Tests :
              /\ prog.tests[t].kind \in {"in", "out"} /\ Strm(t) \in Streams
              /\ prog.tests[t].isTest \in BOOLEAN /\ prog.tests[t].ctrl \in BOOLEAN
              /\ prog.tests[t].isvi \in BOOLEAN /\ prog.tests[t].restart \in BOOLEAN
<1>1. prog \in Program
  BY TestProgAssumption
<1> DEFINE T == [kind : {"in", "out"}, strm : Streams, isTest : BOOLEAN, ctrl : BOOLEAN,
                 isvi : BOOLEAN, restart : BOOLEAN, reg2 : BOOLEAN]
<1>2. prog.adm \in BOOLEAN /\ prog.tests \in UNION {[1 .. n -> T] : n \in 1 .. 2}
  BY <1>1 DEF Program
<1> HIDE DEF T
<1>3. PICK n \in 1 .. 2 : prog.tests \in [1 .. n -> T]
  BY <1>2
<1>4. Tests = 1 .. n
  BY <1>3 DEF Tests
<1>5. \A t \in Tests : prog.tests[t] \in T
  BY <1>3, <1>4
<1>6. Tests = 1 .. 1 \/ Tests = 1 .. 2
  BY <1>3, <1>4
<1>7. 1 \in Tests /\ Tests \subseteq 1 .. 2
  BY <1>6
<1> QED BY <1>2, <1>5, <1>6, <1>7 DEF T, Strm

-----------------------------------------------------------------------------
(* The operators keep the types. *)
LEMMA MainTypes ==
  ASSUME TypeOK, prog' = prog,
         NEW pc \in {"start", "poll", "terminate", "complete", "step", "result", "delete",
                     "done", "err"},
         MainNext(pc) \/ MainGoto(pc)
  PROVE  main' \in MainRec
<1>1. main \in MainRec /\ 1 \in Tests
  BY Types, ProgramTypes
<1> QED BY <1>1 DEF MainNext, MainGoto, MainRec

LEMMA StreamInitTypes ==
  ASSUME TypeOK, NEW t \in Tests, StreamInit(t)
  PROVE  stream' \in [Streams -> StreamRec]
<1>1. stream \in [Streams -> StreamRec] /\ Strm(t) \in Streams
  BY Types, ProgramTypes
<1>2. [status |-> 1, run |-> FALSE, owner |-> t] \in StreamRec
  BY DEF StreamRec
<1> QED BY <1>1, <1>2 DEF StreamInit

LEMMA StreamStopTypes ==
  ASSUME TypeOK, NEW s \in Streams, StreamStop(s)
  PROVE  stream' \in [Streams -> StreamRec]
<1>1. stream \in [Streams -> StreamRec]
  BY Types
<1>2. [stream[s] EXCEPT !.run = FALSE] \in StreamRec
  BY <1>1 DEF StreamRec
<1> QED BY <1>1, <1>2 DEF StreamStop

LEMMA StreamStartTypes ==
  ASSUME TypeOK, NEW s \in Streams, StreamStart(s)
  PROVE  stream' \in [Streams -> StreamRec]
<1>1. stream \in [Streams -> StreamRec]
  BY Types
<1> DEFINE b == stream[s].status = 1 \/ stream[s].run
<1>2. b \in BOOLEAN
  OBVIOUS
<1>3. stream' = [stream EXCEPT ![s] = [stream[s] EXCEPT !.run = b]]
  BY <1>1 DEF StreamStart
<1> HIDE DEF b
<1>4. [stream[s] EXCEPT !.run = b] \in StreamRec
  BY <1>1, <1>2 DEF StreamRec
<1> QED BY <1>1, <1>3, <1>4

LEMMA StreamDestroyTypes ==
  ASSUME TypeOK, NEW s \in Streams, StreamDestroy(s)
  PROVE  stream' \in [Streams -> StreamRec]
<1>1. stream \in [Streams -> StreamRec]
  BY Types
<1>2. Fresh \in StreamRec
  BY DEF StreamRec, Fresh
<1> QED BY <1>1, <1>2 DEF StreamDestroy

LEMMA TestFields ==
  ASSUME NEW r \in TestRec, NEW b \in BOOLEAN
  PROVE  /\ [r EXCEPT !.on = b] \in TestRec /\ [r EXCEPT !.buf = b] \in TestRec
         /\ [r EXCEPT !.gen = b] \in TestRec /\ [r EXCEPT !.bad = b] \in TestRec
         /\ [r EXCEPT !.BlockError = b] \in TestRec /\ [r EXCEPT !.isDmaStart = b] \in TestRec
BY DEF TestRec

LEMMA TestStatus ==
  ASSUME NEW r \in TestRec, NEW v \in {3, 4}, NEW s \in 0 .. 5 \cup {100, 101}
  PROVE  [r EXCEPT !.lc_status = v] \in TestRec /\ [r EXCEPT !.IsviStatus = s] \in TestRec
BY DEF TestRec

LEMMA IsviNamed ==
  ASSUME NEW c \in BOOLEAN
  PROVE  (IF c THEN 1 ELSE 0) \in 0 .. 5 \cup {100, 101}
OBVIOUS

LEMMA TestRun ==
  ASSUME NEW r \in TestRec, NEW b \in BOOLEAN
  PROVE  /\ [r EXCEPT !.on = TRUE, !.gen = b] \in TestRec
         /\ [r EXCEPT !.on = TRUE, !.gen = b, !.isDmaStart = TRUE] \in TestRec
         /\ [r EXCEPT !.on = TRUE, !.isDmaStart = TRUE, !.gen = TRUE] \in TestRec
         /\ [r EXCEPT !.BlockRd = 0, !.on = TRUE] \in TestRec
<1>1. 0 \in 0 .. RingSize + 1
  BY TestProgAssumption
<1>2. [r EXCEPT !.on = TRUE, !.gen = b] \in TestRec
  BY DEF TestRec
<1>3. [r EXCEPT !.on = TRUE, !.gen = b, !.isDmaStart = TRUE] \in TestRec
  BY DEF TestRec
<1>4. [r EXCEPT !.on = TRUE, !.isDmaStart = TRUE, !.gen = TRUE] \in TestRec
  BY DEF TestRec
<1>5. [r EXCEPT !.BlockRd = 0, !.on = TRUE] \in TestRec
  BY <1>1 DEF TestRec
<1> QED BY <1>2, <1>3, <1>4, <1>5

LEMMA TetradsOffTypes ==
  ASSUME TypeOK, NEW s \in Streams
  PROVE  TetradsOff(s) \in [Tests -> TestRec]
<1>1. \A t \in Tests : test[t] \in TestRec
  BY Types
<1>2. \A t \in Tests : [test[t] EXCEPT !.on = FALSE] \in TestRec
  BY <1>1, TestFields
<1> QED BY <1>1, <1>2 DEF TetradsOff

LEMMA GotoTypes ==
  ASSUME TypeOK, NEW t \in Tests,
         NEW pc \in {"loop", "buf", "finish", "last", "end"}, Goto(t, pc)
  PROVE  worker' \in [Tests -> WorkerRec]
<1>1. [pc |-> pc, kk |-> 0] \in WorkerRec
  BY TestProgAssumption DEF WorkerRec
<1> QED BY <1>1, Types DEF Goto

LEMMA WorkerPcTypes ==
  ASSUME TypeOK, NEW t \in Tests, NEW pc \in {"start", "copy", "inc", "check", "restart"},
         worker' = [worker EXCEPT ![t].pc = pc]
  PROVE  worker' \in [Tests -> WorkerRec]
<1>1. worker[t] \in WorkerRec
  BY Types
<1>2. [worker[t] EXCEPT !.pc = pc] \in WorkerRec
  BY <1>1 DEF WorkerRec
<1> QED BY <1>2, Types

LEMMA NextBufTypes ==
  ASSUME TypeOK, NEW t \in Tests, NextBuf(t)
  PROVE  worker' \in [Tests -> WorkerRec]
<1>1. worker[t] \in WorkerRec
  BY Types
<1> DEFINE w == IF worker[t].kk + 1 < Burst THEN [pc |-> "buf", kk |-> worker[t].kk + 1]
                ELSE [pc |-> "loop", kk |-> 0]
<1>2. w \in WorkerRec
  BY <1>1, TestProgAssumption DEF WorkerRec
<1>3. worker' = [worker EXCEPT ![t] = w]
  BY Types DEF NextBuf
<1> HIDE DEF w
<1> QED BY <1>2, <1>3, Types

LEMMA IsviPcTypes ==
  ASSUME TypeOK, NEW t \in Tests, NEW pc \in {"loop", "write", "flag", "retry", "last", "end"},
         isvi' = [isvi EXCEPT ![t].pc = pc]
  PROVE  isvi' \in [Tests -> IsviRec]
<1>1. isvi[t] \in IsviRec
  BY Types
<1>2. [isvi[t] EXCEPT !.pc = pc] \in IsviRec
  BY <1>1 DEF IsviRec
<1> QED BY <1>2, Types

LEMMA CheckedTypes ==
  ASSUME TypeOK, NEW t \in Tests, NEW wrong \in BOOLEAN
  PROVE  Checked(t, wrong) \in [Tests -> TestRec]
<1>1. test[t] \in TestRec
  BY Types
<1> DEFINE b == test[t].bad \/ (wrong /\ prog.tests[t].isTest)
           n == IF test[t].BlockRd > RingSize THEN test[t].BlockRd ELSE test[t].BlockRd + 1
           w == [test[t] EXCEPT !.bad = b, !.BlockRd = n]
<1>2. b \in BOOLEAN
  OBVIOUS
<1>3. n \in 0 .. RingSize + 1
  BY <1>1, TestProgAssumption DEF TestRec
<1>4. Checked(t, wrong) = [test EXCEPT ![t] = w]
  BY Types DEF Checked
<1> HIDE DEF b, n
<1>5. w \in TestRec
  BY <1>1, <1>2, <1>3 DEF TestRec
<1> HIDE DEF w
<1> QED BY <1>4, <1>5, Types

-----------------------------------------------------------------------------
(* Every step keeps the types, the copy of IsviStatus only because of what  *)
(* it is while the receiving thread copies a block: one lemma for each      *)
(* actor, one step for each of its actions.                                 *)
LEMMA TypesKept ==
  ASSUME TypeOK, prog' = prog, main' = main \/ main' \in MainRec,
         exit_flag' = exit_flag \/ exit_flag' \in BOOLEAN,
         isStopped' = isStopped \/ isStopped' \in BOOLEAN,
         isFirstCallStep' = isFirstCallStep \/ isFirstCallStep' \in BOOLEAN,
         test' = test \/ test' \in [Tests -> TestRec],
         worker' = worker \/ worker' \in [Tests -> WorkerRec],
         isvi' = isvi \/ isvi' \in [Tests -> IsviRec],
         stream' = stream \/ stream' \in [Streams -> StreamRec],
         verdict' = verdict
           \/ verdict' \in [Tests -> {"none", "no data", "errors", "All data is correct"}]
  PROVE  TypeOK'
<1>1. /\ prog' \in Programs /\ main' \in MainRec
      /\ exit_flag' \in BOOLEAN /\ isStopped' \in BOOLEAN /\ isFirstCallStep' \in BOOLEAN
      /\ test' \in [Tests -> TestRec] /\ worker' \in [Tests -> WorkerRec]
      /\ isvi' \in [Tests -> IsviRec] /\ stream' \in [Streams -> StreamRec]
      /\ verdict' \in [Tests -> {"none", "no data", "errors", "All data is correct"}]
  BY Types DEF pollVars
<1>2. Tests' = Tests
  BY DEF Tests
<1> QED BY <1>1, <1>2 DEF TypeOK, MainRec, TestRec, WorkerRec, IsviRec, StreamRec

LEMMA InitTypes == Init => TypeOK
<1> SUFFICES ASSUME Init PROVE TypeOK
  OBVIOUS
<1>1. prog \in Programs /\ 1 \in Tests
  BY ProgramTypes DEF Init
<1>2. main \in MainRec
  BY <1>1 DEF Init, MainRec
<1>3. test \in [Tests -> TestRec]
  <2>1. PICK dma \in BOOLEAN : test = [t \in Tests |-> NewTest(dma)]
    BY DEF Init
  <2>2. NewTest(dma) \in TestRec
    BY <2>1, TestProgAssumption DEF NewTest, TestRec
  <2> QED BY <2>1, <2>2
<1>4. worker \in [Tests -> WorkerRec] /\ isvi \in [Tests -> IsviRec]
  <2>1. [pc |-> "none", kk |-> 0] \in WorkerRec
    BY TestProgAssumption DEF WorkerRec
  <2>2. [pc |-> "none", val |-> 0] \in IsviRec
    BY DEF IsviRec
  <2> QED BY <2>1, <2>2 DEF Init
<1>5. stream \in [Streams -> StreamRec]
  <2>1. Fresh \in StreamRec
    BY DEF Fresh, StreamRec
  <2>2. Junk \in StreamRec
    BY <2>1 DEF Junk, StreamRec
  <2> QED BY <2>1, <2>2 DEF Init
<1>6. /\ exit_flag \in BOOLEAN /\ isStopped \in BOOLEAN /\ isFirstCallStep \in BOOLEAN
      /\ verdict \in [Tests -> {"none", "no data", "errors", "All data is correct"}]
  BY DEF Init
<1> QED BY <1>1, <1>2, <1>3, <1>4, <1>5, <1>6, Types

LEMMA MainTypeStep ==
  ASSUME TypeOK, Main
  PROVE  TypeOK'
<1> DEFINE t == main.t
<1>0. /\ main \in MainRec /\ t \in Tests /\ 1 \in Tests /\ Strm(t) \in Streams
      /\ test \in [Tests -> TestRec] /\ test[t] \in TestRec
      /\ worker \in [Tests -> WorkerRec] /\ isvi \in [Tests -> IsviRec]
      /\ stream \in [Streams -> StreamRec]
      /\ exit_flag \in BOOLEAN /\ isStopped \in BOOLEAN /\ isFirstCallStep \in BOOLEAN
      /\ verdict \in [Tests -> {"none", "no data", "errors", "All data is correct"}]
  <2>1. main.t \in Tests
    BY Types DEF MainRec
  <2> QED BY <2>1, Types, ProgramTypes
<1> USE <1>0
<1> HIDE DEF t
<1>1. CASE Prepare
  <2> USE <1>1 DEF Prepare, pollVars
  <2>1. main' \in MainRec
    BY MainTypes
  <2>2. stream' \in [Streams -> StreamRec]
    BY StreamInitTypes DEF t
  <2>3. test' \in [Tests -> TestRec]
    <3> DEFINE b == IF prog.tests[t].ctrl THEN FALSE ELSE test[t].gen
               v == IF prog.tests[t].isvi THEN 1 ELSE 0
               w == [test[t] EXCEPT !.gen = b, !.IsviStatus = v, !.buf = TRUE]
    <3>0. b \in BOOLEAN
      BY ProgramTypes, Types DEF TestRec
    <3>1. v \in 0 .. 5 \cup {100, 101}
      <4>1. prog.tests[t].isvi \in BOOLEAN
        BY ProgramTypes, Types
      <4> HIDE DEF Prepare
      <4> HIDE <1>0, <1>1
      <4> QED BY <4>1, IsviNamed
    <3>2. test' = test \/ test' = [test EXCEPT ![t] = w]
      BY DEF PrepareAdm, t
    <3> HIDE DEF b, v
    <3>3. w \in TestRec
      BY <3>0, <3>1, ZenonT(30) DEF TestRec
    <3> HIDE DEF w
    <3> QED BY <3>2, <3>3
  <2> QED BY <2>1, <2>2, <2>3, TypesKept
<1>2. CASE PrepareThrow
  <2>1. main' \in MainRec
    BY <1>2, MainTypes DEF PrepareThrow
  <2> QED BY <1>2, <2>1, TypesKept DEF PrepareThrow, pollVars
<1>3. CASE Start
  <2>1. main' \in MainRec
    BY <1>3, MainTypes DEF Start
  <2>2. worker' \in [Tests -> WorkerRec]
    BY <1>3, WorkerPcTypes DEF Start, t
  <2> QED BY <1>3, <2>1, <2>2, TypesKept DEF Start, pollVars
<1>4. CASE StartTwo
  <2>1. main' \in MainRec
    BY <1>4, MainTypes DEF StartTwo
  <2>2. worker' \in [Tests -> WorkerRec]
    BY <1>4, WorkerPcTypes DEF StartTwo, t
  <2>3. isvi' \in [Tests -> IsviRec]
    BY <1>4, IsviPcTypes DEF StartTwo, t
  <2> QED BY <1>4, <2>1, <2>2, <2>3, TypesKept DEF StartTwo, pollVars
<1>5. CASE Poll
  <2>1. main' \in MainRec
    BY <1>5, MainTypes DEF Poll
  <2> QED BY <1>5, <2>1, TypesKept DEF Poll, pollVars
<1>6. CASE StopTerminate
  <2>1. main' \in MainRec
    BY <1>6 DEF StopTerminate, MainRec
  <2>2. test' \in [Tests -> TestRec]
    <3> DEFINE b == test[t].gen /\ ~(Is(t, TRUE, "out") /\ prog.tests[t].isTest)
               w == [test[t] EXCEPT !.Terminate = TRUE, !.gen = b]
    <3>1. b \in BOOLEAN
      OBVIOUS
    <3>2. test' = [test EXCEPT ![t] = w]
      BY <1>6 DEF StopTerminate, t
    <3> HIDE DEF b
    <3>3. w \in TestRec
      BY <3>1 DEF TestRec
    <3> HIDE DEF w
    <3> QED BY <3>2, <3>3
  <2> QED BY <1>6, <2>1, <2>2, TypesKept DEF StopTerminate, pollVars
<1>7. CASE StopStatus
  <2>1. main' \in MainRec
    BY <1>7 DEF StopStatus, MainRec
  <2>2. test' \in [Tests -> TestRec]
    <3>1. [test[t] EXCEPT !.lc_status = 3] \in TestRec
      BY DEF TestRec
    <3> QED BY <1>7, <3>1 DEF StopStatus, t
  <2>3. isStopped' \in BOOLEAN
    BY <1>7 DEF StopStatus
  <2> QED BY <1>7, <2>1, <2>2, <2>3, TypesKept DEF StopStatus
<1>8. CASE Complete
  <2>1. main' \in MainRec
    BY <1>8, MainTypes DEF Complete
  <2>2. isFirstCallStep' \in BOOLEAN
    BY <1>8 DEF Complete
  <2> QED BY <1>8, <2>1, <2>2, TypesKept DEF Complete
<1> DEFINE copied == [test[t] EXCEPT !.BlockError = test[t].bad]
<1>9. copied \in TestRec
  BY DEF TestRec
<1>10. CASE InStep
  <2>1. main' \in MainRec
    BY <1>10, MainTypes DEF InStep
  <2>2. test' \in [Tests -> TestRec]
    BY <1>9, <1>10 DEF InStep, t
  <2> QED BY <1>10, <2>1, <2>2, TypesKept DEF InStep, pollVars
<1>11. CASE OutStep
  <2>1. main' \in MainRec
    BY <1>11, MainTypes DEF OutStep
  <2>2. test' \in [Tests -> TestRec]
    BY <1>9, <1>11 DEF OutStep, t
  <2> QED BY <1>11, <2>1, <2>2, TypesKept DEF OutStep, pollVars
<1>12. CASE InResult
  <2>1. main' \in MainRec
    BY <1>12, MainTypes DEF InResult
  <2>2. verdict' \in [Tests -> {"none", "no data", "errors", "All data is correct"}]
    BY <1>12 DEF InResult, Verdict
  <2> QED BY <1>12, <2>1, <2>2, TypesKept DEF InResult, pollVars
<1>13. CASE OutResult
  <2>1. main' \in MainRec
    BY <1>13, MainTypes DEF OutResult
  <2>2. test' \in [Tests -> TestRec]
    BY <1>9, <1>13 DEF OutResult, t
  <2>3. verdict' \in [Tests -> {"none", "no data", "errors", "All data is correct"}]
    BY <1>13 DEF OutResult
  <2> QED BY <1>13, <2>1, <2>2, <2>3, TypesKept DEF OutResult, pollVars
<1>14. CASE Delete
  <2>1. main' \in MainRec
    BY <1>14, MainTypes DEF Delete
  <2>2. stream' \in [Streams -> StreamRec]
    BY <1>14, StreamDestroyTypes DEF Delete, t
  <2>3. test' \in [Tests -> TestRec]
    <3> DEFINE off(u) == IF stream[Strm(t)].status = 0 THEN test[u] ELSE TetradsOff(Strm(t))[u]
    <3>1. \A u \in Tests : off(u) \in TestRec
      BY TetradsOffTypes
    <3>2. test' = [u \in Tests |-> IF u = t THEN [off(u) EXCEPT !.buf = FALSE] ELSE off(u)]
      BY <1>14 DEF Delete, t
    <3> HIDE DEF off
    <3>3. \A u \in Tests : [off(u) EXCEPT !.buf = FALSE] \in TestRec
      BY <3>1, TestFields
    <3> QED BY <3>1, <3>2, <3>3
  <2> QED BY <1>14, <2>1, <2>2, <2>3, TypesKept DEF Delete, pollVars
<1> QED BY <1>1, <1>2, <1>3, <1>4, <1>5, <1>6, <1>7, <1>8, <1>10, <1>11, <1>12, <1>13,
           <1>14 DEF Main

LEMMA WorkerTypeStep ==
  ASSUME TypeOK, NEW t \in Tests, Worker(t),
         worker[t].pc = "copy" => test[t].IsviStatus \in {1, 4, 100}
  PROVE  TypeOK'
<1>t. test \in [Tests -> TestRec] /\ test[t] \in TestRec
  BY Types
<1>s. Strm(t) \in Streams
  BY Types, ProgramTypes
<1>a. Abort => main' \in MainRec
  <2>1. main \in MainRec
    BY Types
  <2>2. [main EXCEPT !.pc = "abort"] \in MainRec
    BY <2>1 DEF MainRec
  <2> QED BY <2>2 DEF Abort
<1> DEFINE g == test[t].gen \/ prog.tests[t].ctrl
<1>g. g \in BOOLEAN
  OBVIOUS
<1>i. InStarted(t) = [test EXCEPT ![t] = [test[t] EXCEPT !.on = TRUE, !.gen = g]]
  BY <1>t DEF InStarted, TestRec
<1> HIDE DEF g
<1>1. CASE WbInStart(t)
  <2>1. worker' \in [Tests -> WorkerRec] /\ stream' \in [Streams -> StreamRec]
    BY <1>1, GotoTypes, StreamStartTypes, <1>s DEF WbInStart
  <2>2. [test[t] EXCEPT !.gen = TRUE] \in TestRec
    BY <1>t, TestFields
  <2>3. test' = [test EXCEPT ![t] = [test[t] EXCEPT !.gen = TRUE]]
    BY <1>1 DEF WbInStart
  <2> QED BY <1>1, <2>1, <2>2, <2>3, <1>t, TypesKept DEF WbInStart, pollVars
<1>2. CASE WbOutStart(t)
  <2>1. worker' \in [Tests -> WorkerRec] /\ stream' \in [Streams -> StreamRec]
    BY <1>2, GotoTypes, StreamStartTypes, <1>s DEF WbOutStart
  <2> QED BY <1>2, <2>1, TypesKept DEF WbOutStart, pollVars
<1>3. CASE AdmInStart(t)
  <2>1. worker' \in [Tests -> WorkerRec] /\ stream' \in [Streams -> StreamRec]
    BY <1>3, GotoTypes, StreamStartTypes, <1>s DEF AdmInStart
  <2> DEFINE r == [test[t] EXCEPT !.on = TRUE, !.gen = g]
  <2>2. r \in TestRec
    BY <1>t, <1>g, TestRun
  <2>3. test' = [[test EXCEPT ![t] = r] EXCEPT ![t].isDmaStart = TRUE]
    BY <1>3, <1>i DEF AdmInStart
  <2> HIDE DEF r
  <2>4. test' = [test EXCEPT ![t] = [r EXCEPT !.isDmaStart = TRUE]]
    BY <2>2, <2>3, <1>t DEF TestRec
  <2>5. test' \in [Tests -> TestRec]
    BY <2>2, <2>4, <1>t, TestFields
  <2> QED BY <1>3, <2>1, <2>5, TypesKept DEF AdmInStart, pollVars
<1>4. CASE AdmInStartThrow(t)
  <2>1. main' \in MainRec /\ stream' \in [Streams -> StreamRec]
    BY <1>4, <1>a, StreamStartTypes, <1>s DEF AdmInStartThrow
  <2>2. test' \in [Tests -> TestRec]
    <3>1. [test[t] EXCEPT !.on = TRUE, !.gen = g] \in TestRec
      BY <1>t, <1>g, TestRun
    <3> QED BY <1>4, <1>i, <1>t, <3>1 DEF AdmInStartThrow
  <2> QED BY <1>4, <2>1, <2>2, TypesKept DEF AdmInStartThrow, pollVars
<1>5. CASE AdmOutStart(t)
  <2>1. CASE stream[Strm(t)].status # 1
    BY <1>5, <2>1, <1>a, TypesKept DEF AdmOutStart, pollVars
  <2>2. CASE stream[Strm(t)].status = 1
    <3>1. worker' \in [Tests -> WorkerRec] /\ stream' \in [Streams -> StreamRec]
      BY <1>5, <2>2, GotoTypes, StreamStartTypes, <1>s DEF AdmOutStart
    <3>2. [test[t] EXCEPT !.on = TRUE, !.isDmaStart = TRUE, !.gen = TRUE] \in TestRec
      BY <1>t, TestRun
    <3>0. test' = [test EXCEPT ![t] = [test[t] EXCEPT !.on = TRUE, !.isDmaStart = TRUE,
                                                      !.gen = TRUE]]
      BY <1>5, <2>2, <1>t DEF AdmOutStart, TestRec
    <3>3. test' \in [Tests -> TestRec]
      BY <3>0, <3>2, <1>t
    <3>4. UNCHANGED <<prog, main, pollVars, isvi, verdict>>
      BY <1>5, <2>2 DEF AdmOutStart
    <3> QED BY <3>1, <3>3, <3>4, TypesKept DEF pollVars
  <2> QED BY <2>1, <2>2
<1>6. CASE LoopTest(t)
  <2>1. worker' \in [Tests -> WorkerRec]
    BY <1>6, GotoTypes DEF LoopTest
  <2> QED BY <1>6, <2>1, TypesKept DEF LoopTest, pollVars
<1>7. CASE NoBuf(t)
  <2>1. worker' \in [Tests -> WorkerRec]
    BY <1>7, GotoTypes DEF NoBuf
  <2> QED BY <1>7, <2>1, TypesKept DEF NoBuf, pollVars
<1>8. CASE WildStub(t)
  BY <1>8, <1>a, TypesKept DEF WildStub, pollVars
<1>9. CASE WbReceive(t)
  <2>2. PICK wrong \in BOOLEAN : test' = Checked(t, wrong)
    BY <1>9 DEF WbReceive
  <2>3. test' \in [Tests -> TestRec]
    BY <2>2, CheckedTypes
  <2>1. worker' \in [Tests -> WorkerRec] /\ test' \in [Tests -> TestRec]
    BY <1>9, <2>3, NextBufTypes DEF WbReceive
  <2> QED BY <1>9, <2>1, TypesKept DEF WbReceive, pollVars
<1>10. CASE WbSend(t)
  <2>1. worker' \in [Tests -> WorkerRec]
    BY <1>10, NextBufTypes DEF WbSend
  <2> QED BY <1>10, <2>1, TypesKept DEF WbSend, pollVars
<1>11. CASE AdmSend(t)
  <2>1. worker' \in [Tests -> WorkerRec]
    BY <1>11, NextBufTypes DEF AdmSend
  <2>2. PICK wrong \in BOOLEAN : test' = [test EXCEPT ![t].bad = @ \/ wrong]
    BY <1>11 DEF AdmSend
  <2> DEFINE b == test[t].bad \/ wrong
  <2>3. b \in BOOLEAN
    OBVIOUS
  <2>4. test' = [test EXCEPT ![t] = [test[t] EXCEPT !.bad = b]]
    BY <2>2, <1>t
  <2> HIDE DEF b
  <2>5. [test[t] EXCEPT !.bad = b] \in TestRec
    BY <2>3, <1>t, TestFields
  <2>6. test' \in [Tests -> TestRec]
    BY <2>4, <2>5, <1>t
  <2> QED BY <1>11, <2>1, <2>6, TypesKept DEF AdmSend, pollVars
<1>12. CASE AdmReceive(t)
  <2>1. worker' \in [Tests -> WorkerRec]
    BY <1>12, WorkerPcTypes DEF AdmReceive
  <2> QED BY <1>12, <2>1, TypesKept DEF AdmReceive, pollVars
<1>13. CASE IsviCopied(t)
  <2>1. worker' \in [Tests -> WorkerRec]
    BY <1>13, WorkerPcTypes DEF IsviCopied
  <2>2. test[t].IsviStatus \in {0, 1, 4, 100}
    BY <1>13 DEF IsviCopied, At
  <2>3. isvi \in [Tests -> IsviRec] /\ isvi[t] \in IsviRec
    BY Types
  <2> DEFINE v == test[t].IsviStatus
  <2>5. isvi' = [isvi EXCEPT ![t] = [isvi[t] EXCEPT !.val = v]]
    BY <1>13, <2>3 DEF IsviCopied
  <2> HIDE DEF v
  <2>6. v \in {0, 1, 4, 100}
    BY <2>2 DEF v
  <2>7. [isvi[t] EXCEPT !.val = v] \in IsviRec
    BY <2>3, <2>6 DEF IsviRec
  <2>4. isvi' \in [Tests -> IsviRec]
    BY <2>3, <2>5, <2>7
  <2> QED BY <1>13, <2>1, <2>4, TypesKept DEF IsviCopied, pollVars
<1>14. CASE IsviInc(t)
  <2>1. worker' \in [Tests -> WorkerRec]
    BY <1>14, WorkerPcTypes DEF IsviInc
  <2>0. isvi \in [Tests -> IsviRec] /\ isvi[t] \in IsviRec
    BY Types
  <2>2. isvi[t].val + 1 \in 0 .. 5 \cup {100, 101}
    BY <2>0 DEF IsviRec
  <2> DEFINE v == isvi[t].val + 1
  <2>3. test' = [test EXCEPT ![t] = [test[t] EXCEPT !.IsviStatus = v]]
    BY <1>14, <1>t DEF IsviInc
  <2> HIDE DEF v
  <2>4. [isvi[t] EXCEPT !.val = 0] \in IsviRec
    BY <2>0 DEF IsviRec
  <2>6. [test[t] EXCEPT !.IsviStatus = v] \in TestRec
    BY <1>t, <2>2, TestStatus, ZenonT(30) DEF v
  <2>7. test' \in [Tests -> TestRec]
    BY <2>3, <2>6, <1>t
  <2>5. test' \in [Tests -> TestRec] /\ isvi' \in [Tests -> IsviRec]
    BY <1>14, <2>0, <2>7, <2>4 DEF IsviInc
  <2> QED BY <1>14, <2>1, <2>5, TypesKept DEF IsviInc, pollVars
<1>15. CASE AdmCheck(t)
  <2>1. worker' \in [Tests -> WorkerRec]
    BY <1>15, WorkerPcTypes, NextBufTypes DEF AdmCheck
  <2>2. test' \in [Tests -> TestRec]
    <3>1. PICK wrong \in BOOLEAN : test' = Checked(t, wrong)
      BY <1>15 DEF AdmCheck
    <3> QED BY <3>1, CheckedTypes
  <2> QED BY <1>15, <2>1, <2>2, TypesKept DEF AdmCheck, pollVars
<1>16. CASE RestartAdc(t)
  <2>1. worker' \in [Tests -> WorkerRec] /\ stream' \in [Streams -> StreamRec]
    BY <1>16, NextBufTypes, StreamStartTypes, <1>s DEF RestartAdc
  <2> DEFINE f == TetradsOff(Strm(t))
  <2>6. f \in [Tests -> TestRec]
    BY <1>s, TetradsOffTypes
  <2> HIDE DEF f
  <2> DEFINE r == f[t]
  <2>2. r \in TestRec
    BY <2>6
  <2>3. test' = [f EXCEPT ![t] = [r EXCEPT !.BlockRd = 0, !.on = TRUE]]
    BY <1>16, <2>2, <2>6 DEF RestartAdc, f, TestRec
  <2> HIDE DEF r
  <2>4. [r EXCEPT !.BlockRd = 0, !.on = TRUE] \in TestRec
    BY <2>2, TestRun
  <2>5. test' \in [Tests -> TestRec]
    BY <2>6, <2>3, <2>4
  <2> QED BY <1>16, <2>1, <2>5, TypesKept DEF RestartAdc, pollVars
<1>17. CASE WbInFinish(t)
  <2>1. worker' \in [Tests -> WorkerRec] /\ stream' \in [Streams -> StreamRec]
    BY <1>17, GotoTypes, StreamStopTypes, <1>s DEF WbInFinish
  <2> QED BY <1>17, <2>1, TypesKept DEF WbInFinish, pollVars
<1>18. CASE WbOutFinish(t)
  <2>1. worker' \in [Tests -> WorkerRec]
    BY <1>18, GotoTypes DEF WbOutFinish
  <2> QED BY <1>18, <2>1, TypesKept DEF WbOutFinish, pollVars
<1>19. CASE AdmFinish(t)
  <2>1. worker' \in [Tests -> WorkerRec] /\ stream' \in [Streams -> StreamRec]
    BY <1>19, GotoTypes, StreamStopTypes, <1>s DEF AdmFinish
  <2> DEFINE f == TetradsOff(Strm(t))
  <2>6. f \in [Tests -> TestRec]
    BY <1>s, TetradsOffTypes
  <2> HIDE DEF f
  <2> DEFINE r == f[t]
  <2>2. r \in TestRec
    BY <2>6
  <2>3. test' = [f EXCEPT ![t] = [r EXCEPT !.on = FALSE]]
    BY <1>19, <2>6 DEF AdmFinish, f
  <2> HIDE DEF r
  <2>4. test' \in [Tests -> TestRec]
    BY <2>2, <2>3, <2>6, TestFields
  <2> QED BY <1>19, <2>1, <2>4, TypesKept DEF AdmFinish, pollVars
<1>20. CASE Last(t)
  <2>1. worker' \in [Tests -> WorkerRec]
    BY <1>20, GotoTypes DEF Last
  <2>2. [test[t] EXCEPT !.lc_status = 4] \in TestRec
    BY <1>t, TestStatus, ZenonT(30)
  <2>3. test' \in [Tests -> TestRec]
    BY <1>20, <1>t, <2>2 DEF Last
  <2> QED BY <1>20, <2>1, <2>3, TypesKept DEF Last, pollVars
<1> QED BY <1>1, <1>2, <1>3, <1>4, <1>5, <1>6, <1>7, <1>8, <1>9, <1>10, <1>11, <1>12, <1>13,
           <1>14, <1>15, <1>16, <1>17, <1>18, <1>19, <1>20 DEF Worker

LEMMA IsviTypeStep ==
  ASSUME TypeOK, NEW t \in Tests, ExecuteIsvi(t)
  PROVE  TypeOK'
<1>1. test \in [Tests -> TestRec] /\ test[t] \in TestRec
  BY Types
<1>2. isvi' \in [Tests -> IsviRec]
  BY IsviPcTypes DEF ExecuteIsvi, IsviLoop, IsviWrite, ReadFlagSinc, OpenFails, IsviLast, IsviGoto
<1>3. test' = test \/ test' \in [Tests -> TestRec]
  <2>1. /\ [test[t] EXCEPT !.IsviStatus = 3] \in TestRec
        /\ [test[t] EXCEPT !.IsviStatus = 4] \in TestRec
        /\ [test[t] EXCEPT !.IsviStatus = 100] \in TestRec
    BY <1>1 DEF TestRec
  <2>2. \/ test' = test
        \/ test' = [test EXCEPT ![t] = [test[t] EXCEPT !.IsviStatus = 3]]
        \/ test' = [test EXCEPT ![t] = [test[t] EXCEPT !.IsviStatus = 4]]
        \/ test' = [test EXCEPT ![t] = [test[t] EXCEPT !.IsviStatus = 100]]
    BY <1>1 DEF ExecuteIsvi, IsviLoop, IsviWrite, ReadFlagSinc, OpenFails, IsviLast
  <2> QED BY <1>1, <2>1, <2>2
<1>4. UNCHANGED <<prog, main, pollVars, worker, stream, verdict>>
  BY DEF ExecuteIsvi, IsviLoop, IsviWrite, ReadFlagSinc, OpenFails, IsviLast
<1> QED BY <1>2, <1>3, <1>4, TypesKept DEF pollVars

-----------------------------------------------------------------------------
(* What main knows of the threads in each part of its work. *)
PhaseInv ==
  /\ main.pc \in {"prepare", "err"} =>
       /\ \A t \in Tests : worker[t].pc = "none" /\ isvi[t].pc = "none"
       /\ \A s \in Streams : ~stream[s].run
  /\ main.pc = "start" =>
       \A t \in Tests : t >= main.t => worker[t].pc = "none" /\ isvi[t].pc = "none"
  /\ main.pc \in {"result", "delete", "done"} =>
       \A t \in Tests : worker[t].pc = "end" /\ isvi[t].pc \in {"none", "end"}
  /\ main.pc = "delete" => \A t \in Tests : t < main.t => stream[Strm(t)].status = 0
  /\ main.pc = "done" => \A t \in Tests : stream[Strm(t)].status = 0

(* Only an open stream runs, and it belongs to a test that uses it. *)
StreamInv == \A s \in Streams :
  /\ stream[s].run => stream[s].status = 1
  /\ stream[s].status = 1 => stream[s].owner \in Tests /\ Strm(stream[s].owner) = s

(* A thread's last status is written when it ends. *)
EndInv == \A t \in Tests :
  /\ test[t].lc_status = 4 => worker[t].pc = "end"
  /\ test[t].IsviStatus = 100 => isvi[t].pc = "end"
  /\ isvi[t].pc # "none" => Is(t, TRUE, "in")

(* A tetrad in stream mode has a receiving or sending thread that will take *)
(* it back; wb_test has no tetrads, and no ISVI file either.                *)
AdmOnly == {"copy", "inc", "check", "restart"}
TetradInv == \A t \in Tests :
  /\ test[t].on => prog.adm /\ worker[t].pc \notin {"none", "last", "end"}
  /\ worker[t].pc \in AdmOnly => prog.adm

(* bufIsvi goes to and fro with IsviStatus: the receiving thread copies when *)
(* it is 1 or 4, the ISVI thread writes when it is 2 or 5; a thread that has *)
(* seen its turn keeps it.                                                  *)
HandInv == \A t \in Tests :
  /\ worker[t].pc \in {"copy", "inc"} =>
       isvi[t].pc \notin {"write", "flag"} /\ test[t].IsviStatus \in {1, 4, 100}
  /\ isvi[t].pc = "write" => test[t].IsviStatus \in {2, 5}
  /\ isvi[t].pc = "flag" => test[t].IsviStatus = 3

Inv == TypeOK /\ PhaseInv /\ StreamInv /\ EndInv /\ TetradInv /\ HandInv

-----------------------------------------------------------------------------
(* What any step of the thread of test t does to the invariant's terms. *)
StreamsKept == \A s \in Streams :
  /\ stream'[s].status = stream[s].status /\ stream'[s].owner = stream[s].owner
  /\ stream'[s].run => stream[s].run \/ stream[s].status = 1

OthersKept(t) == \A u \in Tests : u # t =>
  /\ worker'[u] = worker[u]
  /\ test'[u].lc_status = test[u].lc_status /\ test'[u].IsviStatus = test[u].IsviStatus
  /\ test'[u].on => test[u].on

HandKept(t) ==
  \/ /\ test'[t].IsviStatus = test[t].IsviStatus
     /\ worker'[t].pc \in {"copy", "inc"} =>
          worker[t].pc = "copy" \/ test[t].IsviStatus \in {1, 4}
  \/ /\ worker[t].pc = "inc" /\ worker'[t].pc \notin {"copy", "inc"}
     /\ test'[t].IsviStatus # 100

WorkerEffect(t) ==
  /\ ~Over /\ worker[t].pc \notin {"none", "end"} /\ worker'[t].pc # "none"
  /\ prog' = prog /\ (main' = main \/ main'.pc = "abort")
  /\ \A u \in Tests : isvi'[u].pc = isvi[u].pc
  /\ StreamsKept /\ OthersKept(t) /\ HandKept(t)
  /\ test'[t].lc_status = 4 => worker'[t].pc = "end"
  /\ test'[t].on => prog.adm /\ worker'[t].pc \notin {"last", "end"}
  /\ worker'[t].pc \in AdmOnly => prog.adm

LEMMA StreamEffects ==
  ASSUME TypeOK, NEW s \in Streams,
         StreamStart(s) \/ StreamStop(s) \/ stream' = stream
  PROVE  StreamsKept
<1>1. stream \in [Streams -> StreamRec]
  BY Types
<1>2. ASSUME NEW r \in Streams
      PROVE  /\ stream'[r].status = stream[r].status /\ stream'[r].owner = stream[r].owner
             /\ stream'[r].run => stream[r].run \/ stream[r].status = 1
  <2>1. stream[r] \in StreamRec /\ stream[s] \in StreamRec
    BY <1>1
  <2>2. CASE StreamStart(s)
    BY <1>1, <2>1, <2>2 DEF StreamStart, StreamRec
  <2>3. CASE StreamStop(s)
    BY <1>1, <2>1, <2>3 DEF StreamStop, StreamRec
  <2> QED BY <2>2, <2>3
<1> QED BY <1>2 DEF StreamsKept

LEMMA WorkerMoves ==
  ASSUME TypeOK, NEW t \in Tests, NEW pc
  PROVE  /\ Goto(t, pc) \/ worker' = [worker EXCEPT ![t].pc = pc] =>
              worker'[t].pc = pc /\ \A u \in Tests : u # t => worker'[u] = worker[u]
         /\ NextBuf(t) => /\ worker'[t].pc \in {"buf", "loop"}
                          /\ \A u \in Tests : u # t => worker'[u] = worker[u]
<1>1. worker \in [Tests -> WorkerRec] /\ worker[t] \in WorkerRec
  BY Types
<1>2. ASSUME Goto(t, pc)
      PROVE  worker'[t].pc = pc /\ \A u \in Tests : u # t => worker'[u] = worker[u]
  BY <1>1, <1>2 DEF Goto
<1>3. ASSUME worker' = [worker EXCEPT ![t].pc = pc]
      PROVE  worker'[t].pc = pc /\ \A u \in Tests : u # t => worker'[u] = worker[u]
  BY <1>1, <1>3 DEF WorkerRec
<1>4. ASSUME NextBuf(t)
      PROVE  /\ worker'[t].pc \in {"buf", "loop"}
             /\ \A u \in Tests : u # t => worker'[u] = worker[u]
  <2> DEFINE w == IF worker[t].kk + 1 < Burst THEN [pc |-> "buf", kk |-> worker[t].kk + 1]
                  ELSE [pc |-> "loop", kk |-> 0]
  <2>1. worker' = [worker EXCEPT ![t] = w]
    BY <1>1, <1>4 DEF NextBuf
  <2>2. w.pc \in {"buf", "loop"}
    OBVIOUS
  <2> HIDE DEF w
  <2> QED BY <2>1, <2>2, <1>1
<1> QED BY <1>2, <1>3, <1>4

(* The steps change the fields of one test; RestartAdc and the end of       *)
(* Execute also take another test's tetrad out of stream mode.              *)
LEMMA TestChange ==
  ASSUME TypeOK, NEW t \in Tests, NEW w, test' = [test EXCEPT ![t] = w]
  PROVE  test'[t] = w /\ \A u \in Tests : u # t => test'[u] = test[u]
BY Types

LEMMA TetradChange ==
  ASSUME TypeOK, NEW t \in Tests, NEW s \in Streams, NEW w,
         test' = [TetradsOff(s) EXCEPT ![t] = w]
  PROVE  /\ test'[t] = w
         /\ \A u \in Tests : u # t =>
              /\ test'[u].lc_status = test[u].lc_status
              /\ test'[u].IsviStatus = test[u].IsviStatus
              /\ test'[u].on => test[u].on
<1>1. TetradsOff(s) \in [Tests -> TestRec] /\ test \in [Tests -> TestRec]
  BY TetradsOffTypes, Types
<1>2. ASSUME NEW u \in Tests
      PROVE  /\ TetradsOff(s)[u].lc_status = test[u].lc_status
             /\ TetradsOff(s)[u].IsviStatus = test[u].IsviStatus
             /\ TetradsOff(s)[u].on => test[u].on
  <2>1. test[u] \in TestRec
    BY <1>1
  <2>2. TetradsOff(s)[u] = test[u] \/ TetradsOff(s)[u] = [test[u] EXCEPT !.on = FALSE]
    BY DEF TetradsOff
  <2> QED BY <2>1, <2>2 DEF TestRec
<1> QED BY <1>1, <1>2

(* The thread of a test, action by action. *)
LEMMA WorkerEffects ==
  ASSUME Inv, NEW t \in Tests, Worker(t)
  PROVE  WorkerEffect(t)
<1>t. /\ TypeOK /\ test[t] \in TestRec /\ worker[t] \in WorkerRec /\ Strm(t) \in Streams
      /\ isvi[t] \in IsviRec
  BY Types, ProgramTypes DEF Inv
<1>p. ~Over /\ worker[t].pc \notin {"none", "end"}
  BY DEF Worker, WbInStart, WbOutStart, AdmInStart, AdmInStartThrow, AdmOutStart, LoopTest,
     NoBuf, WildStub, WbReceive, WbSend, AdmSend, AdmReceive, IsviCopied, IsviInc, AdmCheck,
     RestartAdc, WbInFinish, WbOutFinish, AdmFinish, Last, At
<1>l. /\ test[t].lc_status # 4 /\ (test[t].on => prog.adm /\ worker[t].pc # "last")
      /\ worker[t].pc \in {"copy", "inc", "check", "restart"} => prog.adm
  BY <1>p DEF Inv, EndInv, TetradInv, AdmOnly
<1>1. CASE WbInStart(t)
  <2>1. StreamsKept
    BY <1>1, <1>t, StreamEffects DEF WbInStart
  <2>2. worker'[t].pc = "loop" /\ \A u \in Tests : u # t => worker'[u] = worker[u]
    BY <1>1, <1>t, WorkerMoves DEF WbInStart
  <2>3. test' = [test EXCEPT ![t] = [test[t] EXCEPT !.gen = TRUE]]
    BY <1>1 DEF WbInStart
  <2>4. /\ test'[t] = [test[t] EXCEPT !.gen = TRUE]
        /\ \A u \in Tests : u # t => test'[u] = test[u]
    BY <2>3, <1>t, TestChange
  <2>5. /\ test'[t].lc_status = test[t].lc_status /\ test'[t].IsviStatus = test[t].IsviStatus
        /\ test'[t].on = test[t].on
    BY <2>4, <1>t DEF TestRec
  <2> QED BY <1>1, <1>p, <1>l, <2>1, <2>2, <2>4, <2>5
          DEF WbInStart, WorkerEffect, AdmOnly, OthersKept, HandKept
<1>2. CASE WbOutStart(t)
  <2>1. StreamsKept
    BY <1>2, <1>t, StreamEffects DEF WbOutStart
  <2>2. worker'[t].pc = "loop" /\ \A u \in Tests : u # t => worker'[u] = worker[u]
    BY <1>2, <1>t, WorkerMoves DEF WbOutStart
  <2> QED BY <1>2, <1>p, <1>l, <2>1, <2>2
          DEF WbOutStart, WorkerEffect, AdmOnly, OthersKept, HandKept
<1>3. CASE AdmInStart(t)
  <2>1. StreamsKept
    BY <1>3, <1>t, StreamEffects DEF AdmInStart
  <2>2. worker'[t].pc = "loop" /\ \A u \in Tests : u # t => worker'[u] = worker[u]
    BY <1>3, <1>t, WorkerMoves DEF AdmInStart
  <2> DEFINE b == test[t].gen \/ prog.tests[t].ctrl
             w == [test[t] EXCEPT !.on = TRUE, !.gen = b, !.isDmaStart = TRUE]
  <2>3. test' = [test EXCEPT ![t] = w]
    BY <1>3, <1>t, Types DEF AdmInStart, InStarted
  <2> HIDE DEF b
  <2>4. w.lc_status = test[t].lc_status /\ w.IsviStatus = test[t].IsviStatus
    BY <1>t DEF TestRec
  <2> HIDE DEF w
  <2>5. test'[t] = w /\ \A u \in Tests : u # t => test'[u] = test[u]
    BY <2>3, <1>t, TestChange
  <2> QED BY <1>3, <1>p, <1>l, <2>1, <2>2, <2>4, <2>5
          DEF AdmInStart, WorkerEffect, AdmOnly, OthersKept, HandKept, Is
<1>4. CASE AdmInStartThrow(t)
  <2>1. StreamsKept
    BY <1>4, <1>t, StreamEffects DEF AdmInStartThrow
  <2>2. main'.pc = "abort" /\ worker[t].pc = "start" /\ worker' = worker
    BY <1>4, <1>t, Types DEF AdmInStartThrow, Abort, At, MainRec
  <2> DEFINE b == test[t].gen \/ prog.tests[t].ctrl
             w == [test[t] EXCEPT !.on = TRUE, !.gen = b]
  <2>3. test' = [test EXCEPT ![t] = w]
    BY <1>4, <1>t, Types DEF AdmInStartThrow, InStarted
  <2> HIDE DEF b
  <2>4. w.lc_status = test[t].lc_status /\ w.IsviStatus = test[t].IsviStatus
    BY <1>t DEF TestRec
  <2> HIDE DEF w
  <2>5. test'[t] = w /\ \A u \in Tests : u # t => test'[u] = test[u]
    BY <2>3, <1>t, TestChange
  <2> QED BY <1>4, <1>p, <1>l, <2>1, <2>2, <2>4, <2>5
          DEF AdmInStartThrow, WorkerEffect, AdmOnly, OthersKept, HandKept, Is
<1>5. CASE AdmOutStart(t)
  <2>1. CASE stream[Strm(t)].status # 1
    <3>1. /\ main'.pc = "abort" /\ worker[t].pc = "start" /\ worker' = worker
          /\ stream' = stream /\ test' = test /\ isvi' = isvi /\ prog' = prog
      BY <1>5, <2>1, <1>t, Types DEF AdmOutStart, Abort, At, MainRec
    <3>2. StreamsKept
      BY <3>1, <1>t, StreamEffects
    <3> QED BY <1>p, <1>l, <3>1, <3>2 DEF WorkerEffect, AdmOnly, OthersKept, HandKept
  <2>2. CASE stream[Strm(t)].status = 1
    <3>0. /\ Goto(t, "loop") /\ StreamStart(Strm(t)) /\ main' = main /\ prog.adm
          /\ isvi' = isvi /\ prog' = prog
          /\ test' = [test EXCEPT ![t].on = TRUE, ![t].isDmaStart = TRUE, ![t].gen = TRUE]
      BY <1>5, <2>2 DEF AdmOutStart, Is
    <3>1. StreamsKept
      BY <3>0, <1>t, StreamEffects
    <3>2. worker'[t].pc = "loop" /\ \A u \in Tests : u # t => worker'[u] = worker[u]
      BY <3>0, <1>t, WorkerMoves
    <3> DEFINE w == [test[t] EXCEPT !.on = TRUE, !.isDmaStart = TRUE, !.gen = TRUE]
    <3>3. test' = [test EXCEPT ![t] = w]
      BY <3>0, <1>t, Types
    <3>4. w.lc_status = test[t].lc_status /\ w.IsviStatus = test[t].IsviStatus
      BY <1>t DEF TestRec
    <3> HIDE DEF w
    <3>5. test'[t] = w /\ \A u \in Tests : u # t => test'[u] = test[u]
      BY <3>3, <1>t, TestChange
    <3> QED BY <3>0, <1>p, <1>l, <3>1, <3>2, <3>4, <3>5
            DEF WorkerEffect, AdmOnly, OthersKept, HandKept
  <2> QED BY <2>1, <2>2
<1>6. CASE LoopTest(t) \/ NoBuf(t) \/ WbSend(t) \/ AdmReceive(t)
  <2>1. StreamsKept
    BY <1>6, <1>t, StreamEffects DEF LoopTest, NoBuf, WbSend, AdmReceive
  <2>2. /\ worker'[t].pc \in {"loop", "buf", "finish", "copy", "check"}
        /\ worker'[t].pc = "copy" => test[t].IsviStatus \in {1, 4}
        /\ worker'[t].pc \in {"copy", "check"} => prog.adm
        /\ \A u \in Tests : u # t => worker'[u] = worker[u]
    <3>1. CASE LoopTest(t)
      BY <3>1, <1>t, WorkerMoves DEF LoopTest
    <3>2. CASE NoBuf(t)
      BY <3>2, <1>t, WorkerMoves DEF NoBuf
    <3>3. CASE WbSend(t)
      BY <3>3, <1>t, WorkerMoves DEF WbSend
    <3>4. CASE AdmReceive(t)
      <4> DEFINE pc == IF prog.tests[t].isvi /\ Wanted(test[t].IsviStatus)
                       THEN "copy" ELSE "check"
      <4>1. worker' = [worker EXCEPT ![t].pc = pc] /\ prog.adm
        BY <3>4 DEF AdmReceive, Is
      <4>2. pc \in {"copy", "check"} /\ (pc = "copy" => test[t].IsviStatus \in {1, 4})
        BY DEF Wanted
      <4> HIDE DEF pc
      <4>3. worker'[t].pc = pc /\ \A u \in Tests : u # t => worker'[u] = worker[u]
        BY <4>1, <1>t, WorkerMoves
      <4> QED BY <4>1, <4>2, <4>3
    <3> QED BY <1>6, <3>1, <3>2, <3>3, <3>4
  <2>3. prog' = prog /\ main' = main /\ isvi' = isvi /\ test' = test
    BY <1>6 DEF LoopTest, NoBuf, WbSend, AdmReceive
  <2> QED BY <1>p, <1>l, <2>1, <2>2, <2>3 DEF WorkerEffect, AdmOnly, OthersKept, HandKept
<1>8. CASE WildStub(t)
  <2>1. StreamsKept
    BY <1>8, <1>t, StreamEffects DEF WildStub
  <2>2. /\ main'.pc = "abort" /\ worker[t].pc \in {"buf", "finish"} /\ worker' = worker
        /\ test' = test /\ isvi' = isvi /\ prog' = prog
    BY <1>8, <1>t, Types DEF WildStub, Abort, At, MainRec
  <2> QED BY <1>p, <1>l, <2>1, <2>2 DEF WorkerEffect, AdmOnly, OthersKept, HandKept
<1>9. CASE WbReceive(t) \/ AdmCheck(t)
  <2>1. StreamsKept
    BY <1>9, <1>t, StreamEffects DEF WbReceive, AdmCheck
  <2>2. /\ worker'[t].pc \in {"buf", "loop", "restart"}
        /\ worker'[t].pc = "restart" => prog.adm
        /\ \A u \in Tests : u # t => worker'[u] = worker[u]
    <3>1. CASE WbReceive(t)
      BY <3>1, <1>t, WorkerMoves DEF WbReceive
    <3>2. CASE AdmCheck(t)
      BY <3>2, <1>t, <1>l, WorkerMoves DEF AdmCheck, At
    <3> QED BY <1>9, <3>1, <3>2
  <2>3. PICK wrong \in BOOLEAN : test' = Checked(t, wrong)
    BY <1>9 DEF WbReceive, AdmCheck
  <2> DEFINE b == test[t].bad \/ (wrong /\ prog.tests[t].isTest)
             n == IF test[t].BlockRd > RingSize THEN test[t].BlockRd ELSE test[t].BlockRd + 1
             w == [test[t] EXCEPT !.bad = b, !.BlockRd = n]
  <2>4. test' = [test EXCEPT ![t] = w]
    BY <2>3, <1>t, Types DEF Checked
  <2> HIDE DEF b, n
  <2>5. /\ w.lc_status = test[t].lc_status /\ w.IsviStatus = test[t].IsviStatus
        /\ w.on = test[t].on
    BY <1>t DEF TestRec
  <2> HIDE DEF w
  <2>6. test'[t] = w /\ \A u \in Tests : u # t => test'[u] = test[u]
    BY <2>4, <1>t, TestChange
  <2>7. prog' = prog /\ main' = main /\ isvi' = isvi
    BY <1>9 DEF WbReceive, AdmCheck
  <2> QED BY <1>p, <1>l, <2>1, <2>2, <2>5, <2>6, <2>7
          DEF WorkerEffect, AdmOnly, OthersKept, HandKept
<1>11. CASE AdmSend(t)
  <2>1. StreamsKept
    BY <1>11, <1>t, StreamEffects DEF AdmSend
  <2>2. /\ worker'[t].pc \in {"buf", "loop"}
        /\ \A u \in Tests : u # t => worker'[u] = worker[u]
    BY <1>11, <1>t, WorkerMoves DEF AdmSend
  <2>3. PICK wrong \in BOOLEAN : test' = [test EXCEPT ![t].bad = @ \/ wrong]
    BY <1>11 DEF AdmSend
  <2> DEFINE b == test[t].bad \/ wrong
             w == [test[t] EXCEPT !.bad = b]
  <2>4. test' = [test EXCEPT ![t] = w]
    BY <2>3, <1>t, Types
  <2> HIDE DEF b
  <2>5. /\ w.lc_status = test[t].lc_status /\ w.IsviStatus = test[t].IsviStatus
        /\ w.on = test[t].on
    BY <1>t DEF TestRec
  <2> HIDE DEF w
  <2>6. test'[t] = w /\ \A u \in Tests : u # t => test'[u] = test[u]
    BY <2>4, <1>t, TestChange
  <2>7. prog' = prog /\ main' = main /\ isvi' = isvi
    BY <1>11 DEF AdmSend
  <2> QED BY <1>p, <1>l, <2>1, <2>2, <2>5, <2>6, <2>7
          DEF WorkerEffect, AdmOnly, OthersKept, HandKept
<1>13. CASE IsviCopied(t)
  <2>1. StreamsKept
    BY <1>13, <1>t, StreamEffects DEF IsviCopied
  <2>2. /\ worker[t].pc = "copy" /\ worker'[t].pc = "inc"
        /\ \A u \in Tests : u # t => worker'[u] = worker[u]
    BY <1>13, <1>t, WorkerMoves DEF IsviCopied, At
  <2>3. \A u \in Tests : isvi'[u].pc = isvi[u].pc
    BY <1>13, <1>t, Types, ZenonT(30) DEF IsviCopied, IsviRec
  <2> QED BY <1>13, <1>p, <1>l, <2>1, <2>2, <2>3
          DEF IsviCopied, WorkerEffect, AdmOnly, OthersKept, HandKept
<1>14. CASE IsviInc(t)
  <2>1. StreamsKept
    BY <1>14, <1>t, StreamEffects DEF IsviInc
  <2>2. /\ worker[t].pc = "inc" /\ worker'[t].pc = "check"
        /\ \A u \in Tests : u # t => worker'[u] = worker[u]
    BY <1>14, <1>t, WorkerMoves DEF IsviInc, At
  <2>3. \A u \in Tests : isvi'[u].pc = isvi[u].pc
    BY <1>14, <1>t, Types, ZenonT(30) DEF IsviInc, IsviRec
  <2> DEFINE v == isvi[t].val + 1
             w == [test[t] EXCEPT !.IsviStatus = v]
  <2>4. v # 100
    BY <1>t DEF IsviRec
  <2>5. test' = [test EXCEPT ![t] = w]
    BY <1>14, <1>t, Types DEF IsviInc
  <2> HIDE DEF v
  <2>6. w.lc_status = test[t].lc_status /\ w.IsviStatus # 100 /\ w.on = test[t].on
    BY <2>4, <1>t DEF TestRec
  <2> HIDE DEF w
  <2>7. test'[t] = w /\ \A u \in Tests : u # t => test'[u] = test[u]
    BY <2>5, <1>t, TestChange
  <2> QED BY <1>14, <1>p, <1>l, <2>1, <2>2, <2>3, <2>6, <2>7
          DEF IsviInc, WorkerEffect, AdmOnly, OthersKept, HandKept
<1>16. CASE RestartAdc(t)
  <2>1. StreamsKept
    BY <1>16, <1>t, StreamEffects DEF RestartAdc
  <2>2. /\ worker'[t].pc \in {"buf", "loop"} /\ worker[t].pc = "restart"
        /\ \A u \in Tests : u # t => worker'[u] = worker[u]
    BY <1>16, <1>t, WorkerMoves DEF RestartAdc, At
  <2> DEFINE f == TetradsOff(Strm(t))
             w == [f[t] EXCEPT !.BlockRd = 0, !.on = TRUE]
  <2>3. f \in [Tests -> TestRec]
    BY <1>t, TetradsOffTypes
  <2>4. f[t].lc_status = test[t].lc_status /\ f[t].IsviStatus = test[t].IsviStatus
    BY <1>t DEF TetradsOff, TestRec
  <2>5. test' = [TetradsOff(Strm(t)) EXCEPT ![t] = w]
    BY <1>16, <2>3 DEF RestartAdc, TestRec
  <2> HIDE DEF f
  <2>6. w.lc_status = test[t].lc_status /\ w.IsviStatus = test[t].IsviStatus
    BY <2>3, <2>4, <1>t DEF TestRec
  <2> HIDE DEF w
  <2>7. /\ test'[t] = w
        /\ \A u \in Tests : u # t =>
             /\ test'[u].lc_status = test[u].lc_status
             /\ test'[u].IsviStatus = test[u].IsviStatus
             /\ test'[u].on => test[u].on
    BY <2>5, <1>t, TetradChange
  <2>8. prog.adm
    BY <1>l, <2>2
  <2> QED BY <1>16, <1>p, <1>l, <2>1, <2>2, <2>6, <2>7, <2>8
          DEF RestartAdc, WorkerEffect, AdmOnly, OthersKept, HandKept
<1>17. CASE WbInFinish(t) \/ WbOutFinish(t)
  <2>1. StreamsKept
    BY <1>17, <1>t, StreamEffects DEF WbInFinish, WbOutFinish
  <2>2. worker'[t].pc = "last" /\ \A u \in Tests : u # t => worker'[u] = worker[u]
    BY <1>17, <1>t, WorkerMoves DEF WbInFinish, WbOutFinish
  <2>3. ~prog.adm /\ prog' = prog /\ main' = main /\ isvi' = isvi /\ test' = test
    BY <1>17, ProgramTypes, Types, <1>t DEF WbInFinish, WbOutFinish, Is
  <2> QED BY <1>p, <1>l, <2>1, <2>2, <2>3 DEF WorkerEffect, AdmOnly, OthersKept, HandKept
<1>19. CASE AdmFinish(t)
  <2>1. StreamsKept
    BY <1>19, <1>t, StreamEffects DEF AdmFinish
  <2>2. worker'[t].pc = "last" /\ \A u \in Tests : u # t => worker'[u] = worker[u]
    BY <1>19, <1>t, WorkerMoves DEF AdmFinish
  <2> DEFINE f == TetradsOff(Strm(t))
             w == [f[t] EXCEPT !.on = FALSE]
  <2>3. f \in [Tests -> TestRec]
    BY <1>t, TetradsOffTypes
  <2>4. f[t].lc_status = test[t].lc_status /\ f[t].IsviStatus = test[t].IsviStatus
    BY <1>t DEF TetradsOff, TestRec
  <2>5. test' = [TetradsOff(Strm(t)) EXCEPT ![t] = w]
    BY <1>19, <2>3 DEF AdmFinish
  <2> HIDE DEF f
  <2>6. /\ w.lc_status = test[t].lc_status /\ w.IsviStatus = test[t].IsviStatus
        /\ ~w.on
    BY <2>3, <2>4, <1>t DEF TestRec
  <2> HIDE DEF w
  <2>7. /\ test'[t] = w
        /\ \A u \in Tests : u # t =>
             /\ test'[u].lc_status = test[u].lc_status
             /\ test'[u].IsviStatus = test[u].IsviStatus
             /\ test'[u].on => test[u].on
    BY <2>5, <1>t, TetradChange
  <2> QED BY <1>19, <1>p, <1>l, <2>1, <2>2, <2>6, <2>7
          DEF AdmFinish, WorkerEffect, AdmOnly, OthersKept, HandKept
<1>20. CASE Last(t)
  <2>1. StreamsKept
    BY <1>20, <1>t, StreamEffects DEF Last
  <2>2. /\ worker[t].pc = "last" /\ worker'[t].pc = "end"
        /\ \A u \in Tests : u # t => worker'[u] = worker[u]
    BY <1>20, <1>t, WorkerMoves DEF Last, At
  <2>3. test' = [test EXCEPT ![t] = [test[t] EXCEPT !.lc_status = 4]]
    BY <1>20 DEF Last
  <2>4. /\ test'[t] = [test[t] EXCEPT !.lc_status = 4]
        /\ \A u \in Tests : u # t => test'[u] = test[u]
    BY <2>3, <1>t, TestChange
  <2>5. test'[t].IsviStatus = test[t].IsviStatus /\ test'[t].on = test[t].on
    BY <2>4, <1>t DEF TestRec
  <2> QED BY <1>20, <1>p, <1>l, <2>1, <2>2, <2>4, <2>5
          DEF Last, WorkerEffect, AdmOnly, OthersKept, HandKept
<1> QED BY <1>1, <1>2, <1>3, <1>4, <1>5, <1>6, <1>8, <1>9, <1>11, <1>13, <1>14, <1>16, <1>17,
           <1>19, <1>20 DEF Worker

(* What such a step leaves of the invariant. *)
LEMMA WorkerInvStep ==
  ASSUME Inv, TypeOK', NEW t \in Tests, Worker(t)
  PROVE  Inv'
<1>e. WorkerEffect(t)
  BY WorkerEffects
<1>t. TypeOK /\ PhaseInv /\ StreamInv /\ EndInv /\ TetradInv /\ HandInv
  BY DEF Inv
<1>p. prog' = prog /\ Tests' = Tests /\ \A u \in Tests : (Strm(u))' = Strm(u)
  BY <1>e DEF WorkerEffect, Tests, Strm
<1>u. \A u \in Tests : u # t =>
        /\ worker'[u] = worker[u] /\ test'[u].lc_status = test[u].lc_status
        /\ test'[u].IsviStatus = test[u].IsviStatus /\ (test'[u].on => test[u].on)
  BY <1>e DEF WorkerEffect, OthersKept
<1>m. main.pc \notin {"prepare", "err", "result", "delete", "done"}
  BY <1>e, <1>t DEF WorkerEffect, PhaseInv, Over
<1>1. PhaseInv'
  <2>1. main' = main \/ main'.pc = "abort"
    BY <1>e DEF WorkerEffect
  <2>2. ASSUME main' = main, main.pc = "start", NEW u \in Tests, u >= main.t
        PROVE  worker'[u].pc = "none" /\ isvi'[u].pc = "none"
    <3>1. worker[u].pc = "none" /\ isvi[u].pc = "none"
      BY <2>2, <1>t DEF PhaseInv
    <3>2. u # t
      BY <3>1, <1>e DEF WorkerEffect
    <3> QED BY <3>1, <3>2, <1>u, <1>e DEF WorkerEffect
  <2>3. CASE main' = main
    BY <2>3, <2>2, <1>m, <1>p DEF PhaseInv
  <2>4. CASE main'.pc = "abort"
    BY <2>4 DEF PhaseInv
  <2> QED BY <2>1, <2>3, <2>4
<1>2. StreamInv'
  <2>1. StreamsKept
    BY <1>e DEF WorkerEffect
  <2> QED BY <2>1, <1>t, <1>p DEF StreamsKept, StreamInv
<1>3. EndInv'
  <2>1. ASSUME NEW u \in Tests
        PROVE  /\ test'[u].lc_status = 4 => worker'[u].pc = "end"
               /\ test'[u].IsviStatus = 100 => isvi'[u].pc = "end"
               /\ isvi'[u].pc # "none" => Is(u, TRUE, "in")
    <3>1. CASE u = t
      BY <3>1, <1>e, <1>t DEF WorkerEffect, HandKept, EndInv
    <3>2. CASE u # t
      <4>1. isvi'[u].pc = isvi[u].pc
        BY <1>e DEF WorkerEffect
      <4>2. /\ worker'[u] = worker[u] /\ test'[u].lc_status = test[u].lc_status
            /\ test'[u].IsviStatus = test[u].IsviStatus
        BY <3>2, <1>u
      <4> QED BY <4>1, <4>2, <1>t, ZenonT(30) DEF EndInv
    <3> QED BY <3>1, <3>2
  <2> QED BY <2>1, <1>p DEF EndInv, Is
<1>4. TetradInv'
  <2>1. ASSUME NEW u \in Tests
        PROVE  /\ test'[u].on => prog.adm /\ worker'[u].pc \notin {"none", "last", "end"}
               /\ worker'[u].pc \in AdmOnly => prog.adm
    <3>1. CASE u = t
      BY <3>1, <1>e DEF WorkerEffect
    <3>2. CASE u # t
      BY <3>2, <1>u, <1>t DEF TetradInv
    <3> QED BY <3>1, <3>2
  <2> QED BY <2>1, <1>p DEF TetradInv, AdmOnly
<1>5. HandInv'
  <2>1. ASSUME NEW u \in Tests
        PROVE  /\ worker'[u].pc \in {"copy", "inc"} =>
                    isvi'[u].pc \notin {"write", "flag"} /\ test'[u].IsviStatus \in {1, 4, 100}
               /\ isvi'[u].pc = "write" => test'[u].IsviStatus \in {2, 5}
               /\ isvi'[u].pc = "flag" => test'[u].IsviStatus = 3
    <3>1. CASE u = t
      BY <3>1, <1>e, <1>t DEF WorkerEffect, HandKept, HandInv
    <3>2. CASE u # t
      BY <3>2, <1>u, <1>e, <1>t DEF WorkerEffect, HandInv
    <3> QED BY <3>1, <3>2
  <2> QED BY <2>1, <1>p DEF HandInv
<1> QED BY <1>1, <1>2, <1>3, <1>4, <1>5 DEF Inv

(* The ISVI thread changes IsviStatus in its turn, and nothing else. *)
LEMMA IsviInvStep ==
  ASSUME Inv, TypeOK', NEW t \in Tests, ExecuteIsvi(t)
  PROVE  Inv'
<1>t. /\ TypeOK /\ PhaseInv /\ StreamInv /\ EndInv /\ TetradInv /\ HandInv
      /\ test \in [Tests -> TestRec] /\ isvi \in [Tests -> IsviRec]
      /\ test[t] \in TestRec /\ isvi[t] \in IsviRec
  BY Types DEF Inv
<1>p. /\ prog' = prog /\ main' = main /\ worker' = worker /\ stream' = stream
      /\ ~Over /\ isvi[t].pc \notin {"none", "end"}
  BY DEF ExecuteIsvi, IsviLoop, IsviWrite, ReadFlagSinc, OpenFails, IsviLast, IsviAt
<1>c. Tests' = Tests /\ \A u \in Tests : (Strm(u))' = Strm(u)
  BY <1>p DEF Tests, Strm
<1>q. /\ isvi'[t].pc # "none" /\ \A u \in Tests : u # t => isvi'[u] = isvi[u]
      /\ \/ isvi'[t].pc \in {"loop", "last", "retry"}
         \/ isvi[t].pc = "last" /\ isvi'[t].pc = "end"
         \/ isvi'[t].pc = "write" /\ test[t].IsviStatus \in {2, 5}
         \/ isvi'[t].pc = "flag" /\ test[t].IsviStatus = 3
  <2>1. CASE IsviLoop(t)
    <3> DEFINE pc == IF test[t].Terminate THEN "last"
                     ELSE IF test[t].IsviStatus \in {2, 5} THEN "write"
                     ELSE IF test[t].IsviStatus = 3 THEN "flag" ELSE "loop"
    <3>1. isvi' = [isvi EXCEPT ![t].pc = pc]
      BY <2>1 DEF IsviLoop, IsviGoto
    <3>2. \/ pc \in {"loop", "last"}
          \/ pc = "write" /\ test[t].IsviStatus \in {2, 5}
          \/ pc = "flag" /\ test[t].IsviStatus = 3
      OBVIOUS
    <3> HIDE DEF pc
    <3>3. isvi'[t].pc = pc /\ \A u \in Tests : u # t => isvi'[u] = isvi[u]
      BY <3>1, <1>t DEF IsviRec
    <3> QED BY <3>2, <3>3
  <2>2. CASE IsviWrite(t) \/ ReadFlagSinc(t)
    BY <2>2, <1>t DEF IsviWrite, ReadFlagSinc, IsviGoto, IsviRec
  <2>4. CASE OpenFails(t)
    BY <2>4, <1>t DEF OpenFails, IsviGoto, IsviRec
  <2>3. CASE IsviLast(t)
    BY <2>3, <1>t DEF IsviLast, IsviAt, IsviGoto, IsviRec
  <2> QED BY <2>1, <2>2, <2>3, <2>4 DEF ExecuteIsvi
<1>u. \A u \in Tests : u # t => test'[u] = test[u]
  BY <1>t DEF ExecuteIsvi, IsviLoop, IsviWrite, ReadFlagSinc, OpenFails, IsviLast
<1>s. /\ test'[t].lc_status = test[t].lc_status /\ test'[t].on = test[t].on
      /\ \/ test'[t].IsviStatus = test[t].IsviStatus
         \/ isvi[t].pc \in {"write", "flag"} /\ isvi'[t].pc = "loop"
            /\ test'[t].IsviStatus \in {3, 4}
         \/ isvi[t].pc = "last" /\ isvi'[t].pc = "end" /\ test'[t].IsviStatus = 100
  <2>1. CASE IsviLoop(t)
    BY <2>1 DEF IsviLoop
  <2>2. CASE IsviWrite(t)
    BY <2>2, <1>t DEF IsviWrite, IsviAt, IsviGoto, IsviRec, TestRec
  <2>3. CASE ReadFlagSinc(t)
    BY <2>3, <1>t DEF ReadFlagSinc, IsviAt, IsviGoto, IsviRec, TestRec
  <2>4. CASE IsviLast(t)
    BY <2>4, <1>t DEF IsviLast, IsviAt, IsviGoto, IsviRec, TestRec
  <2>5. CASE OpenFails(t)
    BY <2>5 DEF OpenFails
  <2> QED BY <2>1, <2>2, <2>3, <2>4, <2>5 DEF ExecuteIsvi
<1>1. PhaseInv'
  <2>1. main.pc \notin {"prepare", "err", "result", "delete", "done"}
    BY <1>p, <1>t DEF PhaseInv, Over
  <2>2. ASSUME main.pc = "start", NEW u \in Tests, u >= main.t
        PROVE  worker[u].pc = "none" /\ isvi'[u].pc = "none"
    <3>1. worker[u].pc = "none" /\ isvi[u].pc = "none"
      BY <2>2, <1>t DEF PhaseInv
    <3>2. u # t
      BY <3>1, <1>p
    <3> QED BY <3>1, <3>2, <1>q
  <2> QED BY <2>1, <2>2, <1>p, <1>c DEF PhaseInv
<1>2. StreamInv'
  BY <1>t, <1>p, <1>c DEF StreamInv
<1>3. EndInv'
  <2>1. ASSUME NEW u \in Tests
        PROVE  /\ test'[u].lc_status = 4 => worker[u].pc = "end"
               /\ test'[u].IsviStatus = 100 => isvi'[u].pc = "end"
               /\ isvi'[u].pc # "none" => Is(u, TRUE, "in")
    <3>1. CASE u = t
      BY <3>1, <1>s, <1>q, <1>p, <1>t DEF EndInv, Is
    <3>2. CASE u # t
      <4>1. isvi'[u] = isvi[u] /\ test'[u] = test[u]
        BY <3>2, <1>u, <1>q
      <4> QED BY <4>1, <1>t DEF EndInv, Is
    <3> QED BY <3>1, <3>2
  <2> QED BY <2>1, <1>p, <1>c DEF EndInv, Is
<1>4. TetradInv'
  <2>1. ASSUME NEW u \in Tests, test'[u].on
        PROVE  prog.adm /\ worker[u].pc \notin {"none", "last", "end"}
    <3>1. test[u].on
      BY <2>1, <1>u, <1>s
    <3> QED BY <3>1, <1>t DEF TetradInv
  <2> QED BY <2>1, <1>t, <1>p, <1>c DEF TetradInv, AdmOnly
<1>5. HandInv'
  <2>1. ASSUME NEW u \in Tests
        PROVE  /\ worker[u].pc \in {"copy", "inc"} =>
                    isvi'[u].pc \notin {"write", "flag"} /\ test'[u].IsviStatus \in {1, 4, 100}
               /\ isvi'[u].pc = "write" => test'[u].IsviStatus \in {2, 5}
               /\ isvi'[u].pc = "flag" => test'[u].IsviStatus = 3
    <3>1. CASE u = t
      BY <3>1, <1>q, <1>s, <1>t DEF HandInv
    <3>2. CASE u # t
      BY <3>2, <1>u, <1>q, <1>t DEF HandInv
    <3> QED BY <3>1, <3>2
  <2> QED BY <2>1, <1>p, <1>c DEF HandInv
<1> QED BY <1>1, <1>2, <1>3, <1>4, <1>5 DEF Inv

(* Most of main's steps leave the threads alone, and what the threads have  *)
(* written too, apart from the lc_status that Stop writes.                  *)
TestsKept == \A u \in Tests :
  /\ test'[u].lc_status \in {test[u].lc_status, 3}
  /\ test'[u].IsviStatus = test[u].IsviStatus
  /\ test'[u].on => test[u].on

LEMMA MainKeeps ==
  ASSUME Inv, TypeOK', prog' = prog, worker' = worker, isvi' = isvi, TestsKept,
         PhaseInv', StreamInv'
  PROVE  Inv'
<1>t. EndInv /\ TetradInv /\ HandInv
  BY DEF Inv
<1>c. Tests' = Tests
  BY DEF Tests
<1>1. EndInv'
  <2>1. ASSUME NEW u \in Tests
        PROVE  /\ test'[u].lc_status = 4 => worker[u].pc = "end"
               /\ test'[u].IsviStatus = 100 => isvi[u].pc = "end"
               /\ isvi[u].pc # "none" => Is(u, TRUE, "in")
    BY <1>t DEF TestsKept, EndInv, Is
  <2> QED BY <2>1, <1>c DEF EndInv, Is
<1>2. TetradInv'
  BY <1>t, <1>c DEF TestsKept, TetradInv, AdmOnly
<1>3. HandInv'
  BY <1>t, <1>c DEF TestsKept, HandInv
<1> QED BY <1>1, <1>2, <1>3 DEF Inv

LEMMA MainMoves ==
  ASSUME TypeOK, NEW pc
  PROVE  /\ MainGoto(pc) => main'.pc = pc /\ main'.t = 1
         /\ MainNext(pc) => \/ main'.pc = main.pc /\ main'.t = main.t + 1
                            \/ /\ main'.pc = pc /\ main'.t = 1
                               /\ \A u \in Tests : u <= main.t
<1>1. main \in MainRec /\ main.t \in Tests /\ (Tests = 1 .. 1 \/ Tests = 1 .. 2)
  BY Types, ProgramTypes DEF MainRec
<1>2. ASSUME main.t + 1 \notin Tests
      PROVE  \A u \in Tests : u <= main.t
  BY <1>1, <1>2
<1> QED BY <1>1, <1>2 DEF MainGoto, MainNext, MainRec

LEMMA PrepareInvStep ==
  ASSUME Inv, TypeOK', Prepare
  PROVE  Inv'
<1> DEFINE t == main.t
<1>t. /\ TypeOK /\ PhaseInv /\ StreamInv /\ EndInv /\ TetradInv
      /\ test \in [Tests -> TestRec] /\ stream \in [Streams -> StreamRec]
      /\ t \in Tests /\ Strm(t) \in Streams
  <2>1. TypeOK /\ t \in Tests
    BY Types DEF Inv, MainRec
  <2> QED BY <2>1, Types, ProgramTypes DEF Inv
<1>p. /\ prog' = prog /\ worker' = worker /\ isvi' = isvi /\ main.pc = "prepare"
      /\ StreamInit(t) /\ MainNext("start")
      /\ test' = IF Is(t, TRUE, "in") THEN [PrepareAdm(t) EXCEPT ![t].buf = TRUE] ELSE test
  BY DEF Prepare, MainAt
<1> HIDE DEF t
<1>c. Tests' = Tests /\ \A u \in Tests : (Strm(u))' = Strm(u)
  BY <1>p DEF Tests, Strm
<1>n. /\ \A u \in Tests : worker[u].pc = "none" /\ isvi[u].pc = "none"
      /\ \A s \in Streams : ~stream[s].run
  BY <1>p, <1>t DEF PhaseInv
<1>m. main'.pc \in {"prepare", "start"}
  BY <1>p, <1>t, MainMoves
<1>r. \A s \in Streams : \/ stream'[s] = stream[s]
                         \/ s = Strm(t) /\ stream'[s] = [status |-> 1, run |-> FALSE, owner |-> t]
  BY <1>p, <1>t DEF StreamInit
<1>e. \A u \in Tests :
        /\ test'[u].lc_status = test[u].lc_status /\ test'[u].on = test[u].on
        /\ test'[u].IsviStatus \in {test[u].IsviStatus, 0, 1}
  <2>1. CASE Is(t, TRUE, "in")
    <3> DEFINE g == IF prog.tests[t].ctrl THEN FALSE ELSE test[t].gen
               v == IF prog.tests[t].isvi THEN 1 ELSE 0
               w == [test[t] EXCEPT !.gen = g, !.IsviStatus = v, !.buf = TRUE]
    <3>1. v \in {0, 1}
      OBVIOUS
    <3>2. test' = [test EXCEPT ![t] = w]
      BY <2>1, <1>p, <1>t DEF PrepareAdm
    <3> HIDE DEF g, v
    <3>3. w.lc_status = test[t].lc_status /\ w.on = test[t].on /\ w.IsviStatus = v
      BY <1>t DEF TestRec
    <3> HIDE DEF w
    <3>4. test'[t] = w /\ \A u \in Tests : u # t => test'[u] = test[u]
      BY <3>2, <1>t, TestChange
    <3> QED BY <3>1, <3>3, <3>4
  <2>2. CASE ~Is(t, TRUE, "in")
    BY <2>2, <1>p
  <2> QED BY <2>1, <2>2
<1>1. PhaseInv'
  <2>1. \A s \in Streams : ~stream'[s].run
    BY <1>r, <1>n
  <2> QED BY <2>1, <1>m, <1>n, <1>p, <1>c DEF PhaseInv
<1>2. StreamInv'
  BY <1>r, <1>t, <1>c DEF StreamInv
<1>3. EndInv'
  <2>1. ASSUME NEW u \in Tests
        PROVE  /\ test'[u].lc_status = 4 => worker[u].pc = "end"
               /\ test'[u].IsviStatus = 100 => isvi[u].pc = "end"
    BY <1>e, <1>t DEF EndInv, Is
  <2> QED BY <2>1, <1>n, <1>p, <1>c DEF EndInv, Is
<1>4. TetradInv'
  BY <1>e, <1>n, <1>t, <1>p, <1>c DEF TetradInv, AdmOnly
<1>5. HandInv'
  BY <1>n, <1>p, <1>c DEF HandInv
<1> QED BY <1>1, <1>2, <1>3, <1>4, <1>5 DEF Inv

LEMMA StartInvStep ==
  ASSUME Inv, TypeOK', Start \/ StartTwo
  PROVE  Inv'
<1> DEFINE t == main.t
<1>t. /\ TypeOK /\ PhaseInv /\ StreamInv /\ EndInv /\ TetradInv /\ HandInv
      /\ worker \in [Tests -> WorkerRec] /\ isvi \in [Tests -> IsviRec]
      /\ t \in Tests /\ Tests \subseteq 1 .. 2
  <2>1. TypeOK /\ t \in Tests
    BY Types DEF Inv, MainRec
  <2> QED BY <2>1, Types, ProgramTypes DEF Inv
<1>p. /\ prog' = prog /\ test' = test /\ stream' = stream /\ main.pc = "start"
      /\ MainNext("poll")
      /\ worker' = worker \/ worker' = [worker EXCEPT ![t].pc = "start"]
      /\ isvi' = isvi \/ (Is(t, TRUE, "in") /\ isvi' = [isvi EXCEPT ![t].pc = "loop"])
  BY DEF Start, StartTwo, MainAt
<1> HIDE DEF t
<1>c. Tests' = Tests /\ \A u \in Tests : (Strm(u))' = Strm(u)
  BY <1>p DEF Tests, Strm
<1>n. worker[t].pc = "none" /\ isvi[t].pc = "none"
  BY <1>p, <1>t DEF PhaseInv, t
<1>w. /\ worker'[t].pc \in {"none", "start"}
      /\ \A u \in Tests : u # t => worker'[u] = worker[u]
  BY <1>p, <1>t, <1>n DEF WorkerRec
<1>i. /\ isvi'[t].pc \in {"none", "loop"} /\ (isvi'[t].pc = "loop" => Is(t, TRUE, "in"))
      /\ \A u \in Tests : u # t => isvi'[u] = isvi[u]
  BY <1>p, <1>t, <1>n DEF IsviRec, Is
<1>m. \/ main'.pc = "start" /\ main'.t = t + 1
      \/ main'.pc = "poll"
  BY <1>p, <1>t, MainMoves DEF t
<1>1. PhaseInv'
  <2>1. ASSUME main'.pc = "start", NEW u \in Tests, u >= main'.t
        PROVE  worker'[u].pc = "none" /\ isvi'[u].pc = "none"
    <3>1. u # t /\ u >= t
      BY <2>1, <1>m, <1>t
    <3>2. worker[u].pc = "none" /\ isvi[u].pc = "none"
      BY <3>1, <1>t, <1>p DEF PhaseInv, t
    <3> QED BY <3>1, <3>2, <1>w, <1>i
  <2> QED BY <2>1, <1>m, <1>c DEF PhaseInv
<1>2. StreamInv'
  BY <1>p, <1>t, <1>c DEF StreamInv
<1>3. EndInv'
  <2>1. ASSUME NEW u \in Tests
        PROVE  /\ test[u].lc_status = 4 => worker'[u].pc = "end"
               /\ test[u].IsviStatus = 100 => isvi'[u].pc = "end"
               /\ isvi'[u].pc # "none" => Is(u, TRUE, "in")
    <3>1. CASE u = t
      BY <3>1, <1>i, <1>n, <1>t DEF EndInv, Is
    <3>2. CASE u # t
      BY <3>2, <1>w, <1>i, <1>t DEF EndInv, Is
    <3> QED BY <3>1, <3>2
  <2> QED BY <2>1, <1>p, <1>c DEF EndInv, Is
<1>4. TetradInv'
  <2>1. ASSUME NEW u \in Tests
        PROVE  /\ test[u].on => prog.adm /\ worker'[u].pc \notin {"none", "last", "end"}
               /\ worker'[u].pc \in AdmOnly => prog.adm
    <3>1. CASE u = t
      BY <3>1, <1>w, <1>n, <1>t DEF TetradInv, AdmOnly
    <3>2. CASE u # t
      BY <3>2, <1>w, <1>t DEF TetradInv
    <3> QED BY <3>1, <3>2
  <2> QED BY <2>1, <1>p, <1>c DEF TetradInv, AdmOnly
<1>5. HandInv'
  <2>1. ASSUME NEW u \in Tests
        PROVE  /\ worker'[u].pc \in {"copy", "inc"} =>
                    isvi'[u].pc \notin {"write", "flag"} /\ test[u].IsviStatus \in {1, 4, 100}
               /\ isvi'[u].pc = "write" => test[u].IsviStatus \in {2, 5}
               /\ isvi'[u].pc = "flag" => test[u].IsviStatus = 3
    <3>1. CASE u = t
      BY <3>1, <1>w, <1>i
    <3>2. CASE u # t
      BY <3>2, <1>w, <1>i, <1>t DEF HandInv
    <3> QED BY <3>1, <3>2
  <2> QED BY <2>1, <1>p, <1>c DEF HandInv
<1> QED BY <1>1, <1>2, <1>3, <1>4, <1>5 DEF Inv

(* The poll loop, the results and delete. *)
LEMMA LoopInvStep ==
  ASSUME Inv, TypeOK', Main, ~Prepare, ~Start, ~StartTwo
  PROVE  Inv'
<1> DEFINE t == main.t
<1>t. /\ TypeOK /\ PhaseInv /\ StreamInv /\ EndInv
      /\ test \in [Tests -> TestRec] /\ stream \in [Streams -> StreamRec]
      /\ t \in Tests /\ Strm(t) \in Streams /\ 1 \in Tests /\ Tests \subseteq 1 .. 2
  <2>1. TypeOK /\ t \in Tests
    BY Types DEF Inv, MainRec
  <2> QED BY <2>1, Types, ProgramTypes DEF Inv
<1>a. PrepareThrow \/ Poll \/ StopTerminate \/ StopStatus \/ Complete \/ InStep \/ OutStep
      \/ InResult \/ OutResult \/ Delete
  BY DEF Main
<1>p. prog' = prog /\ worker' = worker /\ isvi' = isvi
  BY <1>a DEF PrepareThrow, Poll, StopTerminate, StopStatus, Complete, InStep, OutStep, InResult,
     OutResult, Delete
<1> HIDE DEF t
<1>c. Tests' = Tests /\ \A u \in Tests : (Strm(u))' = Strm(u)
  BY <1>p DEF Tests, Strm
<1>1. ASSUME PrepareThrow \/ Poll \/ Complete
      PROVE  Inv'
  <2>1. test' = test /\ stream' = stream
    BY <1>1 DEF PrepareThrow, Poll, Complete
  <2>2. \/ main.pc = "prepare" /\ main'.pc = "err"
        \/ main'.pc \in {"terminate", "complete", "poll", "step"}
        \/ /\ main'.pc = "result"
           /\ \A u \in Tests : isComplete(u)
    <3>1. CASE PrepareThrow
      BY <3>1, <1>t, MainMoves DEF PrepareThrow, MainAt
    <3>2. CASE Poll
      BY <3>2, <1>t, MainMoves DEF Poll
    <3>3. CASE Complete
      <4>1. CASE isStopped /\ \A u \in Tests : isComplete(u)
        BY <3>3, <4>1, <1>t, MainMoves DEF Complete
      <4>2. CASE ~(isStopped /\ \A u \in Tests : isComplete(u))
        <5>1. MainGoto("poll") \/ MainGoto("step")
          BY <3>3, <4>2 DEF Complete
        <5> QED BY <5>1, <1>t, MainMoves
      <4> QED BY <4>1, <4>2
    <3> QED BY <1>1, <3>1, <3>2, <3>3
  <2>3. ASSUME NEW u \in Tests, isComplete(u)
        PROVE  worker[u].pc = "end" /\ isvi[u].pc \in {"none", "end"}
    BY <2>3, <1>t DEF isComplete, EndInv, Is
  <2>4. PhaseInv'
    BY <2>1, <2>2, <2>3, <1>t, <1>p, <1>c DEF PhaseInv
  <2>5. StreamInv' /\ TestsKept
    BY <2>1, <1>t, <1>c DEF StreamInv, TestsKept
  <2> QED BY <2>4, <2>5, <1>p, MainKeeps
<1>2. ASSUME StopTerminate \/ StopStatus
      PROVE  Inv'
  <2>1. stream' = stream
    BY <1>2 DEF StopTerminate, StopStatus
  <2>2. main'.pc \in {"status", "terminate", "complete"}
    <3>1. main \in MainRec
      BY <1>t, Types
    <3>2. CASE StopTerminate
      BY <3>1, <3>2 DEF StopTerminate, MainRec
    <3>3. CASE StopStatus
      BY <3>1, <3>3 DEF StopStatus, MainRec
    <3> QED BY <1>2, <3>2, <3>3
  <2>3. TestsKept
    <3>1. CASE StopTerminate
      <4> DEFINE b == test[t].gen /\ ~(Is(t, TRUE, "out") /\ prog.tests[t].isTest)
                 w == [test[t] EXCEPT !.Terminate = TRUE, !.gen = b]
      <4>1. test' = [test EXCEPT ![t] = w]
        BY <3>1, <1>t DEF StopTerminate, t
      <4> HIDE DEF b
      <4>2. /\ w.lc_status = test[t].lc_status /\ w.IsviStatus = test[t].IsviStatus
            /\ w.on = test[t].on
        BY <1>t DEF TestRec
      <4> HIDE DEF w
      <4>3. test'[t] = w /\ \A u \in Tests : u # t => test'[u] = test[u]
        BY <4>1, <1>t, TestChange
      <4> QED BY <4>2, <4>3 DEF TestsKept
    <3>2. CASE StopStatus
      <4> DEFINE w == [test[t] EXCEPT !.lc_status = 3]
      <4>1. test' = [test EXCEPT ![t] = w]
        BY <3>2, <1>t DEF StopStatus, t
      <4>2. w.lc_status = 3 /\ w.IsviStatus = test[t].IsviStatus /\ w.on = test[t].on
        BY <1>t DEF TestRec
      <4> HIDE DEF w
      <4>3. test'[t] = w /\ \A u \in Tests : u # t => test'[u] = test[u]
        BY <4>1, <1>t, TestChange
      <4> QED BY <4>2, <4>3 DEF TestsKept
    <3> QED BY <1>2, <3>1, <3>2
  <2>4. PhaseInv' /\ StreamInv'
    BY <2>1, <2>2, <1>t, <1>c DEF PhaseInv, StreamInv
  <2> QED BY <2>3, <2>4, <1>p, MainKeeps
<1>3. ASSUME InStep \/ OutStep \/ InResult \/ OutResult
      PROVE  Inv'
  <2>1. stream' = stream
    BY <1>3 DEF InStep, OutStep, InResult, OutResult
  <2>2. \/ main.pc = "step" /\ main'.pc \in {"step", "poll"}
        \/ main.pc = "result" /\ main'.pc = "result"
        \/ main.pc = "result" /\ main'.pc = "delete" /\ main'.t = 1
    <3>1. CASE InStep \/ OutStep
      BY <3>1, <1>t, MainMoves DEF InStep, OutStep, MainAt
    <3>2. CASE InResult \/ OutResult
      BY <3>2, <1>t, MainMoves DEF InResult, OutResult, MainAt
    <3> QED BY <1>3, <3>1, <3>2
  <2>3. TestsKept
    <3>1. \/ test' = test
          \/ test' = [test EXCEPT ![t].BlockError = test[t].bad]
      BY <1>3 DEF InStep, OutStep, InResult, OutResult, t
    <3>2. CASE test' = test
      BY <3>2 DEF TestsKept
    <3>3. CASE test' = [test EXCEPT ![t].BlockError = test[t].bad]
      <4> DEFINE b == test[t].bad
                 w == [test[t] EXCEPT !.BlockError = b]
      <4>1. test' = [test EXCEPT ![t] = w]
        BY <3>3, <1>t
      <4> HIDE DEF b
      <4>2. /\ w.lc_status = test[t].lc_status /\ w.IsviStatus = test[t].IsviStatus
            /\ w.on = test[t].on
        BY <1>t DEF TestRec
      <4> HIDE DEF w
      <4>3. test'[t] = w /\ \A u \in Tests : u # t => test'[u] = test[u]
        BY <4>1, <1>t, TestChange
      <4> QED BY <4>2, <4>3 DEF TestsKept
    <3> QED BY <3>1, <3>2, <3>3
  <2>4. \A u \in Tests : ~(u < 1)
    BY <1>t
  <2>5. PhaseInv' /\ StreamInv'
    BY <2>1, <2>2, <2>4, <1>t, <1>p, <1>c DEF PhaseInv, StreamInv
  <2> QED BY <2>3, <2>5, <1>p, MainKeeps
<1>4. ASSUME Delete
      PROVE  Inv'
  <2>1. \A s \in Streams : \/ stream'[s] = stream[s] /\ (s = Strm(t) => stream[s].status = 0)
                           \/ stream'[s] = Fresh
    BY <1>4, <1>t DEF Delete, StreamDestroy, t
  <2>2. TestsKept
    <3>1. ASSUME NEW u \in Tests
          PROVE  /\ test'[u].lc_status = test[u].lc_status
                 /\ test'[u].IsviStatus = test[u].IsviStatus /\ (test'[u].on => test[u].on)
      <4> DEFINE off == IF stream[Strm(t)].status = 0 THEN test[u] ELSE TetradsOff(Strm(t))[u]
      <4>1. off = test[u] \/ off = [test[u] EXCEPT !.on = FALSE]
        BY DEF TetradsOff
      <4>2. test'[u] = off \/ test'[u] = [off EXCEPT !.buf = FALSE]
        BY <1>4 DEF Delete, t
      <4> HIDE DEF off
      <4>3. test[u] \in TestRec /\ off \in TestRec
        BY <4>1, <1>t, TestFields
      <4>4. /\ off.lc_status = test[u].lc_status /\ off.IsviStatus = test[u].IsviStatus
            /\ off.on => test[u].on
        BY <4>1, <4>3 DEF TestRec
      <4>5. /\ test'[u].lc_status = off.lc_status /\ test'[u].IsviStatus = off.IsviStatus
            /\ test'[u].on <=> off.on
        BY <4>2, <4>3 DEF TestRec
      <4> QED BY <4>4, <4>5
    <3> QED BY <3>1 DEF TestsKept
  <2>3. /\ main.pc = "delete"
        /\ \/ main'.pc = "delete" /\ main'.t = t + 1
           \/ main'.pc = "done" /\ \A u \in Tests : u <= t
    BY <1>4, <1>t, MainMoves DEF Delete, MainAt, t
  <2>4. ASSUME NEW u \in Tests, u <= t
        PROVE  stream'[Strm(u)].status = 0
    <3>1. Strm(u) \in Streams
      BY <1>t, Types, ProgramTypes
    <3>2. CASE u = t
      BY <3>1, <3>2, <2>1 DEF Fresh
    <3>3. CASE u < t
      BY <3>1, <3>3, <2>1, <2>3, <1>t DEF Fresh, PhaseInv, t
    <3> QED BY <2>4, <3>2, <3>3, <1>t
  <2>5. PhaseInv'
    <3>1. \A u \in Tests : worker[u].pc = "end" /\ isvi[u].pc \in {"none", "end"}
      BY <2>3, <1>t DEF PhaseInv
    <3>2. \A u \in Tests : u < t + 1 => u <= t
      BY <1>t
    <3> QED BY <3>1, <3>2, <2>3, <2>4, <1>p, <1>c DEF PhaseInv
  <2>6. StreamInv'
    BY <2>1, <1>t, <1>c DEF StreamInv, Fresh
  <2> QED BY <2>2, <2>5, <2>6, <1>p, MainKeeps
<1> QED BY <1>a, <1>1, <1>2, <1>3, <1>4

-----------------------------------------------------------------------------
LEMMA InitInv == Init => Inv
<1> SUFFICES ASSUME Init PROVE Inv
  OBVIOUS
<1>1. TypeOK
  BY InitTypes
<1>2. /\ main.pc = "prepare"
      /\ \A t \in Tests : worker[t].pc = "none" /\ isvi[t].pc = "none"
      /\ \A t \in Tests : test[t].lc_status = 0 /\ test[t].IsviStatus = 0 /\ ~test[t].on
      /\ \A s \in Streams : stream[s].status # 1 /\ ~stream[s].run
  <2>1. \A s \in Streams : stream[s] = Fresh \/ stream[s] = Junk
    BY DEF Init
  <2>2. Fresh.status = 0 /\ ~Fresh.run /\ Junk.status = 2 /\ ~Junk.run
    BY DEF Fresh, Junk
  <2>3. \A s \in Streams : stream[s].status # 1 /\ ~stream[s].run
    BY <2>1, <2>2
  <2>4. PICK dma \in BOOLEAN : test = [t \in Tests |-> NewTest(dma)]
    BY DEF Init
  <2>5. \A t \in Tests : test[t].lc_status = 0 /\ test[t].IsviStatus = 0 /\ ~test[t].on
    BY <2>4 DEF NewTest
  <2> QED BY <2>3, <2>5 DEF Init
<1>3. PhaseInv /\ StreamInv
  BY <1>2 DEF PhaseInv, StreamInv
<1>4. EndInv
  BY <1>2 DEF EndInv, Is
<1>5. TetradInv /\ HandInv
  BY <1>2 DEF TetradInv, HandInv, AdmOnly
<1> QED BY <1>1, <1>3, <1>4, <1>5 DEF Inv

LEMMA NextInv == Inv /\ [Next]_vars => Inv'
<1> SUFFICES ASSUME Inv, [Next]_vars PROVE Inv'
  OBVIOUS
<1>t. TypeOK
  BY DEF Inv
<1>1. CASE Main
  <2>1. TypeOK'
    BY <1>1, <1>t, MainTypeStep
  <2> QED BY <1>1, <2>1, PrepareInvStep, StartInvStep, LoopInvStep
<1>2. CASE signa_handler \/ UNCHANGED vars
  <2>1. /\ prog' = prog /\ main' = main /\ test' = test /\ worker' = worker /\ isvi' = isvi
        /\ stream' = stream
    BY <1>2 DEF signa_handler, vars
  <2>2. TypeOK'
    BY <1>2, <1>t, TypesKept DEF signa_handler, vars
  <2>3. Tests' = Tests /\ \A u \in Tests : (Strm(u))' = Strm(u)
    BY <2>1 DEF Tests, Strm
  <2>4. PhaseInv' /\ StreamInv'
    BY <2>1, <2>3 DEF Inv, PhaseInv, StreamInv
  <2>5. TestsKept
    BY <2>1 DEF TestsKept
  <2> QED BY <2>1, <2>2, <2>4, <2>5, MainKeeps
<1>3. ASSUME NEW t \in Tests, Worker(t)
      PROVE  Inv'
  <2>1. TypeOK'
    BY <1>3, <1>t, WorkerTypeStep DEF Inv, HandInv
  <2> QED BY <1>3, <2>1, WorkerInvStep
<1>4. ASSUME NEW t \in Tests, ExecuteIsvi(t)
      PROVE  Inv'
  <2>1. TypeOK'
    BY <1>4, <1>t, IsviTypeStep
  <2> QED BY <1>4, <2>1, IsviInvStep
<1> QED BY <1>1, <1>2, <1>3, <1>4 DEF Next

(* The inductive invariant: where main, the threads and the ISVI threads    *)
(* are determines which of their shared fields may still change.            *)
THEOREM ProgramInvariant == Spec => []Inv
BY InitInv, NextInv, PTL DEF Spec

(* The shared fields keep their types: lc_status, IsviStatus with its 101,  *)
(* BlockRd, for every program and every ring.                               *)
THEOREM ProgramTypesKept == Spec => []TypeOK
<1>1. Inv => TypeOK
  BY DEF Inv
<1> QED BY <1>1, ProgramInvariant, PTL

(* When main deletes the tests no thread of theirs is left.                 *)
THEOREM DeleteIsQuiet == Spec => []DeleteQuiet
<1>1. Inv => DeleteQuiet
  BY DEF Inv, PhaseInv, DeleteQuiet
<1> QED BY <1>1, ProgramInvariant, PTL

(* bufIsvi is not written while its frame is being written to the file.     *)
THEOREM FramesAreWhole == Spec => []WholeFrames
<1>1. Inv => WholeFrames
  BY DEF Inv, HandInv, WholeFrames
<1> QED BY <1>1, ProgramInvariant, PTL

(* A program that returns from main leaves no channel running, no tetrad in *)
(* stream mode and, when it was stopped, no stream open.                    *)
THEOREM ExitIsStopped == Spec => []ExitStopped
<1>1. ASSUME Inv, NEW s \in Streams, main.pc = "done"
      PROVE  stream[s].status # 1 /\ ~stream[s].run
  <2>1. SUFFICES ASSUME stream[s].status = 1 PROVE FALSE
    BY <1>1 DEF Inv, StreamInv
  <2>2. stream[s].owner \in Tests /\ Strm(stream[s].owner) = s
    BY <1>1, <2>1 DEF Inv, StreamInv
  <2>3. stream[Strm(stream[s].owner)].status = 0
    BY <1>1, <2>2 DEF Inv, PhaseInv
  <2> QED BY <2>1, <2>2, <2>3
<1>2. ASSUME Inv, NEW s \in Streams, main.pc = "err"
      PROVE  ~stream[s].run
  BY <1>2 DEF Inv, PhaseInv
<1>3. ASSUME Inv, NEW t \in Tests, main.pc \in {"done", "err"}
      PROVE  ~test[t].on
  BY <1>3 DEF Inv, PhaseInv, TetradInv
<1>4. Inv => ExitStopped
  BY <1>1, <1>2, <1>3 DEF ExitStopped
<1> QED BY <1>4, ProgramInvariant, PTL
=============================================================================
