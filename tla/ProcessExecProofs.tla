--------------------------- MODULE ProcessExecProofs ---------------------------
(***************************************************************************)
(* Theorems about ProcessExec, for every number of lines and every pipe    *)
(* capacity.                                                               *)
(***************************************************************************)
EXTENDS ProcessExec, TLAPS

(* A line on its way is counted once: in the pipe, in the buffer or among  *)
(* the printed ones.                                                       *)
Conserved == \A s \in Streams : printed[s] + buf[s] + pipe[s] = written[s]

(* Nothing moves before the child has started, and the child runs only     *)
(* while Exec joins a scanner or waits.                                    *)
LifeInv == /\ want # "none" => child = "running" /\ open[want]
           /\ child = "running" => main \in {"join", "wait"}
           /\ main \in {"join", "wait"} => child # "absent"
           /\ main = "start" => /\ child = "absent"
                                /\ joined = "none"
                                /\ \A s \in Streams : scan[s] = "scan" /\ written[s] = 0

(* The end of a stream is final: the child has closed it, and pipe and     *)
(* buffer are empty.                                                       *)
Drained(s) == ~open[s] /\ pipe[s] = 0 /\ buf[s] = 0

(* Until Wait closes the read ends a scanner gets through by the end of    *)
(* its stream or by a line too long, and so did the one that was joined.   *)
JoinInv == /\ \A s \in Streams :
                 main # "returned" /\ scan[s] # "scan" => stopped[s] \/ Drained(s)
           /\ joined # "none" => /\ scan[joined] = "ended"
                                 /\ stopped[joined] \/ Drained(joined)
                                 /\ main \in {"wait", "returned"}

Inv == TypeOK /\ Conserved /\ LifeInv /\ JoinInv

-----------------------------------------------------------------------------

LEMMA InvInit == Init => Inv
<1> SUFFICES ASSUME Init PROVE Inv
  OBVIOUS
<1>1. TypeOK
  BY DEF Init, TypeOK
<1>2. Conserved /\ LifeInv /\ JoinInv
  BY DEF Init, Conserved, LifeInv, JoinInv
<1> QED
  BY <1>1, <1>2 DEF Inv

LEMMA TypeStep == Inv /\ [Next]_vars => TypeOK'
<1> SUFFICES ASSUME Inv, [Next]_vars PROVE TypeOK'
  OBVIOUS
<1> USE DEF Inv, TypeOK, caller, process, scanners, lines
<1>1. ASSUME NEW s \in Streams, Intend(s) PROVE TypeOK'
  BY <1>1 DEF Intend
<1>2. ASSUME NEW s \in Streams, Write(s) PROVE TypeOK'
  BY <1>2 DEF Write
<1>3. ASSUME NEW s \in Streams, CloseStream(s) PROVE TypeOK'
  BY <1>3 DEF CloseStream
<1>4. CASE Exit
  BY <1>4 DEF Exit
<1>5. ASSUME NEW s \in Streams, Fill(s) PROVE TypeOK'
  <2>1. PICK n \in 1 .. pipe[s] : /\ buf' = [buf EXCEPT ![s] = n]
                                  /\ pipe' = [pipe EXCEPT ![s] = @ - n]
    BY <1>5 DEF Fill
  <2>2. n \in Nat /\ pipe[s] - n \in Nat
    BY <2>1
  <2> QED
    BY <1>5, <2>1, <2>2 DEF Fill
<1>6. ASSUME NEW s \in Streams, Process(s) PROVE TypeOK'
  BY <1>6 DEF Process
<1>7. ASSUME NEW s \in Streams, TooLong(s) PROVE TypeOK'
  BY <1>7 DEF TooLong
<1>8. ASSUME NEW s \in Streams, ScanEnds(s) PROVE TypeOK'
  BY <1>8 DEF ScanEnds
<1>9. CASE Start
  BY <1>9 DEF Start
<1>10. CASE StartFails
  BY <1>10 DEF StartFails
<1>11. ASSUME NEW s \in Streams, Join(s) PROVE TypeOK'
  BY <1>11 DEF Join
<1>12. CASE Wait
  BY <1>12 DEF Wait
<1>13. CASE UNCHANGED vars
  BY <1>13 DEF vars
<1> QED
  BY <1>1, <1>2, <1>3, <1>4, <1>5, <1>6, <1>7, <1>8, <1>9, <1>10, <1>11, <1>12, <1>13
  DEF Next, Child, Exec, Scanner, Terminated

LEMMA ConservedStep == Inv /\ [Next]_vars => Conserved'
<1> SUFFICES ASSUME Inv, [Next]_vars PROVE Conserved'
  OBVIOUS
<1> USE DEF Inv, TypeOK, Conserved
<1>1. ASSUME NEW s \in Streams, Write(s) PROVE Conserved'
  BY <1>1 DEF Write
<1>2. ASSUME NEW s \in Streams, Fill(s) PROVE Conserved'
  <2>1. PICK n \in 1 .. pipe[s] : /\ buf' = [buf EXCEPT ![s] = n]
                                  /\ pipe' = [pipe EXCEPT ![s] = @ - n]
    BY <1>2 DEF Fill
  <2>2. buf[s] = 0 /\ UNCHANGED <<written, printed>>
    BY <1>2 DEF Fill
  <2> QED
    BY <2>1, <2>2
<1>3. ASSUME NEW s \in Streams, Process(s) PROVE Conserved'
  BY <1>3 DEF Process
<1>4. CASE UNCHANGED lines
  BY <1>4 DEF lines
<1> QED
  BY <1>1, <1>2, <1>3, <1>4
  DEF Next, Child, Exec, Scanner, Terminated, vars, lines, Intend, CloseStream, Exit, TooLong,
      ScanEnds, Start, StartFails, Join, Wait

LEMMA LifeStep == Inv /\ [Next]_vars => LifeInv'
<1> SUFFICES ASSUME Inv, [Next]_vars PROVE LifeInv'
  OBVIOUS
<1> USE DEF Inv, TypeOK, LifeInv, caller, process, scanners, lines
<1>1. ASSUME NEW s \in Streams, Intend(s) PROVE LifeInv'
  BY <1>1 DEF Intend
<1>2. ASSUME NEW s \in Streams, Write(s) PROVE LifeInv'
  BY <1>2 DEF Write, Streams
<1>3. ASSUME NEW s \in Streams, CloseStream(s) PROVE LifeInv'
  BY <1>3 DEF CloseStream
<1>4. CASE Exit
  BY <1>4 DEF Exit
<1>5. ASSUME NEW s \in Streams, Fill(s) \/ Process(s) \/ TooLong(s) \/ ScanEnds(s)
      PROVE  LifeInv'
  <2>1. main # "start"
    BY <1>5 DEF Fill, Process, TooLong, ScanEnds, EndOfStream, ReadEndsClosed, Conserved
  <2>2. UNCHANGED <<main, joined, child, open, want>>
    BY <1>5 DEF Fill, Process, TooLong, ScanEnds
  <2> QED
    BY <2>1, <2>2
<1>6. CASE Start
  BY <1>6 DEF Start
<1>7. CASE StartFails
  BY <1>7 DEF StartFails
<1>8. ASSUME NEW s \in Streams, Join(s) PROVE LifeInv'
  BY <1>8 DEF Join
<1>9. CASE Wait
  BY <1>9 DEF Wait
<1>10. CASE UNCHANGED vars
  BY <1>10 DEF vars
<1> QED
  BY <1>1, <1>2, <1>3, <1>4, <1>5, <1>6, <1>7, <1>8, <1>9, <1>10
  DEF Next, Child, Exec, Scanner, Terminated

LEMMA JoinStep == Inv /\ [Next]_vars => JoinInv'
<1> SUFFICES ASSUME Inv, [Next]_vars PROVE JoinInv'
  OBVIOUS
<1> USE DEF Inv, TypeOK, JoinInv, Drained, caller, process, scanners, lines
<1>1. ASSUME NEW s \in Streams, Intend(s) PROVE JoinInv'
  BY <1>1 DEF Intend
<1>2. ASSUME NEW s \in Streams, Write(s) PROVE JoinInv'
  <2>1. open[s]
    BY <1>2 DEF Write, LifeInv, Streams
  <2> QED
    BY <1>2, <2>1 DEF Write
<1>3. ASSUME NEW s \in Streams, CloseStream(s) PROVE JoinInv'
  BY <1>3 DEF CloseStream
<1>4. CASE Exit
  BY <1>4 DEF Exit
<1>5. ASSUME NEW s \in Streams, Fill(s) PROVE JoinInv'
  <2>1. scan[s] = "scan" /\ UNCHANGED <<main, joined, scan, stopped, open>>
    BY <1>5 DEF Fill
  <2>2. \A t \in Streams : t # s => buf'[t] = buf[t] /\ pipe'[t] = pipe[t]
    BY <1>5 DEF Fill
  <2> QED
    BY <2>1, <2>2
<1>6. ASSUME NEW s \in Streams, Process(s) PROVE JoinInv'
  BY <1>6 DEF Process
<1>7. ASSUME NEW s \in Streams, TooLong(s) PROVE JoinInv'
  BY <1>7 DEF TooLong
<1>8. ASSUME NEW s \in Streams, ScanEnds(s) PROVE JoinInv'
  BY <1>8 DEF ScanEnds, EndOfStream, ReadEndsClosed
<1>9. CASE Start \/ StartFails
  BY <1>9 DEF Start, StartFails, LifeInv
<1>10. ASSUME NEW s \in Streams, Join(s) PROVE JoinInv'
  BY <1>10 DEF Join, Streams
<1>11. CASE Wait
  BY <1>11 DEF Wait
<1>12. CASE UNCHANGED vars
  BY <1>12 DEF vars
<1> QED
  BY <1>1, <1>2, <1>3, <1>4, <1>5, <1>6, <1>7, <1>8, <1>9, <1>10, <1>11, <1>12
  DEF Next, Child, Exec, Scanner, Terminated

LEMMA Invariance == Spec => []Inv
<1>1. Inv /\ [Next]_vars => Inv'
  BY TypeStep, ConservedStep, LifeStep, JoinStep DEF Inv
<1> QED
  BY <1>1, InvInit, PTL DEF Spec

-----------------------------------------------------------------------------

(* Every variable keeps a value of its kind (exec.go:21-110); no scanner   *)
(* ever takes more from a pipe than is there.                              *)
THEOREM TypeCorrect == Spec => []TypeOK
  BY Invariance, PTL DEF Inv

(* The scanner Exec joins (exec.go:98) has printed all of its stream,      *)
(* unless it met a line over 5 MB: the join comes before the read ends are *)
(* closed, so the scanner can only have ended at the end of its stream.    *)
THEOREM JoinedPrinted == Spec => []JoinedStreamPrinted
<1>1. Inv => JoinedStreamPrinted
  <2> SUFFICES ASSUME Inv, joined # "none", ~stopped[joined]
               PROVE  printed[joined] = written[joined]
    BY DEF JoinedStreamPrinted
  <2>1. joined \in Streams
    BY DEF Inv, TypeOK
  <2>2. Drained(joined)
    BY DEF Inv, JoinInv
  <2> QED
    BY <2>1, <2>2 DEF Inv, TypeOK, Conserved, Drained
<1> QED
  BY <1>1, Invariance, PTL

(* Exec returns only after the child has ended, with an error exactly when *)
(* the child, or its start, failed (exec.go:89-109).                       *)
THEOREM ContractKept == Spec => ImplementsExecSteps
<1>1. Init => Contract!Init
  BY DEF Init, Contract!Init
<1>2. Inv /\ [Next]_vars => [Contract!Next]_(Contract!vars)
  <2> SUFFICES ASSUME Inv, [Next]_vars PROVE [Contract!Next]_(Contract!vars)
    OBVIOUS
  <2> USE DEF Inv, TypeOK, LifeInv, Contract!Next, Contract!vars
  <2>1. CASE Start
    BY <2>1 DEF Start, Contract!Launch
  <2>2. CASE StartFails
    BY <2>2 DEF StartFails, Contract!LaunchFails
  <2>3. CASE Exit
    BY <2>3 DEF Exit, Contract!Exit
  <2>4. CASE Wait
    BY <2>4 DEF Wait, Contract!Return
  <2>5. ASSUME NEW s \in Streams, Join(s) PROVE UNCHANGED (Contract!vars)
    BY <2>5 DEF Join, process
  <2>6. ASSUME NEW s \in Streams,
               \/ Intend(s) \/ Write(s) \/ CloseStream(s)
               \/ Fill(s) \/ Process(s) \/ TooLong(s) \/ ScanEnds(s)
        PROVE  UNCHANGED <<main, child, failed>>
    BY <2>6 DEF Intend, Write, CloseStream, Fill, Process, TooLong, ScanEnds, caller, process
  <2>7. CASE UNCHANGED vars
    BY <2>7 DEF vars
  <2> QED
    BY <2>1, <2>2, <2>3, <2>4, <2>5, <2>6, <2>7 DEF Next, Child, Exec, Scanner, Terminated
<1> QED
  BY <1>1, <1>2, Invariance, PTL DEF Spec, ImplementsExecSteps

(* While the child is writing to a stream the goroutine of that stream     *)
(* reads it (exec.go:54, 71), unless it met a line over 5 MB, and Exec has *)
(* not closed the read end under it: whichever stream was joined first, a  *)
(* full pipe has a reader.                                                 *)
WriterHasReader ==
    \A s \in Streams : want = s => /\ scan[s] = "scan" \/ stopped[s]
                                  /\ ~ReadEndsClosed

THEOREM PipeIsRead == Spec => []WriterHasReader
<1>1. Inv => WriterHasReader
  <2> SUFFICES ASSUME Inv, NEW s \in Streams, want = s
               PROVE  (scan[s] = "scan" \/ stopped[s]) /\ ~ReadEndsClosed
    BY DEF WriterHasReader
  <2>1. open[s] /\ main \in {"join", "wait"}
    BY DEF Inv, LifeInv, Streams
  <2> QED
    BY <2>1 DEF Inv, TypeOK, JoinInv, Drained, ReadEndsClosed
<1> QED
  BY <1>1, Invariance, PTL

(* And once Exec has joined one of them it never waits for the other: the  *)
(* scanner that nobody receives from is the only one left blocked, and it  *)
(* has lost no line of its stream unless one was too long or the read end  *)
(* was closed under it (exec.go:98-104).                                   *)
UnjoinedLosesNothing ==
    main # "returned" =>
        \A s \in Streams : scan[s] # "scan" => stopped[s] \/ printed[s] = written[s]

THEOREM BothPrinted == Spec => []UnjoinedLosesNothing
<1>1. Inv => UnjoinedLosesNothing
  <2> SUFFICES ASSUME Inv, main # "returned", NEW s \in Streams, scan[s] # "scan", ~stopped[s]
               PROVE  printed[s] = written[s]
    BY DEF UnjoinedLosesNothing
  <2>1. Drained(s)
    BY DEF Inv, JoinInv
  <2> QED
    BY <2>1 DEF Inv, TypeOK, Conserved, Drained
<1> QED
  BY <1>1, Invariance, PTL
=============================================================================
