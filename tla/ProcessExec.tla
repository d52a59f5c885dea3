------------------------------ MODULE ProcessExec ------------------------------
(***************************************************************************)
(* P.Exec of runner/process/exec.go: a child process, the two pipes of its *)
(* output, the two goroutines that scan them line by line, and the caller, *)
(* which receives once from the channel done and then waits for the child. *)
(*                                                                         *)
(* Lines are counted, not spelled out: along each stream a line moves from *)
(* the child to the pipe, to the scanner's buffer, to the printed lines.   *)
(* The child and the pipes are the operating system's and os/exec's, as    *)
(* Exec uses them: a pipe blocks its writer when full, the read ends are   *)
(* closed by a failed Start and by Wait once the child is gone.            *)
(***************************************************************************)
EXTENDS Naturals

CONSTANTS MaxLines,  (* bound: lines the child writes to a stream        *)
          PipeCap    (* the lines a pipe holds before its writer blocks  *)

ASSUME MaxLinesIsNat == MaxLines \in Nat
ASSUME PipeCapPositive == PipeCap \in Nat \ {0}

Streams == {"out", "err"}

VARIABLES main,      (* "start", "join", "wait" or "returned"                *)
          failed,    (* the error Exec returns, or will, is not nil          *)
          child,     (* "absent", "running" or "exited"                      *)
          open,      (* open[s]: the child holds the write end of s          *)
          want,      (* the stream the child is writing to, "none" if not    *)
          written,   (* written[s]: lines the child has written              *)
          pipe,      (* pipe[s]: those still in the pipe                     *)
          buf,       (* buf[s]: those in the scanner's buffer                *)
          printed,   (* printed[s]: those processed                          *)
          scan,      (* scan[s]: "scan", "send" (done <- ...) or "ended"     *)
          stopped,   (* stopped[s]: the scanner met a line over 5 MB         *)
          joined     (* history: the stream main received done from          *)

caller == <<main, failed, joined>>
process == <<child, open, want>>
scanners == <<scan, stopped>>
lines == <<written, pipe, buf, printed>>
vars == <<main, failed, child, open, want, written, pipe, buf, printed, scan, stopped, joined>>

(* Wait, and a Start that fails, close the read ends as they return. *)
ReadEndsClosed == main = "returned"

-----------------------------------------------------------------------------
(* The child. *)

(* It turns to a stream to write its next line ... *)
Intend(s) ==
    /\ child = "running"
    /\ want = "none"
    /\ open[s]
    /\ written[s] < MaxLines
    /\ want' = s
    /\ UNCHANGED <<caller, child, open, scanners, lines>>

(* ... and is blocked while the pipe is full. *)
Write(s) ==
    /\ want = s
    /\ pipe[s] < PipeCap
    /\ pipe' = [pipe EXCEPT ![s] = @ + 1]
    /\ written' = [written EXCEPT ![s] = @ + 1]
    /\ want' = "none"
    /\ UNCHANGED <<caller, child, open, scanners, buf, printed>>

(* It may close a stream long before it ends. *)
CloseStream(s) ==
    /\ child = "running"
    /\ want = "none"
    /\ open[s]
    /\ open' = [open EXCEPT ![s] = FALSE]
    /\ UNCHANGED <<caller, child, want, scanners, lines>>

(* It exits, or it is killed in whatever it does. *)
Exit ==
    /\ child = "running"
    /\ child' = "exited"
    /\ open' = [s \in Streams |-> FALSE]
    /\ want' = "none"
    /\ failed' \in BOOLEAN
    /\ UNCHANGED <<main, joined, scanners, lines>>

-----------------------------------------------------------------------------
(* The goroutine that scans stream s. *)

(* Slip: one goroutine scans the streams one after the other. *)
FillInTurn(s) ==
    /\ scan[s] = "scan"
    /\ s = "out" \/ scan["out"] # "scan"
    /\ ~ReadEndsClosed
    /\ buf[s] = 0
    /\ \E n \in 1 .. pipe[s] :
          /\ buf' = [buf EXCEPT ![s] = n]
          /\ pipe' = [pipe EXCEPT ![s] = @ - n]
    /\ UNCHANGED <<caller, process, scanners, written, printed>>

(* A read moves some of what is in the pipe to the empty buffer. *)
Fill(s) ==
    /\ scan[s] = "scan"
    /\ ~ReadEndsClosed
    /\ buf[s] = 0
    /\ \E n \in 1 .. pipe[s] :
          /\ buf' = [buf EXCEPT ![s] = n]
          /\ pipe' = [pipe EXCEPT ![s] = @ - n]
    /\ UNCHANGED <<caller, process, scanners, written, printed>>

(* processError or processInfo on the next line of the buffer. *)
Process(s) ==
    /\ scan[s] = "scan"
    /\ buf[s] > 0
    /\ buf' = [buf EXCEPT ![s] = @ - 1]
    /\ printed' = [printed EXCEPT ![s] = @ + 1]
    /\ UNCHANGED <<caller, process, scanners, written, pipe>>

(* The next line does not fit the buffer: Scan gives up. *)
TooLong(s) ==
    /\ scan[s] = "scan"
    /\ buf[s] > 0
    /\ stopped' = [stopped EXCEPT ![s] = TRUE]
    /\ scan' = [scan EXCEPT ![s] = "send"]
    /\ UNCHANGED <<caller, process, lines>>

(* Slip: what is left in the pipe is forgotten. *)
EndOfStreamEarly(s) == child # "absent" /\ ~open[s]

(* The end of the stream. *)
EndOfStream(s) == child # "absent" /\ ~open[s] /\ pipe[s] = 0

(* Scan returns false at the end of the stream, or because the read end is *)
(* closed under it; the goroutine goes on to send on done.                 *)
ScanEnds(s) ==
    /\ scan[s] = "scan"
    /\ buf[s] = 0
    /\ EndOfStream(s) \/ ReadEndsClosed
    /\ scan' = [scan EXCEPT ![s] = "send"]
    /\ UNCHANGED <<caller, process, stopped, lines>>

-----------------------------------------------------------------------------
(* Exec itself. *)

Start ==
    /\ main = "start"
    /\ main' = "join"
    /\ child' = "running"
    /\ open' = [s \in Streams |-> TRUE]
    /\ UNCHANGED <<failed, joined, want, scanners, lines>>

StartFails ==
    /\ main = "start"
    /\ main' = "returned"
    /\ failed' = TRUE
    /\ UNCHANGED <<joined, process, scanners, lines>>

(* <-done: one receive for two senders. *)
Join(s) ==
    /\ main = "join"
    /\ scan[s] = "send"
    /\ main' = "wait"
    /\ joined' = s
    /\ scan' = [scan EXCEPT ![s] = "ended"]
    /\ UNCHANGED <<failed, process, stopped, lines>>

(* Slip: the end of one stream is taken for the end of the child. *)
WaitLeftOut ==
    /\ main = "wait"
    /\ main' = "returned"
    /\ UNCHANGED <<failed, joined, process, scanners, lines>>

(* cmd.Wait returns when the child is gone. *)
Wait ==
    /\ main = "wait"
    /\ child = "exited"
    /\ main' = "returned"
    /\ UNCHANGED <<failed, joined, process, scanners, lines>>

(* Exec has returned; a scanner that nobody receives from stays blocked. *)
Terminated ==
    /\ main = "returned"
    /\ \A s \in Streams : scan[s] # "scan"
    /\ UNCHANGED vars

-----------------------------------------------------------------------------

Init ==
    /\ main = "start"
    /\ failed = FALSE
    /\ child = "absent"
    /\ open = [s \in Streams |-> FALSE]
    /\ want = "none"
    /\ written = [s \in Streams |-> 0]
    /\ pipe = [s \in Streams |-> 0]
    /\ buf = [s \in Streams |-> 0]
    /\ printed = [s \in Streams |-> 0]
    /\ scan = [s \in Streams |-> "scan"]
    /\ stopped = [s \in Streams |-> FALSE]
    /\ joined = "none"

Scanner(s) == Fill(s) \/ Process(s) \/ TooLong(s) \/ ScanEnds(s)

Child == \/ \E s \in Streams : Intend(s) \/ Write(s) \/ CloseStream(s)
         \/ Exit

Exec == \/ Start \/ StartFails \/ Wait
        \/ \E s \in Streams : Join(s)

Next == Child \/ Exec \/ Terminated \/ \E s \in Streams : Scanner(s)

(* The goroutines of Exec are scheduled, and a write that can proceed does. *)
(* Nothing is assumed of what the child writes, nor that it ever ends.      *)
Fairness == /\ WF_vars(Exec)
            /\ \A s \in Streams : WF_vars(Scanner(s)) /\ WF_vars(Write(s))

Spec == Init /\ [][Next]_vars /\ Fairness

-----------------------------------------------------------------------------
(* Properties. *)

(* Every variable holds a value of its kind: what Exec and the operating   *)
(* system keep for it (exec.go:21-110).                                    *)
TypeOK ==
    /\ main \in {"start", "join", "wait", "returned"}
    /\ failed \in BOOLEAN
    /\ child \in {"absent", "running", "exited"}
    /\ open \in [Streams -> BOOLEAN]
    /\ want \in Streams \cup {"none"}
    /\ written \in [Streams -> Nat]
    /\ pipe \in [Streams -> Nat]
    /\ buf \in [Streams -> Nat]
    /\ printed \in [Streams -> Nat]
    /\ scan \in [Streams -> {"scan", "send", "ended"}]
    /\ stopped \in [Streams -> BOOLEAN]
    /\ joined \in Streams \cup {"none"}

(* The stream whose scanner Exec joined (exec.go:98) was printed to its    *)
(* last line, unless a line too long for the scanner cut it short.         *)
JoinedStreamPrinted ==
    joined # "none" => stopped[joined] \/ printed[joined] = written[joined]

(* The comment of exec.go:40, "a new channel which will be used to ensure  *)
(* we get all output": once a scanner is through, after Exec has returned, *)
(* it has printed its whole stream.                                        *)
AllOutputProcessed ==
    main = "returned" =>
        \A s \in Streams : scan[s] = "scan" \/ stopped[s] \/ printed[s] = written[s]

(* Exec keeps its contract with the runners (exec.go:89-109): it returns   *)
(* after the child has ended, whichever stream ends first or is closed     *)
(* early, and it does return then.                                         *)
Contract == INSTANCE ExecContract WITH
                phase <- IF main = "start" THEN "idle"
                         ELSE IF main = "returned" THEN "returned" ELSE child

ImplementsExec == Contract!Spec

(* Its safety part: the steps alone, without the promise to return. *)
ImplementsExecSteps == Contract!Init /\ [][Contract!Next]_(Contract!vars)

(* The two scanners run beside each other and beside the caller (exec.go   *)
(* :54, :71), so the child never blocks for good on a full pipe, unless    *)
(* the scanner of that stream stopped at a line over 5 MB.                 *)
WriteCompletes == \A s \in Streams : want = s ~> want # s \/ stopped[s]
=============================================================================
