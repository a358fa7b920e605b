-------------------------------- MODULE CmdPipe --------------------------------
(***************************************************************************)
(* CmdStdoutPipe of go/util/cmdexecutor.go: a command writes its output    *)
(* into a pipe, a bufio.Scanner takes the lines from it until one is       *)
(* empty, and Wait waits for the command and closes the pipe then.         *)
(***************************************************************************)
EXTENDS Integers, FiniteSets, SequencesExt

CONSTANTS
  MaxOutput,   \* bound: length of the command's output
  Capacity,    \* of the pipe
  MaxToken     \* of the scanner's buffer (bufio.MaxScanTokenSize)

ASSUME SizesAssumption ==
  MaxOutput \in Nat /\ Capacity \in Nat \ {0} /\ MaxToken \in Nat \ {0}

VARIABLES
  output,      \* what the command writes altogether
  fails,       \* it exits with a status other than 0
  written,     \* how much of the output it has written
  exited,
  scanner,     \* where CmdStdoutPipe is
  taken,       \* how much of the output the scanner's buffer has seen
  consumed,    \* how much of it were tokens, with their line ends
  scanResult,
  result       \* what was returned: lines, or an error

CmdVars == <<output, fails, written, exited, scanner, taken, consumed, scanResult, result>>

Newline == "\n"
Min2(a, b) == IF a < b THEN a ELSE b
Outputs == UNION {[1 .. n -> {"x", Newline}] : n \in 0 .. MaxOutput}

CmdInit ==
  /\ output = <<>> /\ fails = FALSE /\ written = 0 /\ exited = FALSE
  /\ scanner = "start" /\ taken = 0 /\ consumed = 0
  /\ scanResult = <<>> /\ result = "none"

StartCmdWaiting ==
  /\ scanner = "start"
  /\ output' \in Outputs /\ fails' \in BOOLEAN /\ scanner' = "wait"
  /\ UNCHANGED <<written, exited, taken, consumed, scanResult, result>>

\* StdoutPipe and Start.
StartCmd ==
  /\ scanner = "start"
  /\ \/ output' \in Outputs /\ fails' \in BOOLEAN /\ scanner' = "scan" /\ UNCHANGED result
     \/ scanner' = "returned" /\ result' = "error" /\ UNCHANGED <<output, fails>>
  /\ UNCHANGED <<written, exited, taken, consumed, scanResult>>

\* The command blocks while the pipe is full.
WriteOutput ==
  /\ scanner # "start" /\ written < Len(output) /\ written - taken < Capacity
  /\ written' = written + 1
  /\ UNCHANGED <<output, fails, exited, scanner, taken, consumed, scanResult, result>>

ExitCmd ==
  /\ scanner \in {"scan", "wait"} /\ written = Len(output) /\ ~exited
  /\ exited' = TRUE
  /\ UNCHANGED <<output, fails, written, scanner, taken, consumed, scanResult, result>>

-----------------------------------------------------------------------------
(* scbuffer.Scan() and Text().                                             *)

InBuffer == SubSeq(output, consumed + 1, taken)
LineEnd  == SelectInSeq(InBuffer, LAMBDA c : c = Newline)
TooLong  == LineEnd = 0 /\ Len(InBuffer) = MaxToken
AtEof    == exited /\ taken = written

\* A token is a line without its end, or what is left before the end of the output.
Token == IF LineEnd > 0 THEN SubSeq(InBuffer, 1, LineEnd - 1) ELSE InBuffer

Scanned(line) ==
  IF line = <<>>
  THEN scanner' = "wait" /\ UNCHANGED scanResult
  ELSE scanResult' = Append(scanResult, line) /\ UNCHANGED scanner

\* Without a line end the buffer is filled from the pipe, by as much as a read gives.
ReadPipe ==
  /\ scanner = "scan" /\ LineEnd = 0 /\ ~TooLong
  /\ \E n \in 1 .. MaxToken - Len(InBuffer) : taken + n <= written /\ taken' = taken + n
  /\ UNCHANGED <<output, fails, written, exited, scanner, consumed, scanResult, result>>

ScanTokenKeepingEmpty ==
  /\ scanner = "scan" /\ (LineEnd > 0 \/ TooLong \/ AtEof)
  /\ IF LineEnd > 0 THEN scanResult' = Append(scanResult, Token) /\ UNCHANGED scanner
     ELSE Scanned(IF TooLong THEN <<>> ELSE Token)
  /\ consumed' = IF LineEnd > 0 THEN consumed + LineEnd ELSE taken
  /\ UNCHANGED <<output, fails, written, exited, taken, result>>

\* A line that does not fit ends the scan, as the end of the output does; the text of
\* a scan that has failed is empty.
ScanToken ==
  /\ scanner = "scan" /\ (LineEnd > 0 \/ TooLong \/ AtEof)
  /\ Scanned(IF TooLong THEN <<>> ELSE Token)
  /\ consumed' = IF LineEnd > 0 THEN consumed + LineEnd ELSE taken
  /\ UNCHANGED <<output, fails, written, exited, taken, result>>

-----------------------------------------------------------------------------

WaitCmd ==
  /\ scanner = "wait" /\ exited
  /\ scanner' = "returned"
  /\ result' = IF fails THEN "error" ELSE scanResult
  /\ UNCHANGED <<output, fails, written, exited, taken, consumed, scanResult>>

Command == WriteOutput \/ ExitCmd
Reader  == ReadPipe \/ ScanToken \/ WaitCmd

CmdNext == StartCmd \/ Command \/ Reader

\* The command and the goroutine that reads from it go on when they can.
CmdSpec == CmdInit /\ [][CmdNext]_CmdVars /\ WF_CmdVars(Command) /\ WF_CmdVars(Reader)

-----------------------------------------------------------------------------
(* Properties.                                                             *)

\* The output with an end for its last line, and an empty line behind it; where its
\* lines start and end, and the first line that is empty or does not fit the scanner's buffer.
FullText   == output \o <<Newline, Newline>>
LineStarts == {p \in 1 .. Len(FullText) : p = 1 \/ FullText[p - 1] = Newline}
LineEndFrom(p) == Min({i \in p .. Len(FullText) : FullText[i] = Newline})
LineAt(p)  == SubSeq(FullText, p, LineEndFrom(p) - 1)
Stops(p)   == LineAt(p) = <<>> \/ Len(LineAt(p)) >= MaxToken
StopAt     == Min({p \in LineStarts : Stops(p)})

\* What is returned are the lines of the output before the first that is empty or
\* does not fit the scanner's buffer, in order, however the output is cut into reads.
LinesBeforeEmpty ==
  scanner = "returned" /\ result # "error" =>
    LET kept == {p \in LineStarts : p < StopAt}
    IN  /\ Len(result) = Cardinality(kept)
        /\ \A p \in kept : result[Cardinality({q \in kept : q <= p})] = LineAt(p)

\* CmdStdoutPipe returns if the pipe has room for what follows the line where the
\* scanner stopped. If it has not, the command cannot go on until it is read, and
\* Wait does not read (cmdexecutor.go:36-47).
ReturnsIfRestFits ==
  LET read == StopAt - 1 + Min2(MaxToken, Len(LineAt(StopAt)) + 1)
  IN  scanner # "start" /\ Len(output) - read <= Capacity ~> scanner = "returned"
=============================================================================
