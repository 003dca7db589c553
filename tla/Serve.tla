-------------------------------- MODULE Serve --------------------------------
(***************************************************************************)
(* The transport of the MCP server (Serve and HandleLine of                *)
(* internal/mcp/mcp.go): one goroutine reads lines and starts a handler    *)
(* for each, the handlers answer in any order and write their responses    *)
(* under one mutex, and Serve returns when the stream has ended and every  *)
(* handler is through.                                                     *)
(***************************************************************************)
EXTENDS Naturals, Sequences, FiniteSets

CONSTANTS
  MaxLines,        \* bound: lines the client sends
  Nobody           \* who holds the mutex when it is free

ASSUME ServeAssumption == MaxLines \in Nat /\ Nobody \notin 1..MaxLines

\* A "slow" line is a request whose handler may take any time, as a
\* long-polling job_status does.
Kinds == {"request", "slow", "notification", "malformed", "blank", "oversized"}
Answered == {"request", "slow", "malformed", "oversized"}

VARIABLES
  pc,              \* the reading goroutine
  lines,           \* the kinds of the lines read so far
  end,             \* why it stopped reading: "none", "EOF", "error", "broken"
  work,            \* line -> where its handling stands
  mu,              \* the line whose response is being written, or Nobody
  wire,            \* what was written: <<line, part>>
  writeErr,
  result           \* what Serve returned

vars == <<pc, lines, end, work, mu, wire, writeErr, result>>

Line == 1..MaxLines
cur == Len(lines)

Init ==
  /\ pc = "read"
  /\ lines = <<>>
  /\ end = "none"
  /\ work = [i \in Line |-> "none"]
  /\ mu = Nobody
  /\ wire = <<>>
  /\ writeErr = FALSE
  /\ result = "none"

-----------------------------------------------------------------------------
(* The reading goroutine.                                                  *)

\* A line of ordinary length gets a handler, a blank one is skipped; with the
\* last, unterminated line comes the end of the stream or a read error.
ReadLine(kind, err) ==
  /\ pc = "read" /\ cur < MaxLines
  /\ lines' = Append(lines, kind)
  /\ work' = [work EXCEPT ![cur + 1] = IF kind = "blank" THEN "done" ELSE "handling"]
  /\ pc' = IF err = "none" THEN "check" ELSE "wait"
  /\ end' = err
  /\ UNCHANGED <<mu, wire, writeErr, result>>

\* The stream ends behind a terminated line.
ReadEnd(err) ==
  /\ pc = "read" /\ pc' = "wait"
  /\ end' = err
  /\ UNCHANGED <<lines, work, mu, wire, writeErr, result>>

\* A line longer than the buffer: the reader writes the parse error itself.
ReadOversized ==
  /\ pc = "read" /\ pc' = "oversized"
  /\ cur < MaxLines
  /\ lines' = Append(lines, "oversized")
  /\ work' = [work EXCEPT ![cur + 1] = "respond"]
  /\ UNCHANGED <<end, mu, wire, writeErr, result>>

\* It then discards the rest of that line and goes on, without looking
\* whether the write succeeded.
Discard(err) ==
  /\ pc = "oversized" /\ work[cur] = "done"
  /\ pc' = IF err = "none" THEN "read" ELSE "wait"
  /\ end' = err
  /\ UNCHANGED <<lines, work, mu, wire, writeErr, result>>

\* No point reading further once the writer has broken.
Check ==
  /\ pc = "check" /\ mu = Nobody
  /\ IF writeErr THEN pc' = "wait" /\ end' = "broken"
                 ELSE pc' = "read" /\ UNCHANGED end
  /\ UNCHANGED <<lines, work, mu, wire, writeErr, result>>

\* Mutant of Return: the handlers are not waited for.
ReturnAtOnce ==
  /\ pc = "wait" /\ pc' = "returned"
  /\ result' = CASE end = "error" -> "read error"
                 [] end # "error" /\ writeErr -> "write error"
                 [] end # "error" /\ ~writeErr -> "nil"
  /\ UNCHANGED <<lines, end, work, mu, wire, writeErr>>

\* wg.Wait: every handler has finished.
Return ==
  /\ pc = "wait" /\ pc' = "returned"
  /\ \A i \in Line : work[i] \in {"none", "done"}
  /\ result' = CASE end = "error" -> "read error"
                 [] end # "error" /\ writeErr -> "write error"
                 [] end # "error" /\ ~writeErr -> "nil"
  /\ UNCHANGED <<lines, end, work, mu, wire, writeErr>>

-----------------------------------------------------------------------------
(* The handlers.                                                           *)

\* Mutant of HandleLine: lines are handled one after another.
HandleInOrder(i) ==
  /\ work[i] = "handling" /\ \A j \in 1..(i - 1) : work[j] = "done"
  /\ work' = [work EXCEPT ![i] = IF lines[i] \in Answered THEN "respond" ELSE "done"]
  /\ UNCHANGED <<pc, lines, end, mu, wire, writeErr, result>>

\* HandleLine: a notification draws no response, anything else exactly one.
HandleLine(i) ==
  /\ work[i] = "handling"
  /\ work' = [work EXCEPT ![i] = IF lines[i] \in Answered THEN "respond" ELSE "done"]
  /\ UNCHANGED <<pc, lines, end, mu, wire, writeErr, result>>

\* Mutants of LockWriter: the mutex is not taken; the error is forgotten.
LockNot(i) ==
  /\ work[i] = "respond"
  /\ IF writeErr THEN work' = [work EXCEPT ![i] = "done"] /\ UNCHANGED mu
                 ELSE work' = [work EXCEPT ![i] = "body"] /\ mu' = i
  /\ UNCHANGED <<pc, lines, end, wire, writeErr, result>>

LockForgetting(i) ==
  /\ work[i] = "respond" /\ mu = Nobody
  /\ work' = [work EXCEPT ![i] = "body"] /\ mu' = i
  /\ UNCHANGED <<pc, lines, end, wire, writeErr, result>>

\* writeResp: after the first write error it writes nothing.
LockWriter(i) ==
  /\ work[i] = "respond" /\ mu = Nobody
  /\ IF writeErr THEN work' = [work EXCEPT ![i] = "done"] /\ UNCHANGED mu
                 ELSE work' = [work EXCEPT ![i] = "body"] /\ mu' = i
  /\ UNCHANGED <<pc, lines, end, wire, writeErr, result>>

WriteBody(i) ==
  /\ work[i] = "body"
  /\ work' = [work EXCEPT ![i] = "newline"]
  /\ wire' = Append(wire, <<i, "body">>)
  /\ UNCHANGED <<pc, lines, end, mu, writeErr, result>>

\* The newline and the flush; then the mutex is released.
WriteNewline(i) ==
  /\ work[i] = "newline"
  /\ work' = [work EXCEPT ![i] = "done"]
  /\ wire' = Append(wire, <<i, "newline">>)
  /\ mu' = Nobody
  /\ UNCHANGED <<pc, lines, end, writeErr, result>>

\* Mutant of WriteFails: the error path does not release the mutex.
WriteFailsLocked(i) ==
  /\ work[i] \in {"body", "newline"}
  /\ work' = [work EXCEPT ![i] = "done"]
  /\ writeErr' = TRUE
  /\ UNCHANGED <<pc, lines, end, mu, wire, result>>

WriteFails(i) ==
  /\ work[i] \in {"body", "newline"}
  /\ work' = [work EXCEPT ![i] = "done"]
  /\ writeErr' = TRUE
  /\ mu' = Nobody
  /\ UNCHANGED <<pc, lines, end, wire, result>>

Write(i) == LockWriter(i) \/ WriteBody(i) \/ WriteNewline(i)

Next ==
  \/ \E kind \in Kinds \ {"oversized"}, err \in {"none", "EOF", "error"} :
       ReadLine(kind, err)
  \/ \E err \in {"EOF", "error"} : ReadEnd(err)
  \/ ReadOversized
  \/ \E err \in {"none", "EOF", "error"} : Discard(err)
  \/ Check \/ Return
  \/ \E i \in Line : HandleLine(i) \/ Write(i) \/ WriteFails(i)

Spec == Init /\ [][Next]_vars

\* The client takes what is written to it and reads on its own terms; no
\* slow handler is assumed to finish.
FairSpec ==
  /\ Spec
  /\ WF_vars(Check \/ Return)
  /\ WF_vars(\E err \in {"none", "EOF", "error"} : Discard(err))
  /\ \A i \in Line : /\ WF_vars(i <= cur /\ lines[i] # "slow" /\ HandleLine(i))
                     /\ WF_vars(WriteBody(i) \/ WriteNewline(i))
                     /\ SF_vars(LockWriter(i))

-----------------------------------------------------------------------------

Parts(i) == {k \in DOMAIN wire : wire[k][1] = i}

\* Response lines never interleave: a body is followed by its own newline,
\* whoever else is answering.  And when Serve has returned without an error,
\* every line that draws a response drew one, and no other line did: none is
\* lost at EOF (mcp.go:116-135, 147-149).
AnsweredWhole ==
  /\ \A k \in DOMAIN wire :
       /\ wire[k][2] = "newline" => k > 1 /\ wire[k - 1] = <<wire[k][1], "body">>
       /\ wire[k][2] = "body" /\ k < Len(wire) =>
            wire[k + 1] = <<wire[k][1], "newline">>
  /\ result = "nil" => \A i \in 1..cur :
       Cardinality(Parts(i)) = IF lines[i] \in Answered THEN 2 ELSE 0

\* After a write error not one byte more is written, and Serve reports an
\* error; after Serve has returned nothing is in flight that could still write
\* (mcp.go:127-128, 149-156, 197-214).
SilentOnceOver ==
  [][/\ writeErr \/ pc = "returned" => wire' = wire
     /\ pc = "returned" => work' = work
     /\ writeErr /\ result' # result => result' # "nil"]_vars

\* A request is answered, whatever time another one takes (mcp.go:121-124).
SlowStallsNobody ==
  \A i \in Line :
    (i <= cur /\ lines[i] = "request") ~> (Parts(i) # {} \/ writeErr)

\* Once the stream has ended, Serve returns if its handlers do: none keeps the
\* mutex (mcp.go:126-128, 197-215).
Drains ==
  (\A i \in Line : <>[](work[i] # "handling")) => (pc = "wait" ~> pc = "returned")
=============================================================================
