---------------------------- MODULE ServeProofs ----------------------------
(***************************************************************************)
(* Proofs about Serve, for any number of lines and any interleaving of     *)
(* their handlers.                                                         *)
(***************************************************************************)
EXTENDS Serve, FiniteSetTheorems, SequenceTheorems, TLAPS

Places == {"none", "handling", "respond", "body", "newline", "done"}
Part == Line \X {"body", "newline"}

TypeInv ==
  /\ pc \in {"read", "oversized", "check", "wait", "returned"}
  /\ lines \in Seq(Kinds) /\ Len(lines) <= MaxLines
  /\ end \in {"none", "EOF", "error", "broken"}
  /\ work \in [Line -> Places]
  /\ mu \in Line \cup {Nobody}
  /\ wire \in Seq(Part)
  /\ writeErr \in BOOLEAN
  /\ result \in {"none", "nil", "read error", "write error"}

\* A line is handled once it is read, and responds if it is of such a kind.
LineInv ==
  \A i \in Line :
    /\ work[i] = "none" <=> i > Len(lines)
    /\ work[i] \in {"respond", "body", "newline"} => lines[i] \in Answered

\* Who writes holds the mutex, and nobody writes once a write has failed.
MutexInv ==
  /\ \A i \in Line : work[i] \in {"body", "newline"} <=> mu = i
  /\ writeErr => mu = Nobody

\* Bodies and newlines alternate; only the writer's own body lacks its newline.
WireInv ==
  /\ \A k \in 1..Len(wire) :
       /\ wire[k][2] = "newline" => k > 1 /\ wire[k - 1] = <<wire[k][1], "body">>
       /\ wire[k][2] = "body" /\ k < Len(wire) =>
            wire[k + 1] = <<wire[k][1], "newline">>
       /\ wire[k][2] = "body" /\ k = Len(wire) /\ ~writeErr =>
            work[wire[k][1]] = "newline"
  /\ \A i \in Line : work[i] = "newline" =>
       Len(wire) > 0 /\ wire[Len(wire)] = <<i, "body">>

\* Where a line's handler is says how much of its response has been written.
PartsInv ==
  \A i \in Line :
    /\ work[i] \in {"none", "handling", "respond", "body"} => Parts(i) = {}
    /\ work[i] = "newline" => Parts(i) = {Len(wire)}
    /\ work[i] = "done" /\ ~writeErr =>
         IF lines[i] \in Answered THEN \E k \in 1..Len(wire) : Parts(i) = {k, k + 1}
                                  ELSE Parts(i) = {}

\* Serve returns when every handler is through, and knows of a failed write.
ReturnInv ==
  /\ pc = "returned" => \A i \in Line : work[i] \in {"none", "done"}
  /\ pc # "returned" => result = "none"
  /\ result = "nil" => ~writeErr

IInv == TypeInv /\ LineInv /\ MutexInv /\ WireInv /\ PartsInv /\ ReturnInv

\* Nothing is read or written yet.
LEMMA InitIInv == Init => IInv
<1> SUFFICES ASSUME Init PROVE IInv
  OBVIOUS
<1>1. Len(lines) = 0 /\ Len(wire) = 0 /\ lines \in Seq(Kinds) /\ wire \in Seq(Part)
  BY DEF Init
<1>2. \A i \in Line : Parts(i) = {}
  BY DEF Init, Parts
<1> QED
  <2>1. TypeInv
    <3>1. Len(lines) <= MaxLines
      BY <1>1, ServeAssumption
    <3> HIDE ServeAssumption
    <3> QED BY <1>1, <3>1 DEF Init, TypeInv, Line, Places
  <2>2. LineInv /\ MutexInv /\ ReturnInv
    BY <1>1, ServeAssumption DEF Init, LineInv, MutexInv, ReturnInv, Line
  <2>3. WireInv /\ PartsInv
    BY <1>1, <1>2 DEF Init, WireInv, PartsInv, Line
  <2> QED BY <2>1, <2>2, <2>3 DEF IInv

\* The variables keep their types.
LEMMA TypePreserved == TypeInv /\ [Next]_vars => TypeInv'
<1> SUFFICES ASSUME TypeInv, [Next]_vars PROVE TypeInv'
  OBVIOUS
<1> USE ServeAssumption DEF TypeInv, Places, Kinds, cur
<1>1. ASSUME NEW kind \in Kinds \ {"oversized"}, NEW err \in {"none", "EOF", "error"},
             ReadLine(kind, err)
      PROVE  TypeInv'
  <2>1. lines' \in Seq(Kinds) /\ Len(lines') = Len(lines) + 1
    <3>1. lines \in Seq(Kinds) /\ kind \in Kinds /\ lines' = Append(lines, kind)
      BY <1>1 DEF ReadLine
    <3> HIDE DEF TypeInv, Kinds
    <3> QED BY <3>1, AppendProperties
  <2>2. work' \in [Line -> Places]
    BY <1>1 DEF ReadLine
  <2>3. Len(lines') <= MaxLines
    <3>1. Len(lines) < MaxLines /\ Len(lines) \in Nat
      BY <1>1, LenProperties DEF ReadLine
    <3> HIDE DEF TypeInv
    <3> QED BY <3>1, <2>1
  <2> QED BY <1>1, <2>1, <2>2, <2>3 DEF ReadLine
<1>2. ASSUME NEW err \in {"EOF", "error"}, ReadEnd(err) PROVE TypeInv'
  BY <1>2 DEF ReadEnd
<1>3. CASE ReadOversized
  <2>1. lines' = Append(lines, "oversized") /\ "oversized" \in Kinds
    BY <1>3 DEF ReadOversized
  <2>3. lines' \in Seq(Kinds) /\ Len(lines') = Len(lines) + 1
    BY <2>1, AppendProperties
  <2>2. work' \in [Line -> Places]
    BY <1>3 DEF ReadOversized
  <2>4. Len(lines') <= MaxLines
    <3>1. Len(lines) < MaxLines /\ Len(lines) \in Nat
      BY <1>3, LenProperties DEF ReadOversized
    <3> HIDE DEF TypeInv
    <3> QED BY <3>1, <2>3
  <2> QED BY <1>3, <2>3, <2>2, <2>4 DEF ReadOversized
<1>4. ASSUME NEW err \in {"none", "EOF", "error"}, Discard(err) PROVE TypeInv'
  BY <1>4 DEF Discard
<1>5. CASE Check
  BY <1>5 DEF Check
<1>6. CASE Return
  <2>1. result' \in {"nil", "read error", "write error"}
    BY <1>6 DEF Return
  <2> QED BY <1>6, <2>1 DEF Return
<1>7. ASSUME NEW i \in Line, HandleLine(i) PROVE TypeInv'
  BY <1>7 DEF HandleLine
<1>8. ASSUME NEW i \in Line, LockWriter(i) PROVE TypeInv'
  BY <1>8 DEF LockWriter
<1>9. ASSUME NEW i \in Line, WriteBody(i) PROVE TypeInv'
  <2>1. <<i, "body">> \in Part
    BY DEF Part
  <2>2. Append(wire, <<i, "body">>) \in Seq(Part)
    BY <2>1, AppendProperties
  <2> QED BY <1>9, <2>2 DEF WriteBody
<1>10. ASSUME NEW i \in Line, WriteNewline(i) PROVE TypeInv'
  <2>1. <<i, "newline">> \in Part
    BY DEF Part
  <2>2. Append(wire, <<i, "newline">>) \in Seq(Part)
    BY <2>1, AppendProperties
  <2> QED BY <1>10, <2>2 DEF WriteNewline
<1>11. ASSUME NEW i \in Line, WriteFails(i) PROVE TypeInv'
  BY <1>11 DEF WriteFails
<1>12. CASE UNCHANGED vars
  BY <1>12 DEF vars
<1> QED
  BY <1>1, <1>2, <1>3, <1>4, <1>5, <1>6, <1>7, <1>8, <1>9, <1>10, <1>11, <1>12
  DEF Next, Write

\* Lines, mutex and return do not depend on what exactly is on the wire.
LEMMA ControlPreserved ==
  TypeInv /\ LineInv /\ MutexInv /\ ReturnInv /\ [Next]_vars
    => LineInv' /\ MutexInv' /\ ReturnInv'
<1> DEFINE P == LineInv /\ MutexInv /\ ReturnInv
<1> SUFFICES ASSUME TypeInv, P, [Next]_vars PROVE P'
  OBVIOUS
<1> USE ServeAssumption
    DEF TypeInv, Places, Kinds, Answered, cur, LineInv, MutexInv, ReturnInv, Line
<1>1. ASSUME NEW kind \in Kinds \ {"oversized"}, NEW err \in {"none", "EOF", "error"},
             ReadLine(kind, err)
      PROVE  P'
  BY <1>1 DEF ReadLine
<1>2. ASSUME NEW err \in {"EOF", "error"}, ReadEnd(err) PROVE P'
  BY <1>2 DEF ReadEnd
<1>3. CASE ReadOversized
  BY <1>3 DEF ReadOversized
<1>4. ASSUME NEW err \in {"none", "EOF", "error"}, Discard(err) PROVE P'
  BY <1>4 DEF Discard
<1>5. CASE Check
  BY <1>5 DEF Check
<1>6. CASE Return
  BY <1>6 DEF Return
<1>7. ASSUME NEW i \in Line, HandleLine(i) PROVE P'
  BY <1>7 DEF HandleLine
<1>8. ASSUME NEW i \in Line, LockWriter(i) PROVE P'
  <2>1. CASE writeErr
    BY <1>8, <2>1 DEF LockWriter
  <2>2. CASE ~writeErr
    <3>1. /\ mu = Nobody /\ mu' = i
          /\ work' = [work EXCEPT ![i] = "body"] /\ work[i] = "respond"
          /\ UNCHANGED <<pc, lines, end, wire, writeErr, result>>
      BY <1>8, <2>2 DEF LockWriter
    <3>2. LineInv'
      BY <3>1
    <3>3. \A j \in Line : work[j] \notin {"body", "newline"} /\ j # Nobody
      BY <3>1
    <3>4. MutexInv'
      BY <2>2, <3>1, <3>3
    <3>5. ReturnInv'
      BY <3>1
    <3> QED BY <3>2, <3>4, <3>5
  <2> QED BY <2>1, <2>2
<1>9. ASSUME NEW i \in Line, WriteBody(i) PROVE P'
  BY <1>9 DEF WriteBody
<1>10. ASSUME NEW i \in Line, WriteNewline(i) PROVE P'
  BY <1>10 DEF WriteNewline
<1>11. ASSUME NEW i \in Line, WriteFails(i) PROVE P'
  BY <1>11 DEF WriteFails
<1>12. CASE UNCHANGED vars
  BY <1>12 DEF vars
<1> QED
  BY <1>1, <1>2, <1>3, <1>4, <1>5, <1>6, <1>7, <1>8, <1>9, <1>10, <1>11, <1>12
  DEF Next, Write

\* A part written to the wire is one more part of its own line.
LEMMA PartsAppend ==
  ASSUME TypeInv, NEW i \in Line, NEW p \in {"body", "newline"},
         wire' = Append(wire, <<i, p>>)
  PROVE  /\ Len(wire) \in Nat /\ Len(wire') = Len(wire) + 1
         /\ wire'[Len(wire) + 1] = <<i, p>>
         /\ \A k \in 1..Len(wire) : wire'[k] = wire[k] /\ wire[k] \in Part
         /\ Parts(i)' = Parts(i) \cup {Len(wire) + 1}
         /\ \A j \in Line : j # i => Parts(j)' = Parts(j)
<1>1. wire \in Seq(Part) /\ <<i, p>> \in Part
  BY DEF TypeInv, Part
<1>2. /\ Len(wire') = Len(wire) + 1
      /\ wire'[Len(wire) + 1] = <<i, p>>
      /\ \A k \in 1..Len(wire) : wire'[k] = wire[k]
      /\ wire' \in Seq(Part)
  BY <1>1, AppendProperties
<1>3. Len(wire) \in Nat /\ DOMAIN wire = 1..Len(wire) /\ DOMAIN wire' = 1..Len(wire')
  BY <1>1, <1>2, LenProperties
<1>4. \A k \in 1..Len(wire) : wire[k] \in Part
  BY <1>1, ElementOfSeq
<1>5. 1..Len(wire') = 1..Len(wire) \cup {Len(wire) + 1}
  BY <1>2, <1>3
<1>6. <<i, p>>[1] = i
  OBVIOUS
<1>7. Parts(i)' = Parts(i) \cup {Len(wire) + 1}
  BY <1>2, <1>3, <1>5, <1>6 DEF Parts
<1>8. \A j \in Line : j # i => Parts(j)' = Parts(j)
  BY <1>2, <1>3, <1>5, <1>6 DEF Parts
<1> QED
  BY <1>2, <1>3, <1>4, <1>7, <1>8

\* What is on the wire stays whole: only the holder of the mutex adds to it.
LEMMA WirePreserved == IInv /\ [Next]_vars => WireInv' /\ PartsInv'
<1> DEFINE P == WireInv /\ PartsInv
<1> SUFFICES ASSUME IInv, [Next]_vars PROVE P'
  OBVIOUS
<1>0. /\ TypeInv /\ LineInv /\ MutexInv /\ WireInv /\ PartsInv
      /\ work \in [Line -> Places] /\ Len(wire) \in Nat /\ Len(lines) \in Nat
      /\ \A k \in 1..Len(wire) : wire[k][1] \in Line
      /\ \A k \in 1..Len(wire) : wire[k] \in Part
  <2>1. TypeInv /\ LineInv /\ MutexInv /\ WireInv /\ PartsInv
    BY DEF IInv
  <2>2. wire \in Seq(Part) /\ lines \in Seq(Kinds) /\ work \in [Line -> Places]
    BY <2>1 DEF TypeInv
  <2>3. \A k \in 1..Len(wire) : wire[k] \in Part
    BY <2>2, ElementOfSeq
  <2> QED BY <2>1, <2>2, <2>3, LenProperties DEF Part
<1>a. ASSUME NEW kind \in Kinds, NEW place \in {"handling", "respond", "done"},
             cur < MaxLines, lines' = Append(lines, kind),
             work' = [work EXCEPT ![cur + 1] = place],
             place = "done" => kind \notin Answered,
             wire' = wire, writeErr' = writeErr
      PROVE  P'
  <2>1. /\ \A i \in 1..Len(lines) : lines'[i] = lines[i]
        /\ lines'[cur + 1] = kind
    <3>1. lines \in Seq(Kinds) /\ kind \in Kinds
      BY <1>a, <1>0 DEF TypeInv
    <3> QED BY <1>a, <3>1, AppendProperties DEF cur
  <2>2. cur + 1 \in Line /\ work[cur + 1] = "none"
    BY <1>a, <1>0, ServeAssumption DEF LineInv, cur, Line
  <2>3. \A i \in Line : i # cur + 1 => work'[i] = work[i]
    BY <1>a, <1>0
  <2>4. work'[cur + 1] = place
    BY <1>a, <1>0, <2>2
  <2>5. \A i \in Line : Parts(i)' = Parts(i)
    BY <1>a DEF Parts
  <2>6. WireInv'
    BY <1>a, <1>0, <2>2, <2>3, <2>4 DEF WireInv
  <2>7. \A i \in Line : work[i] = "done" => lines'[i] = lines[i]
    BY <1>0, <2>1 DEF LineInv, Line
  <2>8. PartsInv'
    <3> SUFFICES ASSUME NEW i \in Line
                 PROVE  /\ work'[i] \in {"none", "handling", "respond", "body"} => Parts(i)' = {}
                        /\ work'[i] = "newline" => Parts(i)' = {Len(wire')}
                        /\ work'[i] = "done" /\ ~writeErr' =>
                             IF lines'[i] \in Answered
                             THEN \E k \in 1..Len(wire') : Parts(i)' = {k, k + 1}
                             ELSE Parts(i)' = {}
      BY DEF PartsInv
    <3>1. CASE i = cur + 1
      BY <3>1, <2>1, <2>2, <2>4, <2>5, <1>a, <1>0 DEF PartsInv
    <3>2. CASE i # cur + 1
      BY <3>2, <2>3, <2>5, <2>7, <1>a, <1>0 DEF PartsInv
    <3> QED BY <3>1, <3>2
  <2> QED BY <2>6, <2>8
<1>b. ASSUME UNCHANGED <<lines, work, wire>>, writeErr' = writeErr PROVE P'
  <2>1. \A i \in Line : Parts(i)' = Parts(i)
    BY <1>b DEF Parts
  <2> QED BY <1>b, <1>0, <2>1 DEF WireInv, PartsInv
<1>c. ASSUME NEW i \in Line, NEW place \in Places \ {"newline", "none"},
             work[i] # "newline" \/ writeErr',
             work[i] # "none", work' = [work EXCEPT ![i] = place],
             lines' = lines, wire' = wire, writeErr => writeErr', writeErr' \in BOOLEAN,
             place # "done" => Parts(i) = {},
             place = "done" /\ ~writeErr' => Parts(i) = {} /\ lines[i] \notin Answered
      PROVE  P'
  <2>1. \A j \in Line : Parts(j)' = Parts(j)
    BY <1>c DEF Parts
  <2>2. work'[i] = place /\ \A j \in Line : j # i => work'[j] = work[j]
    BY <1>c, <1>0
  <2>3. WireInv'
    <3>1. \A k \in 1..Len(wire') :
             /\ wire'[k][2] = "newline" => k > 1 /\ wire'[k - 1] = <<wire'[k][1], "body">>
             /\ wire'[k][2] = "body" /\ k < Len(wire') =>
                  wire'[k + 1] = <<wire'[k][1], "newline">>
             /\ wire'[k][2] = "body" /\ k = Len(wire') /\ ~writeErr' =>
                  work'[wire'[k][1]] = "newline"
      BY <1>c, <1>0, <2>2 DEF WireInv
    <3>2. \A j \in Line : work'[j] = "newline" =>
             Len(wire') > 0 /\ wire'[Len(wire')] = <<j, "body">>
      BY <1>c, <1>0, <2>2 DEF WireInv
    <3> QED BY <3>1, <3>2 DEF WireInv
  <2>4. PartsInv'
    <3> SUFFICES ASSUME NEW j \in Line
                 PROVE  /\ work'[j] \in {"none", "handling", "respond", "body"} => Parts(j)' = {}
                        /\ work'[j] = "newline" => Parts(j)' = {Len(wire')}
                        /\ work'[j] = "done" /\ ~writeErr' =>
                             IF lines'[j] \in Answered
                             THEN \E k \in 1..Len(wire') : Parts(j)' = {k, k + 1}
                             ELSE Parts(j)' = {}
      BY DEF PartsInv
    <3>1. CASE j = i
      BY <3>1, <2>1, <2>2, <1>c, <1>0 DEF PartsInv, Places
    <3>2. CASE j # i
      BY <3>2, <2>1, <2>2, <1>c, <1>0 DEF PartsInv
    <3> QED BY <3>1, <3>2
  <2> QED BY <2>3, <2>4
<1>1. ASSUME NEW kind \in Kinds \ {"oversized"}, NEW err \in {"none", "EOF", "error"},
             ReadLine(kind, err)
      PROVE  P'
  BY <1>1, <1>a DEF ReadLine, Answered
<1>2. ASSUME NEW err \in {"EOF", "error"}, ReadEnd(err) PROVE P'
  BY <1>2, <1>b DEF ReadEnd
<1>3. CASE ReadOversized
  BY <1>3, <1>a DEF ReadOversized, Kinds
<1>4. ASSUME NEW err \in {"none", "EOF", "error"}, Discard(err) PROVE P'
  BY <1>4, <1>b DEF Discard
<1>5. CASE Check
  BY <1>5, <1>b DEF Check
<1>6. CASE Return
  BY <1>6, <1>b DEF Return
<1>7. ASSUME NEW i \in Line, HandleLine(i) PROVE P'
  <2> DEFINE place == IF lines[i] \in Answered THEN "respond" ELSE "done"
  <2>1. Parts(i) = {}
    BY <1>7, <1>0 DEF HandleLine, PartsInv
  <2>2. /\ work[i] = "handling" /\ work' = [work EXCEPT ![i] = place]
        /\ UNCHANGED <<lines, wire, writeErr>>
    BY <1>7 DEF HandleLine
  <2>3. place \in Places \ {"newline", "none"} /\ (place = "done" => lines[i] \notin Answered)
    BY DEF Places
  <2> HIDE DEF place
  <2> QED BY <2>1, <2>2, <2>3, <1>c, <1>0 DEF TypeInv
<1>8. ASSUME NEW i \in Line, LockWriter(i) PROVE P'
  <2>1. Parts(i) = {}
    BY <1>8, <1>0 DEF LockWriter, PartsInv
  <2>2. work[i] = "respond" /\ UNCHANGED <<lines, wire, writeErr>>
    BY <1>8 DEF LockWriter
  <2>3. CASE writeErr
    <3>1. work' = [work EXCEPT ![i] = "done"]
      BY <1>8, <2>3 DEF LockWriter
    <3> QED BY <2>1, <2>2, <2>3, <3>1, <1>c, <1>0 DEF TypeInv, Places
  <2>4. CASE ~writeErr
    <3>1. work' = [work EXCEPT ![i] = "body"]
      BY <1>8, <2>4 DEF LockWriter
    <3> QED BY <2>1, <2>2, <2>4, <3>1, <1>c, <1>0 DEF TypeInv, Places
  <2> QED BY <2>3, <2>4
<1>9. ASSUME NEW i \in Line, WriteBody(i) PROVE P'
  <2> DEFINE n == Len(wire)
  <2>1. /\ work[i] = "body" /\ work' = [work EXCEPT ![i] = "newline"]
        /\ wire' = Append(wire, <<i, "body">>)
        /\ UNCHANGED <<lines, writeErr>>
    BY <1>9 DEF WriteBody
  <2>2. /\ n \in Nat /\ Len(wire') = n + 1 /\ wire'[n + 1] = <<i, "body">>
        /\ \A k \in 1..n : wire'[k] = wire[k] /\ wire[k] \in Part
        /\ Parts(i)' = Parts(i) \cup {n + 1}
        /\ \A j \in Line : j # i => Parts(j)' = Parts(j)
    BY <2>1, <1>0, PartsAppend
  <2>3. work'[i] = "newline" /\ \A j \in Line : j # i => work'[j] = work[j]
    BY <2>1, <1>0
  <2>4. ~writeErr /\ \A j \in Line : work[j] # "newline"
    BY <2>1, <1>0, ServeAssumption DEF MutexInv, Line
  <2>5. \A k \in 1..n : wire[k][2] = "body" => k # n
    BY <2>4, <1>0 DEF WireInv
  <2> HIDE DEF n
  <2>6. WireInv'
    <3>1. ASSUME NEW k \in 1..(n + 1)
          PROVE /\ wire'[k][2] = "newline" => k > 1 /\ wire'[k - 1] = <<wire'[k][1], "body">>
                /\ wire'[k][2] = "body" /\ k < n + 1 =>
                     wire'[k + 1] = <<wire'[k][1], "newline">>
                /\ wire'[k][2] = "body" /\ k = n + 1 => work'[wire'[k][1]] = "newline"
      <4>1. CASE k = n + 1
        BY <4>1, <2>2, <2>3
      <4>2. CASE k # n + 1
        <5>1. k \in 1..n /\ wire'[k] = wire[k]
          BY <4>2, <2>2
        <5>2. CASE wire[k][2] = "newline"
          <6>1. k > 1 /\ wire[k - 1] = <<wire[k][1], "body">>
            BY <5>1, <5>2, <1>0 DEF WireInv, n
          <6>2. k - 1 \in 1..n
            BY <5>1, <6>1, <2>2
          <6> QED BY <5>1, <5>2, <6>1, <6>2, <2>2
        <5>3. CASE wire[k][2] = "body"
          <6>1. k < n
            BY <5>1, <5>3, <2>2, <2>5
          <6>2. wire[k + 1] = <<wire[k][1], "newline">>
            BY <5>1, <5>3, <6>1, <1>0 DEF WireInv, n
          <6>3. k + 1 \in 1..n
            BY <5>1, <6>1, <2>2
          <6> QED BY <5>1, <5>3, <6>2, <6>3, <6>1, <2>2
        <5> QED BY <5>1, <5>2, <5>3, <2>2 DEF Part
      <4> QED BY <4>1, <4>2
    <3>2. \A j \in Line : work'[j] = "newline" => j = i
      BY <2>3, <2>4
    <3> QED BY <3>1, <3>2, <2>2 DEF WireInv
  <2>7. PartsInv'
    <3>1. Parts(i) = {}
      BY <2>1, <1>0 DEF PartsInv
    <3>2. \A j \in Line : j # i =>
             /\ work[j] \in {"none", "handling", "respond", "body"} => Parts(j) = {}
             /\ work[j] = "done" =>
                  IF lines[j] \in Answered THEN \E k \in 1..n : Parts(j) = {k, k + 1}
                                           ELSE Parts(j) = {}
      BY <1>0, <2>4 DEF PartsInv, n
    <3>3. 1..n \subseteq 1..(n + 1)
      BY <2>2
    <3> QED BY <3>1, <3>2, <3>3, <2>1, <2>2, <2>3, <2>4 DEF PartsInv
  <2> QED BY <2>6, <2>7
<1>10. ASSUME NEW i \in Line, WriteNewline(i) PROVE P'
  <2> DEFINE n == Len(wire)
  <2>1. /\ work[i] = "newline" /\ work' = [work EXCEPT ![i] = "done"]
        /\ wire' = Append(wire, <<i, "newline">>)
        /\ UNCHANGED <<lines, writeErr>>
    BY <1>10 DEF WriteNewline
  <2>2. /\ n \in Nat /\ Len(wire') = n + 1 /\ wire'[n + 1] = <<i, "newline">>
        /\ \A k \in 1..n : wire'[k] = wire[k] /\ wire[k] \in Part
        /\ Parts(i)' = Parts(i) \cup {n + 1}
        /\ \A j \in Line : j # i => Parts(j)' = Parts(j)
    BY <2>1, <1>0, PartsAppend
  <2>3. work'[i] = "done" /\ \A j \in Line : j # i => work'[j] = work[j]
    BY <2>1, <1>0
  <2>4. ~writeErr /\ \A j \in Line : j # i => work[j] # "newline"
    BY <2>1, <1>0, ServeAssumption DEF MutexInv, Line
  <2>5. n > 0 /\ wire[n] = <<i, "body">>
    BY <2>1, <1>0 DEF WireInv
  <2> HIDE DEF n
  <2>6. WireInv'
    <3>1. ASSUME NEW k \in 1..(n + 1)
          PROVE /\ wire'[k][2] = "newline" => k > 1 /\ wire'[k - 1] = <<wire'[k][1], "body">>
                /\ wire'[k][2] = "body" /\ k < n + 1 =>
                     wire'[k + 1] = <<wire'[k][1], "newline">>
                /\ wire'[k][2] = "body" => k # n + 1
      <4>1. CASE k = n + 1
        BY <4>1, <2>2, <2>5
      <4>2. CASE k # n + 1
        <5>1. k \in 1..n /\ wire'[k] = wire[k]
          BY <4>2, <2>2
        <5>2. CASE wire[k][2] = "newline"
          <6>1. k > 1 /\ wire[k - 1] = <<wire[k][1], "body">>
            BY <5>1, <5>2, <1>0 DEF WireInv, n
          <6>2. k - 1 \in 1..n
            BY <5>1, <6>1, <2>2
          <6> QED BY <5>1, <5>2, <6>1, <6>2, <2>2
        <5>3. CASE wire[k][2] = "body"
          <6>1. CASE k = n
            BY <5>1, <6>1, <2>2, <2>5
          <6>2. CASE k # n
            <7>1. k < n /\ k + 1 \in 1..n
              BY <5>1, <6>2, <2>2
            <7>2. wire[k + 1] = <<wire[k][1], "newline">>
              BY <5>1, <5>3, <7>1, <1>0 DEF WireInv, n
            <7> QED BY <5>1, <5>3, <7>1, <7>2, <4>2, <2>2
          <6> QED BY <6>1, <6>2
        <5> QED BY <5>1, <5>2, <5>3, <2>2 DEF Part
      <4> QED BY <4>1, <4>2
    <3>2. \A j \in Line : work'[j] # "newline"
      BY <2>3, <2>4
    <3> QED BY <3>1, <3>2, <2>2 DEF WireInv
  <2>7. PartsInv'
    <3>1. Parts(i) = {n} /\ lines[i] \in Answered
      BY <2>1, <1>0 DEF PartsInv, LineInv, n
    <3>2. n \in 1..(n + 1) /\ Parts(i)' = {n, n + 1}
      BY <2>2, <2>5, <3>1
    <3>3. \A j \in Line : j # i =>
             /\ work[j] \in {"none", "handling", "respond", "body"} => Parts(j) = {}
             /\ work[j] = "done" =>
                  IF lines[j] \in Answered THEN \E k \in 1..n : Parts(j) = {k, k + 1}
                                           ELSE Parts(j) = {}
      BY <1>0, <2>4 DEF PartsInv, n
    <3>4. 1..n \subseteq 1..(n + 1)
      BY <2>2
    <3> QED BY <3>1, <3>2, <3>3, <3>4, <2>1, <2>2, <2>3, <2>4 DEF PartsInv
  <2> QED BY <2>6, <2>7
<1>11. ASSUME NEW i \in Line, WriteFails(i) PROVE P'
  <2>1. /\ work[i] \in {"body", "newline"} /\ work' = [work EXCEPT ![i] = "done"]
        /\ writeErr' = TRUE /\ UNCHANGED <<lines, wire>>
    BY <1>11 DEF WriteFails
  <2> QED BY <2>1, <1>c DEF Places
<1>12. CASE UNCHANGED vars
  BY <1>12, <1>b DEF vars
<1> QED
  BY <1>1, <1>2, <1>3, <1>4, <1>5, <1>6, <1>7, <1>8, <1>9, <1>10, <1>11, <1>12
  DEF Next, Write

\* IInv is inductive.
LEMMA Inductive == Spec => []IInv
<1>1. IInv /\ [Next]_vars => IInv'
  BY TypePreserved, ControlPreserved, WirePreserved DEF IInv
<1> QED
  BY InitIInv, <1>1, PTL DEF Spec

\* Whatever the lines and the order of their answers, a response is a body and
\* its own newline, and a clean return has answered every line that draws one
\* exactly once and no other (Serve and writeResp, mcp.go:116-215).
THEOREM AnswersWhole == Spec => []AnsweredWhole
<1>1. IInv => AnsweredWhole
  <2> SUFFICES ASSUME IInv PROVE AnsweredWhole
    OBVIOUS
  <2>1. /\ TypeInv /\ WireInv /\ PartsInv /\ ReturnInv /\ LineInv
        /\ wire \in Seq(Part) /\ DOMAIN wire = 1..Len(wire) /\ Len(lines) \in Nat
    BY LenProperties DEF IInv, TypeInv
  <2>2. \A k \in DOMAIN wire :
          /\ wire[k][2] = "newline" => k > 1 /\ wire[k - 1] = <<wire[k][1], "body">>
          /\ wire[k][2] = "body" /\ k < Len(wire) =>
               wire[k + 1] = <<wire[k][1], "newline">>
    BY <2>1 DEF WireInv
  <2>3. ASSUME result = "nil", NEW i \in 1..cur
        PROVE  Cardinality(Parts(i)) = IF lines[i] \in Answered THEN 2 ELSE 0
    <3>1. i \in Line /\ i <= Len(lines)
      <4>1. Len(lines) <= MaxLines /\ i \in 1..Len(lines)
        BY <2>3, <2>1 DEF cur, TypeInv
      <4> QED BY <4>1, <2>1, ServeAssumption DEF Line
    <3>2. ~writeErr /\ work[i] = "done"
      BY <2>3, <2>1, <3>1 DEF ReturnInv, LineInv, Line
    <3>3. CASE lines[i] \in Answered
      <4>1. PICK k \in 1..Len(wire) : Parts(i) = {k, k + 1}
        BY <3>1, <3>2, <3>3, <2>1 DEF PartsInv
      <4>2. k \in Int /\ k # k + 1
        BY <2>1
      <4>3. Cardinality({k, k + 1}) = 2
        <5>1. IsFiniteSet({k}) /\ Cardinality({k}) = 1
          BY FS_Singleton
        <5>2. k + 1 \notin {k}
          BY <4>2
        <5>3. Cardinality({k} \cup {k + 1}) = Cardinality({k}) + 1
          BY <5>1, <5>2, FS_AddElement
        <5>4. {k, k + 1} = {k} \cup {k + 1}
          OBVIOUS
        <5> QED BY <5>1, <5>3, <5>4
      <4> QED BY <3>3, <4>1, <4>3
    <3>4. CASE lines[i] \notin Answered
      <4>1. Parts(i) = {}
        BY <3>1, <3>2, <3>4, <2>1 DEF PartsInv
      <4> QED BY <3>4, <4>1, FS_EmptySet
    <3> QED BY <3>3, <3>4
  <2> QED BY <2>2, <2>3 DEF AnsweredWhole
<1> QED
  BY Inductive, <1>1, PTL

\* After a failed write nothing more is written and Serve does not report
\* success; after Serve has returned no handler moves (mcp.go:127-156, 197-214).
THEOREM FallsSilent == Spec => SilentOnceOver
<1>1. IInv /\ [Next]_vars =>
        [/\ writeErr \/ pc = "returned" => wire' = wire
         /\ pc = "returned" => work' = work
         /\ writeErr /\ result' # result => result' # "nil"]_vars
  <2> SUFFICES ASSUME IInv, Next
               PROVE  /\ writeErr \/ pc = "returned" => wire' = wire
                      /\ pc = "returned" => work' = work
                      /\ writeErr /\ result' # result => result' # "nil"
    OBVIOUS
  <2>1. /\ \A i \in Line : work[i] \in {"body", "newline"} => mu = i
        /\ writeErr => mu = Nobody
        /\ pc = "returned" => \A i \in Line : work[i] \in {"none", "done"}
        /\ writeErr \in BOOLEAN
    BY DEF IInv, MutexInv, ReturnInv, TypeInv
  <2>2. \A i \in Line : work[i] \in {"body", "newline"} => ~writeErr
    BY <2>1, ServeAssumption DEF Line
  <2>3. ASSUME NEW kind, NEW err, ReadLine(kind, err)
        PROVE  pc = "read" /\ UNCHANGED <<wire, result>>
    BY <2>3 DEF ReadLine
  <2>4. ASSUME NEW err, ReadEnd(err) \/ Discard(err) \/ ReadOversized \/ Check
        PROVE  pc # "returned" /\ UNCHANGED <<wire, result>>
    BY <2>4 DEF ReadEnd, Discard, ReadOversized, Check
  <2>5. CASE Return
    BY <2>1, <2>5 DEF Return
  <2>6. ASSUME NEW i \in Line, HandleLine(i) \/ Write(i) \/ WriteFails(i)
        PROVE  /\ pc # "returned" /\ result' = result
               /\ writeErr => wire' = wire
    BY <2>1, <2>2, <2>6 DEF HandleLine, Write, LockWriter, WriteBody, WriteNewline, WriteFails
  <2> QED
    BY <2>3, <2>4, <2>5, <2>6 DEF Next
<1> QED
  BY Inductive, <1>1, PTL DEF Spec, SilentOnceOver
=============================================================================
