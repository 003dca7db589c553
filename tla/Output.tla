------------------------------- MODULE Output -------------------------------
(***************************************************************************)
(* What the orchestrator makes of an agent's stdout (the parsers of        *)
(* internal/agentproto).  An agent prints prose and then a JSON block;     *)
(* topLevelObjectSpans scans the bytes once for top-level {...} spans, and *)
(* each parser takes the last span that unmarshals and looks like the      *)
(* answer it was sent for.                                                 *)
(*                                                                         *)
(* A text is a sequence of bytes of which four matter to the scanner.  The *)
(* JSON decoder is the constant json: the spans it accepts, and what each  *)
(* of them says.  The second half is a grammar for the same spans, which    *)
(* the scanner is checked, and proved, to find.                            *)
(***************************************************************************)
EXTENDS Integers, Sequences, FiniteSets, SequencesExt

CONSTANTS
  json,            \* the texts that unmarshal -> what the object says
  Stdout,          \* bound: what an agent, or a verify command, may print
  None

Quote == "quote"
Backslash == "backslash"
LBrace == "{"
RBrace == "}"

\* The statuses a response may give, as far as anything reads them: the words
\* the pipeline has of its own among them, and "error" for any other word.
Given == {"ok", "error", "unparsed", "review_failed", "verify_failed"}

\* What an object says: a response's status, a review's outcome, steps, a
\* goal-met verdict; or nothing any parser but ParseResponse looks for.
Content == Given \cup {"approved", "critical", "steps", "met", "unmet", "other"}

ASSUME OutputAssumption ==
  /\ \A s \in DOMAIN json : json[s] \in Content
  /\ None \notin Content
  /\ None \notin Seq(STRING) /\ \A s \in Stdout : s \in Seq(STRING)

-----------------------------------------------------------------------------
(* The scanner: one pass, one byte at a time.                              *)

Scanner == [pos |-> 0, depth |-> 0, start |-> 0, inString |-> FALSE,
            escaped |-> FALSE, spans |-> <<>>]

\* Mutant of InString: every quote ends the string.
InStringUnescaped(st, c) ==
  [st EXCEPT !.pos = @ + 1, !.inString = c # Quote]

\* In a string only its end matters, and an escaped quote is not its end.
InString(st, c) ==
  [st EXCEPT !.pos = @ + 1,
             !.escaped = ~st.escaped /\ c = Backslash,
             !.inString = st.escaped \/ c # Quote]

\* Outside, braces nest; one that closes the outermost object ends a span.
Outside(st, c) ==
  LET i == st.pos + 1
      closes == c = RBrace /\ st.depth = 1
  IN
  [st EXCEPT !.pos = i,
             !.inString = c = Quote,
             !.depth = IF c = LBrace THEN @ + 1
                       ELSE IF c = RBrace /\ @ > 0 THEN @ - 1 ELSE @,
             !.start = IF c = LBrace /\ st.depth = 0 THEN i
                       ELSE IF closes THEN 0 ELSE @,
             !.spans = IF closes THEN Append(@, <<st.start, i>>) ELSE @]

Step(st, c) == IF st.inString THEN InString(st, c) ELSE Outside(st, c)

\* Scan(s)[i]: the scanner after i bytes.
Scan(s) ==
  LET scan[i \in 0..Len(s)] ==
        IF i = 0 THEN Scanner ELSE Step(scan[i - 1], s[i])
  IN scan

topLevelObjectSpans(s) == Scan(s)[Len(s)].spans

-----------------------------------------------------------------------------
(* The parsers.                                                            *)

\* The last span that unmarshals to an object of one of the kinds C, or nothing.
LastOf(s, C) ==
  LET spans == topLevelObjectSpans(s)
      text == [k \in DOMAIN spans |-> SubSeq(s, spans[k][1], spans[k][2])]
      fits == {k \in DOMAIN spans : text[k] \in DOMAIN json /\ json[text[k]] \in C}
  IN IF fits = {} THEN <<>> ELSE text[Max(fits)]

\* Any object will do as a response; the status it gives is passed on whatever
\* it is, and one without a status means ok.  Where there is no object, the
\* whole text is the result.
ParseResponse(s) ==
  LET text == LastOf(s, Content) IN
  IF text = <<>> THEN [status |-> "unparsed", result |-> s]
  ELSE [status |-> IF json[text] \in Given THEN json[text] ELSE "ok", result |-> text]

Said(s, C) ==
  LET text == LastOf(s, C) IN IF text = <<>> THEN None ELSE json[text]

ParseReviewResponse(s) == Said(s, {"approved", "critical"})
ParsePlanResponse(s) == Said(s, {"steps"})
ParseGoalCheckResponse(s) == Said(s, {"met", "unmet"})

-----------------------------------------------------------------------------
(* Reference: the spans by their grammar.                                  *)

\* A quote is escaped by an odd number of backslashes right before it, in the
\* literal that begins at i.
Escaped(s, i, k) ==
  Cardinality({m \in (i + 1)..(k - 1) : \A x \in m..(k - 1) : s[x] = Backslash})
    % 2 = 1

Literal(s, i, j) ==
  /\ i < j /\ s[i] = Quote
  /\ \A k \in (i + 1)..j : s[k] = Quote => (Escaped(s, i, k) <=> k < j)
  /\ s[j] = Quote

\* Bodies(s)[<<i, j>>]: s[i..j] is made of plain bytes, literals and objects; an
\* object is a body in braces.
Bodies(s) ==
  LET body[o \in (1..(Len(s) + 1)) \X (0..Len(s))] ==
        LET i == o[1]
            j == o[2]
        IN
        \/ i > j
        \/ s[i] \notin {Quote, LBrace, RBrace} /\ body[<<i + 1, j>>]
        \/ \E k \in (i + 1)..j :
             /\ \/ Literal(s, i, k)
                \/ s[i] = LBrace /\ s[k] = RBrace /\ body[<<i + 1, k - 1>>]
             /\ body[<<k + 1, j>>]
  IN body

Objects(s) ==
  {o \in (1..Len(s)) \X (1..Len(s)) :
     o[1] < o[2] /\ s[o[1]] = LBrace /\ s[o[2]] = RBrace /\ Bodies(s)[<<o[1] + 1, o[2] - 1>>]}

\* Prose(s)[n]: the first n bytes are plain bytes, literals and objects, and
\* perhaps closing braces that close nothing.
Prose(s) ==
  LET prose[n \in 0..Len(s)] ==
        \/ n = 0
        \/ s[n] \notin {Quote, LBrace} /\ prose[n - 1]
        \/ \E m \in 1..(n - 1) :
             (Literal(s, m, n) \/ <<m, n>> \in Objects(s)) /\ prose[m - 1]
  IN prose

TopLevel(s) == {o \in Objects(s) : Prose(s)[o[1] - 1]}
=============================================================================
