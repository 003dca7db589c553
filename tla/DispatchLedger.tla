--------------------------- MODULE DispatchLedger ---------------------------
(***************************************************************************)
(* What a dispatch promises of the memory it shares with the others, and   *)
(* of its answer: every author run has a record of its own, opened before  *)
(* the agent runs and, if it is completed, completed before the next is    *)
(* opened.  While a run is open its agent may overwrite any of the         *)
(* records, its own among them, which is why completing writes it again;   *)
(* otherwise only the record of the outcome adopted last is written, from  *)
(* the dispatch's own copy, review and all.  A dispatch that has adopted   *)
(* an outcome is answered with it, and then writes nothing.  Dispatches    *)
(* with the same agent may overwrite a record at any time.  Dispatch       *)
(* implements this.                                                        *)
(***************************************************************************)
EXTENDS Integers

CONSTANTS
  Run,             \* the author runs a dispatch may make, 1 to some number
  Status,          \* the statuses a completed record or an answer may have
  Failed,          \* those among them that the dispatch itself reports
  None

VARIABLES
  store,           \* run -> [status, review] of its record
  open,            \* the run whose agent is at work, or 0
  adopted,         \* the outcome taken last, and the copy of its record:
                   \*   [key, status, review], with key 0 for none
  answer           \* None, "error", or [key, status, recorded]

lvars == <<store, open, adopted, answer>>

LInit ==
  /\ store = <<>>
  /\ open = 0
  /\ adopted = [key |-> 0, status |-> None, review |-> None]
  /\ answer = None

\* Nothing but the record of k is written, and no record is lost.
Write(k, status, review) ==
  store' = [j \in DOMAIN store \cup {k} |->
              IF j = k THEN [status |-> status, review |-> review] ELSE store[j]]

\* The intent of the next run.
Open(k) ==
  /\ answer = None /\ open = 0
  /\ \A j \in DOMAIN store : j < k
  /\ Write(k, "intent", None)
  /\ open' = k
  /\ UNCHANGED <<adopted, answer>>

\* The agent at work overwrites a record.
Overwrite(k) ==
  /\ open # 0
  /\ Write(k, "update", None)
  /\ UNCHANGED <<open, adopted, answer>>

\* So does an agent of another dispatch.
Intrude(k) ==
  /\ Write(k, "foreign", None)
  /\ UNCHANGED <<open, adopted, answer>>

Complete(s) ==
  /\ open # 0
  /\ Write(open, s, None)
  /\ adopted' = [key |-> open, status |-> s, review |-> None]
  /\ open' = 0
  /\ UNCHANGED answer

\* An open run fails; it is the end if nothing has been adopted.
GiveUp ==
  /\ open # 0 /\ open' = 0
  /\ answer' = IF adopted.key = 0 THEN "error" ELSE answer
  /\ UNCHANGED <<store, adopted>>

\* It ends without an outcome, and no run is open.
Refuse ==
  /\ answer = None /\ open = 0 /\ adopted.key = 0
  /\ answer' = "error"
  /\ UNCHANGED <<store, open, adopted>>

\* The review of the outcome adopted goes into its record.
AttachReview ==
  /\ answer = None /\ open = 0 /\ adopted.key # 0 /\ adopted.review = None
  /\ adopted' = [adopted EXCEPT !.review = adopted'.review]
  /\ Write(adopted.key, adopted.status, adopted'.review) \/ UNCHANGED store
  /\ UNCHANGED <<open, answer>>

\* The record says what the answer says, because it is written again or
\* because it did; or the answer's record could not be written.  An agent's
\* value may be left where the failure reported is what the record said.
Answer(s) ==
  /\ answer = None /\ open = 0 /\ adopted.key # 0
  /\ adopted' = [adopted EXCEPT !.status = s]
  /\ \/ /\ Write(adopted.key, s, adopted.review)
        /\ answer' = [key |-> adopted.key, status |-> s, recorded |-> TRUE]
     \/ /\ s = adopted.status
        /\ \/ store[adopted.key].status \in {s, "foreign"}
           \/ store[adopted.key].status = "update" /\ s \in Failed
        /\ answer' = [key |-> adopted.key, status |-> s, recorded |-> TRUE]
        /\ UNCHANGED store
     \/ /\ s # adopted.status
        /\ answer' = [key |-> adopted.key, status |-> s, recorded |-> FALSE]
        /\ UNCHANGED store
  /\ UNCHANGED open

LNext ==
  \/ \E k \in Run : Open(k)
  \/ \E k \in DOMAIN store : Overwrite(k) \/ Intrude(k)
  \/ \E s \in Status : Complete(s) \/ Answer(s)
  \/ GiveUp \/ Refuse \/ AttachReview

LSpec == LInit /\ [][LNext]_lvars
=============================================================================
