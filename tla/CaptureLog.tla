----------------------------- MODULE CaptureLog -----------------------------
(***************************************************************************)
(* What the capture of raw batches promises, without advisory locks,       *)
(* unique indexes, retries and rollbacks: a log that only grows, one batch *)
(* and one request at a time.  A request that stores or finds its batch    *)
(* does so in one step between its question and its answer.                *)
(***************************************************************************)
EXTENDS Naturals, Sequences

CONSTANTS Captures, Identities, Bodies,
          Nothing,    \* what a request has before its batch was delivered
          StatusOf,   \* of each body, the status prepareBatch gives it
          RowsOf,     \* of each body, how many rows it has
          Refusals

VARIABLES log,        \* the batches stored, in order
          asked,      \* of each request, the batch it is to capture
          answer

logged == <<log, asked, answer>>

Unanswered == [outcome |-> "NONE", status |-> "NONE", replay |-> FALSE, id |-> 0]
Refusal(reason) == [Unanswered EXCEPT !.outcome = reason]
Ingested(status, n) == [outcome |-> "INGESTED", status |-> status, replay |-> FALSE, id |-> n]
Replayed(status, n) == [outcome |-> "INGESTED", status |-> status, replay |-> TRUE, id |-> n]

Init ==
    /\ log = <<>>
    /\ asked = [c \in Captures |-> Nothing]
    /\ answer = [c \in Captures |-> Unanswered]

Asks(c, question) ==
    /\ asked[c] = Nothing
    /\ asked' = [asked EXCEPT ![c] = question]

Answers(c, a) ==
    /\ answer[c] = Unanswered
    /\ answer' = [answer EXCEPT ![c] = a]

Question(mode, i, b) == [mode |-> mode, identity |-> i, body |-> b]

Of(i) == {n \in 1..Len(log) : log[n].identity = i}
Places(r) == {n \in Of(r.identity) : log[n].body = r.body}
First(i) == IF Of(i) = {} THEN 0 ELSE CHOOSE n \in Of(i) : \A m \in Of(i) : n <= m

(* The first batch of an identity is its original, any other a conflict with it. *)
Entry(r) ==
    [identity |-> r.identity, body |-> r.body, rows |-> RowsOf[r.body],
     status |-> IF Of(r.identity) = {} THEN StatusOf[r.body] ELSE "CONFLICT",
     conflictsWith |-> First(r.identity)]

Ask(c) ==
    /\ answer[c] = Unanswered
    /\ \E i \in Identities, b \in Bodies : Asks(c, Question("PERSIST", i, b))
    /\ UNCHANGED <<log, answer>>

(* A dry run shows what would be stored as an original, and stores nothing. *)
Show(c) ==
    /\ \E i \in Identities, b \in Bodies :
          /\ Asks(c, Question("DRY_RUN", i, b))
          /\ Answers(c, Ingested(StatusOf[b], 0))
    /\ UNCHANGED log

Refuse(c) ==
    /\ \E reason \in Refusals : Answers(c, Refusal(reason))
    /\ UNCHANGED <<log, asked>>

(* A batch is stored once; the answer may be lost. *)
Store(c) ==
    /\ asked[c] # Nothing
    /\ Places(asked[c]) = {}
    /\ log' = Append(log, Entry(asked[c]))
    /\ \/ Answers(c, Ingested(Entry(asked[c]).status, Len(log) + 1))
       \/ Answers(c, Refusal("RAW_INGESTION_FAILED"))
    /\ UNCHANGED asked

Replay(c) ==
    /\ asked[c] # Nothing
    /\ \E n \in Places(asked[c]) : Answers(c, Replayed(log[n].status, n))
    /\ UNCHANGED <<log, asked>>

(* Each of the actions moves its own request: said first, for TLC. *)
Moves(c) == asked'[c] # asked[c] \/ answer'[c] # answer[c]

Next ==
    \E c \in Captures :
        Moves(c) /\ (Ask(c) \/ Show(c) \/ Refuse(c) \/ Store(c) \/ Replay(c))

Spec == Init /\ [][Next]_logged
=============================================================================
