---------------------------- MODULE RawIngestion ----------------------------
(***************************************************************************)
(* The capture of raw batches: orchestrateFantasyRawIngestion (raw-        *)
(* orchestration.ts) asks the connector for a batch and refuses what does  *)
(* not fit the configured source; ingestFantasyRawBatch (raw-ingestion.ts) *)
(* stores it with its rows in one transaction under an advisory lock of    *)
(* its identity, as a replay, an original or a conflict, and retries.      *)
(*                                                                         *)
(* An identity stands for sourceMode, contractVersion and providerBatchId; *)
(* the hash of a batch stands for its body (headers and rows).  A stored   *)
(* batch is known by its place in `captured', which is its order of        *)
(* creation.                                                               *)
(***************************************************************************)
EXTENDS FantasyRowContract

CONSTANTS Captures,    \* requests to orchestrateFantasyRawIngestion
          Identities,
          NoCapture,
          Bodies,      \* [supported, headers, rows] of FantasyRowContract
          NoBody

MaxPersistAttempts == 3

ASSUME NoCaptureAssumption == NoCapture \notin Captures
ASSUME NoBodyAssumption == NoBody \notin Bodies
ASSUME RowsAssumption == \A b \in Bodies : Len(b.rows) \in Nat

VARIABLES captured,    \* FantasyRawBatch rows, with the number of their rows
          advisory,    \* pg_advisory_xact_lock of each identity
          capture      \* what each request is doing

rawVars == <<captured, advisory, capture>>

Modes == {"DRY_RUN", "PERSIST"}
EffectiveStates == {"FIXTURE_SIMULATION", "LIVE_FANTASY", "LIVE_FANTASY_DEGRADED", "NOT_CONFIGURED"}
BatchStatuses == {"ACCEPTED", "ACCEPTED_WITH_ISSUES", "REJECTED", "CONFLICT"}
Refusals == {"SOURCE_NOT_CONFIGURED", "PROVIDER_NOT_IMPLEMENTED", "PROVIDER_SIMULATION_MISMATCH",
             "DRY_RUN_FETCH_NOT_SUPPORTED", "CONTRACT_VERSION_MISMATCH", "PROVIDER_UNAVAILABLE",
             "NO_BATCH", "BATCH_VALIDATION_FAILED", "DELIVERY_MODE_MISMATCH",
             "RAW_INGESTION_FAILED"}
Context == [sourceState: EffectiveStates, implemented: BOOLEAN, simulated: BOOLEAN,
            supportsDryRunFetch: BOOLEAN, versionFits: BOOLEAN]

StoredBatch == [identity: Identities, body: Bodies, status: BatchStatuses,
                conflictsWith: Nat, rows: Nat]
NoAnswer == [outcome |-> "NONE", status |-> "NONE", replay |-> FALSE, id |-> 0]

NewCapture == [at |-> "start", mode |-> "PERSIST",
               identity |-> CHOOSE i \in Identities : TRUE, body |-> NoBody, attempt |-> 1,
               status |-> "NONE", original |-> 0, answer |-> NoAnswer]

RawInit ==
    /\ captured = <<>>
    /\ advisory = [i \in Identities |-> NoCapture]
    /\ capture = [c \in Captures |-> NewCapture]

Ended(r, answer) == [r EXCEPT !.at = "ended", !.answer = answer, !.attempt = 1,
                             !.status = "NONE", !.original = 0]
RefusedFor(r, code) == Ended(r, [NoAnswer EXCEPT !.outcome = code])
Becomes(c, r) == capture' = [capture EXCEPT ![c] = r]
-----------------------------------------------------------------------------
(* orchestrateFantasyRawIngestion. *)

SimulationMatchesSource(state, simulated) ==
    CASE state = "FIXTURE_SIMULATION" -> simulated
      [] state \in {"LIVE_FANTASY", "LIVE_FANTASY_DEGRADED"} -> ~simulated
      [] OTHER -> FALSE

(* Before the connector is asked, in the order of the code. *)
RefusalOf(context, mode) ==
    IF context.sourceState = "NOT_CONFIGURED" THEN "SOURCE_NOT_CONFIGURED"
    ELSE IF ~context.implemented THEN "PROVIDER_NOT_IMPLEMENTED"
    ELSE IF ~SimulationMatchesSource(context.sourceState, context.simulated)
         THEN "PROVIDER_SIMULATION_MISMATCH"
    ELSE IF mode = "DRY_RUN" /\ ~context.supportsDryRunFetch THEN "DRY_RUN_FETCH_NOT_SUPPORTED"
    ELSE IF ~context.versionFits THEN "CONTRACT_VERSION_MISMATCH"
    ELSE "NONE"

Ask(c) ==
    /\ capture[c].at = "start"
    /\ \E mode \in Modes : \E refusal \in {RefusalOf(context, mode) : context \in Context} :
          Becomes(c, IF refusal # "NONE" THEN RefusedFor(capture[c], refusal)
                     ELSE [capture[c] EXCEPT !.at = "fetch", !.mode = mode])
    /\ UNCHANGED <<captured, advisory>>

(* fetchBatch throws, has no batch, or delivers one that does not fit. *)
NothingUsable(c) ==
    /\ capture[c].at = "fetch"
    /\ \E code \in {"PROVIDER_UNAVAILABLE", "NO_BATCH", "CONTRACT_VERSION_MISMATCH",
                    "BATCH_VALIDATION_FAILED", "DELIVERY_MODE_MISMATCH"} :
          Becomes(c, RefusedFor(capture[c], code))
    /\ UNCHANGED <<captured, advisory>>

(* Mutant of PreparedRun: the mode is not looked at. *)
PreparedRunAlways(r) == [r EXCEPT !.at = "lock"]

(* prepareBatch; a dry run ends with it. *)
PreparedRun(r) ==
    IF r.mode = "PERSIST" THEN [r EXCEPT !.at = "lock"]
    ELSE Ended(r, [NoAnswer EXCEPT !.outcome = "INGESTED", !.status = BatchStatus(r.body)])

Deliver(c) ==
    /\ capture[c].at = "fetch"
    /\ \E i \in Identities, b \in Bodies :
          Becomes(c, PreparedRun([capture[c] EXCEPT !.identity = i, !.body = b]))
    /\ UNCHANGED <<captured, advisory>>
-----------------------------------------------------------------------------
(* persistWithinIdentityLock.                                                *)

Unlock(c) == advisory' = [i \in Identities |-> IF advisory[i] = c THEN NoCapture ELSE advisory[i]]

(* Mutant of LockFree: the lock is not waited for. *)
LockFreeAlways(i) == TRUE

LockFree(i) == advisory[i] = NoCapture

LockIdentity(c) ==
    /\ capture[c].at = "lock"
    /\ LockFree(capture[c].identity)
    /\ advisory' = [advisory EXCEPT ![capture[c].identity] = c]
    /\ Becomes(c, [capture[c] EXCEPT !.at = "locked"])
    /\ UNCHANGED captured

Existing(c) ==
    {n \in 1..Len(captured) : /\ captured[n].identity = capture[c].identity
                              /\ captured[n].body = capture[c].body}

Originals(c) ==
    {n \in 1..Len(captured) : /\ captured[n].identity = capture[c].identity
                              /\ captured[n].status # "CONFLICT"}

ReplayAnswer(c, n) ==
    [outcome |-> "INGESTED", status |-> captured[n].status, replay |-> TRUE, id |-> n]

Replay(c) ==
    /\ capture[c].at = "locked"
    /\ \E n \in Existing(c) : Becomes(c, Ended(capture[c], ReplayAnswer(c, n)))
    /\ Unlock(c)
    /\ UNCHANGED captured

(* The earliest original, of which there is at most one, is asked for. *)
FindOriginal(c) ==
    /\ capture[c].at = "locked"
    /\ Existing(c) = {}
    /\ LET originals == Originals(c)
       IN Becomes(c, [capture[c] EXCEPT
                         !.at = "insert",
                         !.original = IF originals = {} THEN 0
                                      ELSE CHOOSE n \in originals : \A m \in originals : m >= n,
                         !.status = IF originals = {} THEN BatchStatus(capture[c].body)
                                                      ELSE "CONFLICT"])
    /\ UNCHANGED <<captured, advisory>>

(* The batch and its rows are committed together, unless another one with
   the same body was (the unique index); the answer may be lost.             *)
Commit(c) ==
    /\ capture[c].at = "insert"
    /\ Existing(c) = {}
    /\ captured' = Append(captured, [identity |-> capture[c].identity, body |-> capture[c].body,
                                     status |-> capture[c].status,
                                     conflictsWith |-> capture[c].original,
                                     rows |-> Len(capture[c].body.rows)])
    /\ \/ Becomes(c, Ended(capture[c], [outcome |-> "INGESTED", status |-> capture[c].status,
                                        replay |-> FALSE, id |-> Len(captured) + 1]))
       \/ Becomes(c, RefusedFor(capture[c], "RAW_INGESTION_FAILED"))
    /\ Unlock(c)

(* The transaction is rolled back: a serialization failure or a violated
   index (P2034, P2002) is tried again, any other error is not.              *)
Rollback(c) ==
    /\ capture[c].at \in {"lock", "locked", "insert"}
    /\ \/ /\ capture[c].attempt < MaxPersistAttempts
          /\ Becomes(c, [capture[c] EXCEPT !.at = "lock", !.attempt = @ + 1,
                                           !.status = "NONE", !.original = 0])
       \/ Becomes(c, RefusedFor(capture[c], "RAW_INGESTION_FAILED"))
    /\ Unlock(c)
    /\ UNCHANGED captured

CaptureStep(c) ==
    \/ Ask(c) \/ NothingUsable(c) \/ Deliver(c) \/ LockIdentity(c) \/ Replay(c)
    \/ FindOriginal(c) \/ Commit(c) \/ Rollback(c)

RawNext == \E c \in Captures : CaptureStep(c)

RawSpec == RawInit /\ [][RawNext]_rawVars
-----------------------------------------------------------------------------
RawTypeOK ==
    /\ \A n \in 1..Len(captured) : captured[n] \in StoredBatch
    /\ advisory \in [Identities -> Captures \cup {NoCapture}]
    /\ \A c \in Captures :
          /\ capture[c].at \in {"start", "fetch", "lock", "locked", "insert", "ended"}
          /\ capture[c].body \in Bodies \cup {NoBody}
          /\ capture[c].attempt \in 1..MaxPersistAttempts

(* However captures of one identity overlap, are rolled back, retried or     *)
(* lose their answer: one stored batch of it is no conflict, it was stored   *)
(* first, every other one has another body and points at it                  *)
(* (persistWithinIdentityLock, conflictsWithBatchId).                        *)
OneOriginal ==
    \A n, m \in 1..Len(captured) :
        captured[n].identity = captured[m].identity /\ n < m =>
            /\ captured[m].status = "CONFLICT"
            /\ captured[n].status # "CONFLICT" <=> captured[m].conflictsWith = n
            /\ captured[n].body # captured[m].body

(* An answer that a batch was ingested names a stored batch of the same      *)
(* identity and body, with the status it is stored with (replayResult).      *)
AnswersAreStored ==
    \A c \in Captures :
        LET answer == capture[c].answer
        IN answer.outcome = "INGESTED" /\ capture[c].mode = "PERSIST" =>
               /\ answer.id \in 1..Len(captured)
               /\ captured[answer.id].identity = capture[c].identity
               /\ captured[answer.id].body = capture[c].body
               /\ captured[answer.id].status = answer.status
-----------------------------------------------------------------------------
(* The batch a request is to capture, once it was delivered. *)
NothingAsked == [mode |-> "NONE"]
Asked(r) == IF r.body = NoBody THEN NothingAsked
            ELSE [mode |-> r.mode, identity |-> r.identity, body |-> r.body]

Log == INSTANCE CaptureLog
         WITH log <- captured,
              asked <- [c \in Captures |-> Asked(capture[c])],
              answer <- [c \in Captures |-> capture[c].answer],
              Nothing <- NothingAsked,
              StatusOf <- [b \in Bodies |-> BatchStatus(b)],
              RowsOf <- [b \in Bodies |-> Len(b.rows)]

(* Captures are one after the other to whoever asks: under the advisory      *)
(* lock, the unique index, rollbacks, retries and lost answers each is one   *)
(* step, between its question and its answer, of a log that only grows       *)
(* (ingestFantasyRawBatch, persistWithinIdentityLock; the test "Stored raw   *)
(* rows are never updated or deleted by the ingestion service").             *)
ImplementsCaptureLog == Log!Spec
=============================================================================
