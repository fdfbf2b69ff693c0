---------------------------- MODULE FantasyClient ----------------------------
(***************************************************************************)
(* The client of the Fantasy API (live-api.ts): fetchLots asks for one     *)
(* page of lots after another, get asks for a page with a bearer token and *)
(* retries, getAccessToken finds a token in the memory of the process, in  *)
(* its table, or logs in.  Every fetch of the process shares the two       *)
(* caches; the actions are the stretches between two awaits.               *)
(*                                                                         *)
(* A token is `usable' while it has more than REFRESH_MARGIN_MS to live,   *)
(* and `accepted' while the server honours it; the client sees only the    *)
(* first.  Status codes are what get tells apart: 401, 403, the retryable  *)
(* ones (429, 5xx, no answer) and the rest, good or bad.                   *)
(***************************************************************************)
EXTENDS Naturals

CONSTANTS Fetches,      \* callers of fetchLots
          Tokens,       \* as many logins as the server grants
          NoToken,
          MaxRetries,   \* cfg.maxRetries
          MaxPages      \* the bound of fetchLots

ASSUME NoTokenAssumption == NoToken \notin Tokens
ASSUME MaxRetriesAssumption == MaxRetries \in Nat
ASSUME MaxPagesAssumption == MaxPages \in Nat \ {0}

VARIABLES memory,   \* globalThis.__fantasyToken
          stored,   \* the IntegrationApiToken row
          token,    \* what became of each token
          fetch     \* what each fetchLots is doing

clientVars == <<memory, stored, token, fetch>>

TokenOrNone == Tokens \cup {NoToken}
Token == [issued: BOOLEAN, usable: BOOLEAN, accepted: BOOLEAN]

Waiting == {"token", "load", "login", "save", "request", "clear"}
Over == {"idle", "done", "failed", "refused"}
Fetch == [at: Waiting \cup Over, held: TokenOrNone, mine: TokenOrNone,
          attempt: 0..(MaxRetries + 1), reloggedIn: BOOLEAN, forced: BOOLEAN,
          requests: 0..(MaxRetries + 3), page: 1..MaxPages, alone: BOOLEAN]

NewFetch == [at |-> "idle", held |-> NoToken, mine |-> NoToken, attempt |-> 0,
             reloggedIn |-> FALSE, forced |-> FALSE, requests |-> 0, page |-> 1,
             alone |-> TRUE]

Usable(t) == t # NoToken /\ token[t].usable
Working(f) == fetch[f].at \in Waiting

ClientInit ==
    /\ memory = NoToken
    /\ token = [t \in Tokens |-> [issued |-> FALSE, usable |-> FALSE, accepted |-> FALSE]]
    /\ stored = NoToken
    /\ fetch = [f \in Fetches |-> NewFetch]

(* `alone' remembers whether a fetch shared its time with another. *)
Begin(f) ==
    /\ fetch[f].at = "idle"
    /\ LET company == {g \in Fetches : Working(g)}
       IN fetch' = [g \in Fetches |->
                       IF g = f THEN [NewFetch EXCEPT !.at = "token", !.alone = company = {}]
                       ELSE IF g \in company THEN [fetch[g] EXCEPT !.alone = FALSE]
                       ELSE fetch[g]]
    /\ UNCHANGED <<memory, stored, token>>
-----------------------------------------------------------------------------
(* getAccessToken.                                                           *)

Moves(f, r) == fetch' = [fetch EXCEPT ![f] = r]

(* Nothing of a fetch that is over matters. *)
Left(how) == [NewFetch EXCEPT !.at = how]

FromMemory(f) ==
    /\ fetch[f].at = "token"
    /\ Moves(f, IF Usable(memory) THEN [fetch[f] EXCEPT !.at = "request", !.held = memory]
                                  ELSE [fetch[f] EXCEPT !.at = "load", !.held = stored])
    /\ UNCHANGED <<memory, stored, token>>

(* The row was read a while ago; reading it may have failed (null). *)
FromTable(f) ==
    /\ fetch[f].at = "load"
    /\ \E loaded \in {fetch[f].held, NoToken} :
          IF Usable(loaded)
          THEN /\ memory' = loaded
               /\ Moves(f, [fetch[f] EXCEPT !.at = "request", !.held = loaded])
          ELSE /\ UNCHANGED memory
               /\ Moves(f, [fetch[f] EXCEPT !.at = "login", !.held = NoToken])
    /\ UNCHANGED <<stored, token>>

Granted(f, t) ==
    /\ ~token[t].issued
    /\ \E long \in BOOLEAN :
          token' = [token EXCEPT ![t] = [issued |-> TRUE, usable |-> long, accepted |-> TRUE]]
    /\ Moves(f, [fetch[f] EXCEPT !.at = "save", !.held = t, !.mine = t])

(* Mutant of Login: the token is saved and not remembered. *)
LoginUnremembered(f) ==
    /\ fetch[f].at = "login"
    /\ \E t \in Tokens : Granted(f, t)
    /\ UNCHANGED <<memory, stored>>

Login(f) ==
    /\ fetch[f].at = "login"
    /\ \E t \in Tokens : Granted(f, t) /\ memory' = t
    /\ UNCHANGED stored

(* Thrown by getAccessToken, outside the try of get: never retried. *)
LoginFails(f) ==
    /\ fetch[f].at = "login"
    /\ Moves(f, Left("failed"))
    /\ UNCHANGED <<memory, stored, token>>

(* The token of a forced login is dropped: the loop asks for one again. *)
Save(f) ==
    /\ fetch[f].at = "save"
    /\ stored' \in {stored, fetch[f].held}
    /\ Moves(f, IF fetch[f].forced
                THEN [fetch[f] EXCEPT !.at = "token", !.held = NoToken, !.forced = FALSE,
                                      !.attempt = @ + 1]
                ELSE [fetch[f] EXCEPT !.at = "request"])
    /\ UNCHANGED <<memory, token>>
-----------------------------------------------------------------------------
(* get: what follows the answer of the server.                               *)

(* Answered requests of a page are counted up to one more than there can be. *)
Sent(f) == [fetch[f] EXCEPT !.requests = IF @ > MaxRetries + 2 THEN @ ELSE @ + 1]

Retried(f) == [Sent(f) EXCEPT !.at = "token", !.held = NoToken, !.attempt = @ + 1]

(* Mutant of MayRetry: one attempt too many. *)
MayRetryAgain(f) == fetch[f].attempt <= MaxRetries

MayRetry(f) == fetch[f].attempt < MaxRetries

(* No answer, 429 or 5xx. *)
Busy(f) ==
    /\ fetch[f].at = "request"
    /\ Moves(f, IF MayRetry(f)
                THEN Retried(f)
                ELSE Left("failed"))
    /\ UNCHANGED <<memory, stored, token>>

(* 401: once, both caches are cleared and a login is forced. *)
Unauthorized(f) ==
    /\ fetch[f].at = "request"
    /\ ~token[fetch[f].held].accepted
    /\ IF fetch[f].reloggedIn
       THEN /\ Moves(f, [Left("refused") EXCEPT !.held = fetch[f].held, !.mine = fetch[f].mine,
                                                !.alone = fetch[f].alone])
            /\ UNCHANGED memory
       ELSE /\ Moves(f, [Sent(f) EXCEPT !.at = "clear", !.reloggedIn = TRUE])
            /\ memory' = NoToken
    /\ UNCHANGED <<stored, token>>

(* Deleting the row is a best effort. *)
Clear(f) ==
    /\ fetch[f].at = "clear"
    /\ stored' \in {stored, NoToken}
    /\ Moves(f, [fetch[f] EXCEPT !.at = "login", !.held = NoToken, !.forced = TRUE])
    /\ UNCHANGED <<memory, token>>

(* 403, any other status, a body that is no list of rows. *)
Unanswered(f) ==
    /\ fetch[f].at = "request"
    /\ Moves(f, Left("failed"))
    /\ UNCHANGED <<memory, stored, token>>

(* A page of lots: a full one, with pages configured, is followed by another
   up to MAX_PAGES.                                                          *)
Page(f) ==
    /\ fetch[f].at = "request"
    /\ token[fetch[f].held].accepted
    /\ \E more \in BOOLEAN :
          Moves(f, IF more /\ fetch[f].page < MaxPages
                   THEN [NewFetch EXCEPT !.at = "token", !.page = fetch[f].page + 1,
                                         !.alone = fetch[f].alone]
                   ELSE Left("done"))
    /\ UNCHANGED <<memory, stored, token>>
-----------------------------------------------------------------------------
(* The server forgets a token, or it nears its end. *)
Revoke(t) ==
    /\ token[t].accepted
    /\ token' = [token EXCEPT ![t].accepted = FALSE]
    /\ UNCHANGED <<memory, stored, fetch>>

NearsItsEnd(t) ==
    /\ token[t].usable
    /\ token' = [token EXCEPT ![t].usable = FALSE]
    /\ UNCHANGED <<memory, stored, fetch>>

(* The process restarts: the row outlives it. *)
RestartClient ==
    /\ \E f \in Fetches : Working(f)
    /\ memory' = NoToken
    /\ fetch' = [f \in Fetches |-> IF Working(f) THEN Left("failed") ELSE fetch[f]]
    /\ UNCHANGED <<stored, token>>

FetchStep(f) ==
    \/ FromMemory(f) \/ FromTable(f) \/ Login(f) \/ LoginFails(f) \/ Save(f)
    \/ Busy(f) \/ Unauthorized(f) \/ Clear(f) \/ Unanswered(f) \/ Page(f)

ClientNext ==
    \/ \E f \in Fetches : Begin(f) \/ FetchStep(f)
    \/ \E t \in Tokens : Revoke(t) \/ NearsItsEnd(t)
    \/ RestartClient

ClientSpec == ClientInit /\ [][ClientNext]_clientVars
-----------------------------------------------------------------------------
ClientTypeOK ==
    /\ memory \in TokenOrNone
    /\ stored \in TokenOrNone
    /\ token \in [Tokens -> Token]
    /\ fetch \in [Fetches -> Fetch]

(* get sends a page's request at most maxRetries + 2 times: the retries, and *)
(* one more for the forced login, whichever order the answers come in.       *)
RequestsBounded ==
    \A f \in Fetches : fetch[f].at = "request" => fetch[f].requests < MaxRetries + 2

(* A second 401 is no accident of the caches: a fetch that had the process   *)
(* to itself, and whose forced login gave a token that is still usable, is   *)
(* refused with that very token, not with an older one that memory or the    *)
(* table still held (get, getAccessToken, memSet, store.clear, store.save).  *)
SecondRefusalIsReal ==
    \A f \in Fetches :
        fetch[f].at = "refused" /\ fetch[f].alone /\ Usable(fetch[f].mine) =>
            fetch[f].held = fetch[f].mine
=============================================================================
