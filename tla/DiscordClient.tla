---------------------------- MODULE DiscordClient ----------------------------
(* The pacing of the Discord client (lib/discord/rest.ts): requests of one     *)
(* route run one after the other, a route waits out the window its last answer *)
(* closed, and every route waits out a global one.  All of it is the memory of *)
(* one process.  Looking at the windows and sending is one step, for nothing   *)
(* but promise callbacks runs between the two.                                 *)
EXTENDS Naturals, Sequences, FiniteSetsExt

CONSTANTS
  Calls, Routes,     \* requests; their keys (routeKey)
  Max429Retries,     \* MAX_429_RETRIES
  Delays,            \* retry-after and reset-after, in seconds
  MaxNow             \* bound

VARIABLES
  now,
  buckets,           \* per route: requests left, and when the window ends
  globalResetAt,
  chains,            \* per route: the calls that share its mutex, in order
  call,              \* per request: where it is, its route, attempt and alarm
  told               \* history: the end of the last global window heard of
vars == <<now, buckets, globalResetAt, chains, call, told>>

Init ==
  /\ now = 0 /\ globalResetAt = 0 /\ told = 0
  /\ buckets = [k \in Routes |-> [open |-> TRUE, resetAt |-> 0]]
  /\ chains = [k \in Routes |-> << >>]
  /\ call \in [Calls -> [at : {"none"}, route : Routes, attempt : {0}, until : {0}]]

Tick == /\ now < MaxNow /\ now' = now + 1
        /\ UNCHANGED <<buckets, globalResetAt, chains, call, told>>

Later(a, b) == Max({a, b})
Route(r)  == call[r].route
First(r)  == chains[Route(r)] # << >> /\ Head(chains[Route(r)]) = r
Rung(r)   == call[r].at \in {"asleep", "backing off"} => now >= call[r].until
Move(r, at, until) == call' = [call EXCEPT ![r].at = at, ![r].until = until]

\* rawRequest, up to its turn in the chain of its route.
Enqueue(r) ==
  /\ call[r].at = "none"
  /\ chains' = [chains EXCEPT ![Route(r)] = Append(@, r)]
  /\ Move(r, "queued", 0)
  /\ UNCHANGED <<now, buckets, globalResetAt, told>>

Deadline(r) ==
  LET b == buckets[Route(r)] IN
  IF now < globalResetAt THEN globalResetAt ELSE IF ~b.open THEN b.resetAt ELSE now
\* Variant, not the code: who has slept out one window looks for no other.
LookOnce(r) == IF call[r].at = "asleep" THEN now ELSE Deadline(r)
WaitUntil(r) == Deadline(r)

\* One turn of waitForCapacity: asleep until a window ends, or sent.
WaitForCapacity(r) ==
  /\ call[r].at \in {"queued", "asleep", "backing off"} /\ First(r) /\ Rung(r)
  /\ IF WaitUntil(r) > now THEN Move(r, "asleep", WaitUntil(r)) ELSE Move(r, "sent", 0)
  /\ UNCHANGED <<now, buckets, globalResetAt, chains, told>>

\* The next in the chain has its turn however this request ended.
End(r) ==
  /\ Move(r, "ended", 0)
  /\ chains' = [chains EXCEPT ![Route(r)] = Tail(@)]

RecordBucketHeaders(r, open, delay) ==
  buckets' = [buckets EXCEPT ![Route(r)] = [open |-> open, resetAt |-> now + delay]]

\* Any answer but 429, with or without the bucket's headers.
Answer(r) ==
  /\ call[r].at = "sent"
  /\ \/ \E open \in BOOLEAN, d \in Delays : RecordBucketHeaders(r, open, d)
     \/ UNCHANGED buckets
  /\ End(r)
  /\ UNCHANGED <<now, globalResetAt, told>>
\* The transport fails or 30 seconds pass: nothing was learned.
NoAnswer(r) ==
  /\ call[r].at = "sent" /\ End(r)
  /\ UNCHANGED <<now, buckets, globalResetAt, told>>

\* parseRetryAfterSeconds: never at once.
RetryAfterSeconds(header) == IF header > 0 THEN header ELSE 1

\* 429: the route's window is the one the retry waits for; a global one is
\* noted on the last attempt too.
RateLimited(r, global, header) ==
  LET d == RetryAfterSeconds(header) IN
  /\ call[r].at = "sent"
  /\ RecordBucketHeaders(r, FALSE, d)
  /\ globalResetAt' = IF global THEN Later(globalResetAt, now + d) ELSE globalResetAt
  /\ told' = IF global THEN Later(told, now + d) ELSE told
  /\ IF call[r].attempt < Max429Retries
     THEN /\ call' = [call EXCEPT ![r].at = "backing off", ![r].until = now + d,
                                  ![r].attempt = @ + 1]
          /\ UNCHANGED chains
     ELSE End(r)
  /\ UNCHANGED now

Next ==
  \/ Tick
  \/ \E r \in Calls :
       \/ Enqueue(r) \/ WaitForCapacity(r) \/ Answer(r) \/ NoAnswer(r)
       \/ \E global \in BOOLEAN, d \in Delays : RateLimited(r, global, d)
Spec == Init /\ [][Next]_vars

-----------------------------------------------------------------------------
\* However the answers of the routes cross, no request is sent into a window
\* the process knows to be closed: not one that was opened while it slept out
\* another, and none beside a request of its route that is still unanswered.
NeverIntoAWindow ==
  [][\A r \in Calls : call[r].at # "sent" /\ call'[r].at = "sent" =>
       /\ now >= told
       /\ buckets[Route(r)].open \/ now >= buckets[Route(r)].resetAt
       /\ \A s \in Calls \ {r} : call[s].at = "sent" => Route(s) # Route(r)]_vars
===============================================================================
