------------------------------ MODULE LocationJob ------------------------------
(* The job that keeps where characters are (jobs/location.ts) and the names of *)
(* structures (services/universe-names.ts).  It asks EVE under no lock: two    *)
(* runs may overlap, one may die, a member may authorise a character anew or   *)
(* withdraw it in between.  The pages that show what it stored are AccountPage.*)
(*                                                                             *)
(* Stored tokens are told apart only by who still has the stored one in hand.  *)
EXTENDS AccountPage

CONSTANTS
  Characters, Runs,
  Docks,         \* the structures one may be docked at
  NameTTL,       \* STRUCTURE_TTL_MS
  MaxNow, MaxGrants,   \* bounds
  NoRun

VARIABLES
  now,
  char,      \* character rows: token and location
  fetched,   \* when the name of a structure was stored in universe_name
  run,       \* the runs of the job
  inHand,    \* the characters whose stored token a run has read, or stored itself
  refused,   \* history: characters EVE refused the scope of, by their present grant
  completed, \* history: when a character's read last went through
  grants
vars == <<now, char, fetched, run, inHand, refused, completed, grants>>
others == <<now, grants>>

NoDock == None

Init ==
  /\ now = 0 /\ grants = 0
  /\ char = [c \in Characters |-> [status |-> "valid", scoped |-> TRUE, dock |-> NoDock,
                                   at |-> None]]
  /\ fetched = [d \in Docks |-> None]
  /\ run = [r \in Runs |-> NoRun] /\ inHand = [r \in Runs |-> {}]
  /\ refused = {}
  /\ completed = [c \in Characters |-> None]

On(r, stage) == run[r] # NoRun /\ run[r].stage = stage
Of(r) == run[r].character
Goes(r, stage) == run' = [run EXCEPT ![r].stage = stage]
\* A run is done with a character, and with the token it had of it.
Drops(r, c) == inHand' = [inHand EXCEPT ![r] = @ \ {c}]
Leaves(r) ==
  /\ run' = [run EXCEPT ![r] = [@ EXCEPT !.stage = "between", !.character = None, !.dock = NoDock]]
  /\ Drops(r, Of(r))
Skips(r, c) ==
  /\ On(r, "between") /\ c \in run[r].todo
  /\ run' = [run EXCEPT ![r].todo = @ \ {c}]
  /\ Drops(r, c)

-----------------------------------------------------------------------------
(* The run.                                                                   *)

\* getLocatableCharacters; the rows are used as they were read here.
CanReadLocation(c) == char[c].status \notin {"invalid", "missing"}
Begin(r) ==
  /\ run[r] = NoRun
  /\ run' = [run EXCEPT ![r] = [stage |-> "between", character |-> None, dock |-> NoDock,
                                todo |-> {c \in Characters : CanReadLocation(c)}]]
  /\ inHand' = [inHand EXCEPT ![r] = {c \in Characters : CanReadLocation(c)}]
  /\ UNCHANGED <<others, char, fetched, refused, completed>>

\* The run is over, or its worker has died.
End(r) ==
  /\ run[r] # NoRun
  /\ run' = [run EXCEPT ![r] = NoRun]
  /\ inHand' = [inHand EXCEPT ![r] = {}]
  /\ UNCHANGED <<others, char, fetched, refused, completed>>

\* The scope is missing, the refresh fails for now, or another has exchanged the token.
NoToken(r, c) ==
  /\ Skips(r, c)
  /\ UNCHANGED <<others, char, fetched, refused, completed>>

\* EVE refuses the refresh for good, and the stored token is still the one read.
TokenDead(r, c) ==
  /\ Skips(r, c) /\ c \in inHand[r]
  /\ char' = [char EXCEPT ![c].status = "invalid"]
  /\ UNCHANGED <<others, fetched, refused, completed>>

\* The token is exchanged, and the stored one replaced, if it is the one read.
GetFreshAccessToken(r, c) ==
  /\ On(r, "between") /\ c \in run[r].todo /\ c \in inHand[r]
  /\ run' = [run EXCEPT ![r] = [stage |-> "asking", character |-> c, dock |-> NoDock,
                                todo |-> run[r].todo \ {c}]]
  /\ inHand' = [q \in Runs |-> IF q = r THEN inHand[q] ELSE inHand[q] \ {c}]
  /\ UNCHANGED <<others, char, fetched, refused, completed>>

IsCacheFresh(d) == fetched[d] # None /\ now - fetched[d] < NameTTL
\* resolveUniverseName: a fresh name is not asked for, a name that cannot be had
\* leaves the old one.
ResolveUniverseName(d, answered) ==
  fetched' = IF answered /\ ~IsCacheFresh(d) THEN [fetched EXCEPT ![d] = now] ELSE fetched
\* getLocation, getOnline, which costs nothing when it fails, and the names.
Located(r, dock, answered) ==
  /\ On(r, "asking")
  /\ run' = [run EXCEPT ![r].stage = "storing", ![r].dock = dock]
  /\ IF dock = NoDock THEN UNCHANGED fetched ELSE ResolveUniverseName(dock, answered)
  /\ UNCHANGED <<others, char, inHand, refused, completed>>

\* All the columns at once, on no condition.
Store(r) ==
  /\ On(r, "storing") /\ Leaves(r)
  /\ char' = [char EXCEPT ![Of(r)].dock = run[r].dock, ![Of(r)].at = now]
  /\ completed' = [completed EXCEPT ![Of(r)] = now]
  /\ UNCHANGED <<others, fetched, refused>>

\* Variant, not the code: a character that was tried counts as checked.
TriedCounts(r) ==
  /\ On(r, "asking") /\ Leaves(r)
  /\ char' = [char EXCEPT ![Of(r)].at = now]
  /\ UNCHANGED <<others, fetched, refused, completed>>
\* A read that fails leaves every column as it was, the time of the last one too.
ReadFails(r) ==
  /\ On(r, "asking") /\ Leaves(r)
  /\ UNCHANGED <<others, char, fetched, refused, completed>>

\* EVE refuses the scope; the verdict is not written yet.
Refused(r) ==
  /\ On(r, "asking") /\ Goes(r, "denied")
  /\ refused' = IF Of(r) \in inHand[r] THEN refused \union {Of(r)} ELSE refused
  /\ UNCHANGED <<others, char, fetched, inHand, completed>>

\* Variant, not the code: the token is not compared with the one that was refused.
CondemnAnyToken(r) ==
  /\ On(r, "denied") /\ Leaves(r)
  /\ char' = [char EXCEPT ![Of(r)].status = "needs_reauth"]
  /\ UNCHANGED <<others, fetched, refused, completed>>
\* The verdict falls on the token that was refused or on none.  (The log row of a
\* new verdict, a statement of its own, is left out.)
DecideReauth(r) ==
  /\ On(r, "denied") /\ Leaves(r)
  /\ char' = IF Of(r) \in inHand[r] THEN [char EXCEPT ![Of(r)].status = "needs_reauth"] ELSE char
  /\ UNCHANGED <<others, fetched, refused, completed>>

-----------------------------------------------------------------------------
(* Members, and time.                                                         *)

\* A member authorises a character, with every scope or not.
Regrant(c, scoped) ==
  /\ grants < MaxGrants /\ grants' = grants + 1
  /\ char' = [char EXCEPT ![c].status = IF scoped THEN "valid" ELSE "needs_reauth",
                          ![c].scoped = scoped]
  /\ inHand' = [r \in Runs |-> inHand[r] \ {c}]
  /\ refused' = refused \ {c}
  /\ UNCHANGED <<now, fetched, run, completed>>

Tick ==
  /\ now < MaxNow
  /\ now' = now + 1
  /\ UNCHANGED <<char, fetched, run, inHand, refused, completed, grants>>

Next ==
  \/ \E r \in Runs :
       \/ Begin(r) \/ End(r) \/ Store(r) \/ ReadFails(r) \/ Refused(r) \/ DecideReauth(r)
       \/ \E c \in Characters : NoToken(r, c) \/ TokenDead(r, c) \/ GetFreshAccessToken(r, c)
       \/ \E dock \in Docks \union {NoDock}, answered \in BOOLEAN : Located(r, dock, answered)
  \/ \E c \in Characters, scoped \in BOOLEAN : Regrant(c, scoped)
  \/ Tick
Spec == Init /\ [][Next]_vars

-----------------------------------------------------------------------------
(* Properties                                                                 *)

\* No character of a page is less fresh than its "as of" says, whichever reads
\* have failed: each was read, to the end, at that time or later; and whoever
\* lags behind the newest reading by more than a period is marked.
AsOfIsHonest ==
  \A shown \in SUBSET Characters :
    LET p == [rows |-> [c \in shown |-> char[c]]] IN
    \A c \in shown : char[c].at # None =>
      /\ completed[c] # None /\ AsOf(p) <= completed[c]
      /\ completed[c] + Cadence < Max(Times(p)) => Stale(p, c)

\* A character that has to be authorised anew is one whose present grant EVE has
\* refused, or lacks a scope; a run that is overtaken condemns nothing.
VerdictStands == \A c \in Characters :
  char[c].status = "needs_reauth" /\ char[c].scoped => c \in refused
=============================================================================
