--------------------------- MODULE EvidenceReader ---------------------------
(* The reader of recruitment evidence (lib/esi/recruitment.ts): category by    *)
(* category it reads the endpoints EVE has for one character, by pages or by a *)
(* cursor, within one deadline and one allowance of requests and bytes, and    *)
(* out of the windows EVE closed.  Histories grow while they are read.  The    *)
(* records are their ids, a byte is a record, and the provenance, the notes    *)
(* and the date of the earliest record are left out.                           *)
EXTENDS Naturals, Sequences, FiniteSets, FiniteSetsExt, SequencesExt

CONSTANTS
  Plan,        \* the endpoints in their order: [category, route, mode, scope, details]
  Groups,      \* rate groups, and where the documentation puts a route (None: nowhere)
  DocumentedGroup,
  Auctions,    \* ids of contracts that are auctions
  PageSize, NewestAtFirst, MaxId,      \* EVE's pages; bound on the ids of a history
  MaxRequests, MaxResponse, MaxTotal,  \* LIMITS
  Deadline, MaxWait, MaxNow,
  Scopes, None

Histories == {Plan[i].route : i \in {i \in DOMAIN Plan : Plan[i].mode # "single"}}
Routes    == {Plan[i].route : i \in DOMAIN Plan} \union {"items", "bids"}
Categories == {Plan[i].category : i \in DOMAIN Plan}

VARIABLES
  book,      \* EVE's histories, the newest first
  now,
  token,     \* the scopes of the token (None: no token that could be verified)
  requests, bytes,                       \* of the snapshot
  esiRetryAt, bucketRetryAt, observed,   \* closed windows; groups EVE reported
  todo,      \* endpoints to read, the present one first
  reading,   \* how far the present one is
  parts,     \* results of the present category
  datasets
eve    == <<book, now>>
quotas == <<requests, bytes, esiRetryAt, bucketRetryAt, observed>>
vars   == <<eve, token, quotas, todo, reading, parts, datasets>>

\* there: what the history held when the first request was answered (None before).
Fresh == [stage |-> "ask", page |-> 1, pages |-> 1, cursor |-> None, rows |-> << >>,
          succeeded |-> FALSE, there |-> None]

Init ==
  /\ book = [r \in Histories |-> [i \in 1..NewestAtFirst |-> NewestAtFirst + 1 - i]]
  /\ now = 0
  /\ token \in {None} \union SUBSET Scopes
  /\ requests = 0 /\ bytes = 0
  /\ esiRetryAt = 0 /\ bucketRetryAt = [b \in BOOLEAN \X Groups |-> 0] /\ observed = [k \in Routes \union Groups |-> None]
  /\ todo = Plan /\ reading = Fresh /\ parts = << >> /\ datasets = {}

\* A history grows at its head, and time passes.
Appear(r) ==
  /\ Len(book[r]) < MaxId
  /\ book' = [book EXCEPT ![r] = <<Len(@) + 1>> \o @]
  /\ UNCHANGED <<now, token, quotas, todo, reading, parts, datasets>>
Tick == now < MaxNow /\ now' = now + 1 /\ UNCHANGED <<book, token, quotas, todo, reading, parts, datasets>>

-----------------------------------------------------------------------------
(* Statuses: of an endpoint, and of a category from those of its endpoints. *)

DoneParts(ps) == {i \in DOMAIN ps : ps[i].status \in {"complete", "empty"}}
CategoryStatus(ps) ==
  IF DoneParts(ps) = DOMAIN ps
  THEN IF \E i \in DOMAIN ps : ps[i].rows # << >> THEN "complete" ELSE "empty"
  ELSE IF \E i \in DOMAIN ps : ps[i].status \in {"complete", "empty", "partial"} THEN "partial"
  ELSE IF \A i \in DOMAIN ps : ps[i].status = "unauthorised" THEN "unauthorised" ELSE "failed"

Endpoint == todo[1]
\* A list of contracts calls for the items of each, and for the bids of auctions.
DetailsOf(e, rows) ==
  IF ~e.details THEN << >>
  ELSE FlattenSeq([i \in DOMAIN rows |->
         LET One(route) == [e EXCEPT !.route = route, !.mode = "single", !.details = FALSE]
         IN IF rows[i] \in Auctions THEN <<One("items"), One("bids")>> ELSE <<One("items")>>])

\* The endpoint is through; with the last one of a category its dataset is written.
Settle(status, rows, there) ==
  LET rest == DetailsOf(Endpoint, rows) \o Tail(todo)
      ps   == Append(parts, [status |-> status, rows |-> rows, there |-> there])
      last == rest = << >> \/ rest[1].category # Endpoint.category
  IN /\ todo' = rest /\ reading' = Fresh
     /\ parts' = IF last THEN << >> ELSE ps
     /\ datasets' = IF last THEN datasets \union {[category |-> Endpoint.category,
                                                    status |-> CategoryStatus(ps), parts |-> ps]}
                            ELSE datasets
\* What was read before a failure is kept.
Fail(refused) ==
  Settle(IF reading.succeeded THEN "partial" ELSE IF refused THEN "unauthorised" ELSE "failed",
         reading.rows, reading.there)

Granted(e) == IF e.scope = None THEN TRUE ELSE IF token = None THEN FALSE ELSE e.scope \in token
Unavailable ==
  /\ todo # << >> /\ reading = Fresh
  /\ ~Granted(Endpoint)
  /\ \E status \in (IF token = None THEN {"failed", "unauthorised"} ELSE {"unauthorised"}) :
       Settle(status, << >>, None)
  /\ UNCHANGED <<eve, token, quotas>>

-----------------------------------------------------------------------------
(* boundedFetch *)

Late == now >= Deadline
\* Routes of one documented group are known by it.
KeyOf(r)   == IF DocumentedGroup[r] # None THEN DocumentedGroup[r] ELSE r
GroupOf(r) == IF observed[KeyOf(r)] # None THEN observed[KeyOf(r)] ELSE DocumentedGroup[r]
\* A group's window is the character's, or the address's where no token is sent.
Bucket(e, g) == <<e.scope # None, g>>
Closed(e) ==
  \/ now < esiRetryAt
  \/ GroupOf(e.route) # None /\ now < bucketRetryAt[Bucket(e, GroupOf(e.route))]
Refused == Late \/ requests >= MaxRequests \/ bytes >= MaxTotal \/ Closed(Endpoint)

Ask ==
  /\ todo # << >> /\ reading.stage = "ask"
  /\ Granted(Endpoint)
  /\ IF Refused
     THEN Fail(FALSE) /\ UNCHANGED quotas
     ELSE /\ requests' = requests + 1 /\ reading' = [reading EXCEPT !.stage = "wait"]
          /\ UNCHANGED <<bytes, esiRetryAt, bucketRetryAt, observed, todo, parts, datasets>>
  /\ UNCHANGED <<eve, token>>
\* No answer, or one that came too late to be looked at.
NoAnswer ==
  /\ todo # << >> /\ reading.stage = "wait" /\ Fail(FALSE)
  /\ UNCHANGED <<eve, token, quotas>>

\* The headers of an answer: the group EVE names (None: none), how long it asks to
\* wait, in the group's window or (legacy) in all of them.
Heard(group, wait, legacy, status) ==
  LET r  == Endpoint.route
      g  == IF group # None THEN group ELSE GroupOf(r)
      at == now + (IF status = 429 THEN MaxWait ELSE wait)
      old == Max({esiRetryAt, IF legacy THEN now + wait ELSE 0})
  IN /\ observed' = [observed EXCEPT ![KeyOf(r)] = IF group # None THEN group ELSE @]
     /\ IF g # None /\ status # 420
        THEN bucketRetryAt' = [bucketRetryAt EXCEPT ![Bucket(Endpoint, g)] = Max({@, at})] /\ esiRetryAt' = old
        ELSE esiRetryAt' = Max({old, IF status = 420 THEN now + MaxWait ELSE at})
             /\ UNCHANGED bucketRetryAt

-----------------------------------------------------------------------------
(* endpoint: what an answer of status 200 holds, and what is made of it. *)

PagesOf(r) == Max({1, (Len(book[r]) + PageSize - 1) \div PageSize})
\* Where in a history the next page starts: behind the pages before it, or at the
\* newest record that is older than the cursor.
From ==
  LET all == book[Endpoint.route] IN
  IF Endpoint.mode = "pages" THEN (reading.page - 1) * PageSize + 1
  ELSE Min({i \in 1..Len(all) + 1 :
              i > Len(all) \/ reading.cursor = None \/ all[i] < reading.cursor})
Batch ==
  IF Endpoint.mode = "single" THEN <<1>>
  ELSE SubSeq(book[Endpoint.route], From, Min({From + PageSize - 1, Len(book[Endpoint.route])}))

Seen(batch)    == \E i \in DOMAIN batch : batch[i] \in Range(reading.rows)
\* pages: X-Pages of the answer (None: absent or no number).  A page that no longer
\* fits the ones before is not taken; a first page that cannot be counted on is.
Shifted(batch, pages) ==
  Endpoint.mode = "pages" /\ reading.page > 1 /\ (pages # reading.pages \/ batch = << >>)
Unpaged(batch, pages) ==
  Endpoint.mode = "pages" /\ IF pages = None THEN TRUE ELSE pages > 1 /\ batch = << >>
\* Variant, not the code: the page just read is counted twice.
LastPageMissed(batch, pages) ==
  CASE Endpoint.mode = "pages"  -> reading.page + 1 < pages
    [] Endpoint.mode = "cursor" -> batch # << >>
    [] OTHER -> FALSE
GoesOn(batch, pages) ==
  CASE Endpoint.mode = "pages"  -> reading.page < pages
    [] Endpoint.mode = "cursor" -> batch # << >>
    [] OTHER -> FALSE

There == IF reading.there = None /\ Endpoint.route \in Histories THEN Range(book[Endpoint.route])
         ELSE reading.there
TakeBatch(pages) ==
  LET batch == Batch rows == reading.rows \o batch IN
  IF Seen(batch) \/ Shifted(batch, pages) THEN Fail(FALSE)
  ELSE IF Unpaged(batch, pages) THEN Settle("partial", rows, There)
  ELSE IF GoesOn(batch, pages)
  THEN /\ reading' = [reading EXCEPT !.stage = "ask", !.rows = rows, !.succeeded = TRUE, !.there = There,
                        !.page = IF Endpoint.mode = "pages" THEN @ + 1 ELSE @,
                        !.pages = IF Endpoint.mode = "pages" THEN pages ELSE @,
                        !.cursor = IF Endpoint.mode = "cursor" THEN Min(Range(batch)) ELSE @]
       /\ UNCHANGED <<todo, parts, datasets>>
  ELSE Settle(IF rows = << >> THEN "empty" ELSE "complete", rows, There)

Answer(group, wait, legacy, status, pages) ==
  /\ todo # << >> /\ reading.stage = "wait" /\ ~Late
  /\ Heard(group, wait, legacy, status)
  /\ IF status # 200
     THEN Fail(status = 403) /\ bytes' = bytes
     ELSE /\ bytes' = bytes + Len(Batch)
          /\ IF bytes' > MaxTotal \/ Len(Batch) > MaxResponse
             THEN Fail(FALSE)
             ELSE Fail(FALSE) \/ TakeBatch(pages)    \* cut off or malformed, or as it should be
  /\ UNCHANGED <<eve, token, requests>>

Next ==
  \/ Tick
  \/ \E r \in Histories : Appear(r)
  \/ Unavailable \/ Ask \/ NoAnswer
  \/ \E group \in Groups \union {None}, wait \in {0, MaxWait}, legacy \in BOOLEAN,
        status \in {200, 403, 420, 429} :
       \E pages \in (IF todo # << >> /\ Endpoint.mode = "pages" THEN {PagesOf(Endpoint.route), None} ELSE {None}) :
         Answer(group, wait, legacy, status, pages)
Spec == Init /\ [][Next]_vars

-----------------------------------------------------------------------------
\* A category said to be complete is: of each of its endpoints nothing that was
\* there at the first answer is missing and nothing is there twice, although the
\* histories shift under the pages; what was cut short says so.
CompleteIsWhole ==
  \A d \in datasets : d.status \in {"complete", "empty"} =>
    \A i \in DOMAIN d.parts :
      /\ IsInjective(d.parts[i].rows)
      /\ d.parts[i].there # None => d.parts[i].there \subseteq Range(d.parts[i].rows)
=============================================================================
