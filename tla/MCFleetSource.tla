--------------------------- MODULE MCFleetSource ---------------------------
(* What is read of EVE over a while: the fleets of fleet sources, whose       *)
(* transactions are single steps, and the evidence about a recruit, its       *)
(* collection and the histories it is read from.  They share no state, so the *)
(* initial state says which of them moves.                                    *)
EXTENDS FleetSource, Sequences, TLC

CONSTANTS
  None,
  Recruits, Accounts, Target, Actor, Owners, MaxLinks,                        \* Recruitment
  Plan, Groups, DocumentedGroup, Auctions, Scopes, PageSize, NewestAtFirst,   \* EvidenceReader
  MaxId, MaxRequests, MaxResponse, MaxTotal, Deadline, MaxWait, MaxTime

VARIABLES
  moving,
  linked, isAdmin, session, known, phase, captured, unread, audit, linkEpoch,  \* Recruitment
  disturbed,
  book, hand, grant, requests, bytes, esiRetryAt, bucketRetryAt, observed,     \* EvidenceReader
  todo, reading, parts, datasets

evidenceVars == <<linked, isAdmin, session, known, phase, captured, unread, audit, linkEpoch,
                  disturbed>>
readerVars == <<book, hand, grant, requests, bytes, esiRetryAt, bucketRetryAt, observed, todo,
                reading, parts, datasets>>
allvars == <<moving, vars, evidenceVars, readerVars>>

Export == INSTANCE Recruitment WITH
  Characters <- Recruits, MaxEpoch <- MaxLinks, row <- linked, epoch <- linkEpoch
Reader == INSTANCE EvidenceReader WITH token <- grant, now <- hand, MaxNow <- MaxTime

\* A history read by a cursor, of a route in no documented group, and one read by
\* pages, with the details of each of its records.
Endpoint(category, route, mode, details) ==
  [category |-> category, route |-> route, mode |-> mode, scope |-> "wallet", details |-> details]
TwoHistories == <<Endpoint("wallet", "transactions", "cursor", FALSE),
                  Endpoint("contracts", "contracts", "pages", TRUE)>>
GroupOfContracts == [r \in {"transactions", "contracts", "items", "bids"} |->
                       IF r = "transactions" THEN None ELSE "char"]

\* An account is an id.
ASSUME TargetAssumption == Target # None
\* What is read at once is no history, and so are the details of a record; EVE's
\* pages hold something, and no list of ids or number marks absence.
Endpoints == [category : Reader!Categories, route : Reader!Routes,
              mode : {"single", "pages", "cursor"}, scope : Scopes \union {None}, details : BOOLEAN]
OfItsMode(e) == e.mode = "single" <=> e.route \notin Reader!Histories
ASSUME PlanAssumption ==
  /\ Plan \in Seq(Endpoints) /\ \A i \in DOMAIN Plan : OfItsMode(Plan[i])
  /\ {"items", "bids"} \intersect Reader!Histories = {}
ASSUME PagesAssumption ==
  /\ PageSize \in Nat \ {0} /\ MaxId \in Nat /\ NewestAtFirst \in 0..MaxId
  /\ None \notin Nat /\ \A n \in 0..MaxId : None # 1..n

\* What does not move starts in one state.
MCInit ==
  /\ moving \in {"sources", "evidence", "reader"}
  /\ Init
  /\ Export!Init
  /\ moving # "evidence" => \A c \in Recruits : linked[c] = Export!NoLink
  /\ Reader!Init
  /\ moving # "reader" => grant = None

SourcesMove   == moving = "sources" /\ Next /\ UNCHANGED <<moving, evidenceVars, readerVars>>
EvidenceMoves == moving = "evidence" /\ Export!Next /\ UNCHANGED <<moving, vars, readerVars>>
ReaderMoves   == moving = "reader" /\ Reader!Next /\ UNCHANGED <<moving, vars, evidenceVars>>
MCSpec == MCInit /\ [][SourcesMove \/ EvidenceMoves \/ ReaderMoves]_allvars

\* What is released of a capture is what was captured, with nothing rewritten; and
\* evidence that is said to be complete is.
EvidenceHolds == /\ Export!ReleasedUnchanged
                 /\ [][moving = "reader" => Reader!CompleteIsWhole']_readerVars

\* Nothing in the specifications tells two runs, characters, sources, fleets or
\* owner hashes apart.
FullSymmetry == Permutations(Runs) \union Permutations(Chars) \union Permutations(Sources)
                  \union Permutations(Fleets) \union Permutations(Owners)
=============================================================================
