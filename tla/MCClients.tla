----------------------------- MODULE MCClients ------------------------------
(* The desktop clients: the devices that pair and recover, the automatic      *)
(* sharing they ask for, the check of fleet access their members ask for, and *)
(* the answers their requests get.  They share no state but what each module  *)
(* leaves to the other, so one run checks them side by side: the initial      *)
(* state says which of them moves.                                            *)
EXTENDS FleetDevices, TLC

CONSTANTS
  k1, k2,                                     \* two encodings of one key
  Chars, Fleets, Consenting, NoChar, NoFleet, \* of automatic sharing
  MaxIds, MaxChanges,
  MaxTokens, MaxMinute, Cooldown, Budget, Waits,       \* of the check of access
  MaxHour, MaxGiven, IntentTTL, ReceiptTTL, Retention    \* of what is answered

ASSUME ClientsAssumption ==
  /\ MaxTokens \in Nat /\ MaxMinute \in Nat /\ Cooldown \in Nat /\ Budget \in Nat
  /\ Waits \subseteq Nat /\ NoFleet \notin Nat \union {"checked", "timed_out"} \union Workers
  /\ IntentTTL \in Nat /\ ReceiptTTL \in Nat /\ Retention \in Nat
  /\ NoChar \notin Nat \union {NoFleet}

VARIABLES
  moving, consent, cand, src, queue, receipt, boss, revoked, member, on, slot, job,
  sent, applied, ids, changes,
  account, link, touched, used, latest, gate, promised, check, minute,  \* FleetAccess
  given, rows, kept, gone, started, hour, halted, unanswered            \* FleetControl

OneKey == (k1 :> k1) @@ (k2 :> k1)

Automatic == INSTANCE FleetAutomatic WITH Devices <- Consenting

Access == INSTANCE FleetAccess WITH
  now <- minute, told <- promised, spent <- used, issued <- latest, Checks <- Workers,
  MaxNow <- MaxMinute, None <- NoFleet

Control == INSTANCE FleetControl WITH
  Devices <- Workers, Sources <- Fleets, MaxNow <- MaxHour, MaxGen <- MaxGiven, Browser <- NoDevice, Discovery <- NoChar,
  None <- NoFleet,
  consent <- given, src <- rows, revoked <- gone, now <- hour

Parts == {"devices", "automatic", "access", "control"}
automatic == <<consent, cand, src, queue, receipt, boss, revoked, member, on, slot, job,
               sent, applied, ids, changes>>
accessVars == <<account, link, touched, used, latest, gate, promised, check, minute>>
controlVars == <<given, rows, kept, gone, started, hour, halted, unanswered>>
allvars == <<vars, moving, automatic, accessVars, controlVars>>

\* What does not move starts in one state.
MCInit ==
  /\ moving \in Parts
  /\ Init /\ Automatic!Init /\ Access!Init /\ Control!Init
  /\ moving # "devices" => \A x \in Accounts : tier[x] = "member"

DevicesMove ==
  /\ moving = "devices" /\ Next
  /\ UNCHANGED <<moving, automatic, accessVars, controlVars>>
AutomaticMoves ==
  /\ moving = "automatic" /\ Automatic!Next
  /\ UNCHANGED <<moving, vars, accessVars, controlVars>>
AccessMoves ==
  /\ moving = "access" /\ Access!Next
  /\ UNCHANGED <<moving, vars, automatic, controlVars>>
ControlMoves ==
  /\ moving = "control" /\ Control!Next
  /\ UNCHANGED <<moving, vars, automatic, accessVars>>
MCNext == DevicesMove \/ AutomaticMoves \/ AccessMoves \/ ControlMoves
MCSpec == MCInit /\ [][MCNext]_allvars

\* What a device may do rests on what it was given: a session on a pairing that
\* stands, automatic sharing on a consent that stands.
AllBacked          == SessionsBacked /\ Automatic!SourcesHaveConsent
\* What is sent twice has its effect once: a recovery challenge yields one
\* session at most, a command of automatic sharing is applied once at most, and
\* the answer that says so stands up to the receipt; what was stopped once is
\* not started by what comes late.
OnceEach           == ChallengeSpentOnce /\ Automatic!CommandsOnce /\ Control!AnswersPass /\ Control!StopIsFinal
\* What was decided against stays so: a key stays with the account it was
\* registered for, a candidate EVE refused is not tried again until the member
\* acts, and no check of fleet access is admitted before the time its callers
\* were told.
DecisionsStay      == KeysStayBound /\ Automatic!RefusalStays /\ Access!ToldHolds
\* What a check of fleet access says of its character and its token is so.
CheckedStayed      == Access!CheckedStayed /\ Access!TimeoutHidesNothing

\* The parts share the model values of these sets.
Symmetry == Permutations(Requests) \union Permutations(Sessions) \union Permutations(Workers)
=============================================================================
