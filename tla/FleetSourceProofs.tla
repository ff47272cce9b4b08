------------------------- MODULE FleetSourceProofs --------------------------
(* Proofs about what is read of EVE: the evidence about a recruit (Recruitment *)
(* and EvidenceReader, as MCFleetSource composes them), for any links, plan of *)
(* endpoints, histories and limits; then FleetSource, for any characters,      *)
(* fleets, sources, runs and limits, where Book is about sources, slots and    *)
(* rows and Tickets about the runs of the job and what they remember of both.  *)
EXTENDS MCFleetSource, FiniteSetTheorems, SequenceTheorems, WellFoundedInduction, TLAPS

-----------------------------------------------------------------------------
(* What is released of a capture.                                             *)

\* A row that was captured is of the target, a link given out since has a later
\* epoch, and once one of the captured has left, its row is gone or is newer.
CapturedRows ==
  \A l \in captured : l.row.account = Target /\ l.row.epoch \in 0..linkEpoch /\ l.id \in Recruits
Newer(l) == linked[l.id] = Export!NoLink \/ linked[l.id].epoch > l.row.epoch
Rows == [account : Accounts \union {None}, owner : Owners \union {None}, epoch : Nat]
ExportInv ==
  /\ linked \in [Recruits -> Rows] /\ linkEpoch \in Nat /\ disturbed \in BOOLEAN
  /\ \A c \in Recruits : linked[c].epoch <= linkEpoch
  /\ phase = "collecting" => CapturedRows
  /\ phase = "idle" => ~disturbed
  /\ phase = "collecting" /\ disturbed => \E l \in captured : Newer(l)

\* At first there is no capture.
LEMMA ExportStarts == ASSUME Export!Init PROVE ExportInv
<1>1. linked \in [Recruits -> {Export!NoLink} \union [account : Accounts, owner : Owners, epoch : {0}]]
  BY DEF Export!Init
<1>2. ASSUME NEW r \in {Export!NoLink} \union [account : Accounts, owner : Owners, epoch : {0}]
      PROVE  r \in Rows /\ r.epoch = 0
  BY <1>2 DEF Export!NoLink, Rows
<1>3. linked \in [Recruits -> Rows] /\ \A c \in Recruits : linked[c].epoch = 0
  <2> HIDE DEF Rows
  <2> QED BY <1>1, <1>2
<1>4. linkEpoch = 0 /\ phase = "idle" /\ disturbed = FALSE
  BY DEF Export!Init
<1>5. \A c \in Recruits : linked[c].epoch <= linkEpoch
  BY <1>3, <1>4
<1>6. ~(phase = "collecting") /\ ~disturbed /\ disturbed \in BOOLEAN /\ linkEpoch \in Nat
  BY <1>4
<1> HIDE DEF CapturedRows, Newer, Rows
<1> QED BY <1>3, <1>5, <1>6 DEF ExportInv

\* A row that changes is gone or newer than any that was captured, and one that was
\* newer stays so.
LEMMA RowChanges ==
  ASSUME ExportInv, NEW c \in Recruits, NEW r \in Rows, linked' = [linked EXCEPT ![c] = r],
         linkEpoch' \in Nat, linkEpoch <= linkEpoch', r.epoch <= linkEpoch',
         r = Export!NoLink \/ linkEpoch < r.epoch,
         Export!Disturb(c), phase' = phase, captured' = captured
  PROVE  ExportInv'
<1>1. /\ linked \in [Recruits -> Rows] /\ linkEpoch \in Nat /\ disturbed \in BOOLEAN
      /\ \A d \in Recruits : linked[d].epoch <= linkEpoch /\ linked[d].epoch \in Nat
  BY DEF ExportInv, Rows
<1>2. linked' \in [Recruits -> Rows] /\ disturbed' \in BOOLEAN
  BY <1>1 DEF Export!Disturb
<1>3. \A d \in Recruits : linked'[d].epoch <= linkEpoch'
  <2>1. ASSUME NEW d \in Recruits PROVE linked'[d].epoch <= linkEpoch'
    <3>1. CASE d = c
      BY <1>1, <3>1
    <3>2. CASE d # c
      <4>1. linked'[d] = linked[d]
        BY <1>1, <3>2
      <4> QED BY <1>1, <4>1
    <3> QED BY <3>1, <3>2
  <2> QED BY <2>1
<1>4. phase' = "idle" => ~disturbed'
  BY DEF ExportInv, Export!Disturb
<1>5. ASSUME phase' = "collecting" PROVE CapturedRows'
  <2>1. CapturedRows
    BY <1>5 DEF ExportInv
  <2> QED BY <1>1, <2>1 DEF CapturedRows
<1>6. ASSUME phase = "collecting", NEW l \in captured, l.id = c \/ Newer(l) PROVE Newer(l)'
  <2>1. l.id \in Recruits /\ l.row.epoch \in 0..linkEpoch
    BY <1>6 DEF ExportInv, CapturedRows
  <2>2. CASE l.id = c
    <3>1. linked'[l.id] = r
      BY <1>1, <2>2
    <3>2. CASE r = Export!NoLink
      <4>1. Export!NoLink' = Export!NoLink
        BY DEF Export!NoLink
      <4> QED BY <3>1, <3>2, <4>1 DEF Newer
    <3>3. CASE linkEpoch < r.epoch
      <4>1. r.epoch \in Nat
        BY DEF Rows
      <4> QED BY <1>1, <2>1, <3>1, <3>3, <4>1 DEF Newer
    <3> QED BY <3>2, <3>3
  <2>3. CASE l.id # c
    <3>1. linked'[l.id] = linked[l.id]
      BY <1>1, <2>1, <2>3
    <3> QED BY <1>6, <2>3, <3>1 DEF Newer, Export!NoLink
  <2> QED BY <2>2, <2>3
<1>7. ASSUME phase' = "collecting", disturbed' PROVE \E l \in captured' : Newer(l)'
  <2>1. PICK l \in captured : l.id = c \/ Newer(l)
    BY <1>7 DEF ExportInv, Export!Disturb
  <2> QED BY <1>6, <1>7, <2>1
<1> HIDE DEF Newer, Rows, CapturedRows
<1> QED BY <1>2, <1>3, <1>4, <1>5, <1>7 DEF ExportInv

\* Whoever enters gets a fresh epoch, so nobody comes back as he was.
LEMMA EnterKeeps ==
  ASSUME ExportInv, NEW c \in Recruits, NEW a \in Accounts, NEW o \in Owners, Export!Enter(c, a, o)
  PROVE  ExportInv'
<1> DEFINE r == [account |-> a, owner |-> o, epoch |-> linkEpoch + 1]
<1>1. linkEpoch \in Nat
  BY DEF ExportInv
<1>2. r \in Rows /\ r.epoch = linkEpoch + 1
  BY <1>1 DEF Rows
<1>3. /\ linked' = [linked EXCEPT ![c] = r] /\ linkEpoch' = linkEpoch + 1
      /\ Export!Disturb(c) /\ phase' = phase /\ captured' = captured
  BY DEF Export!Enter, Export!run
<1> HIDE DEF r
<1>4. linkEpoch' \in Nat /\ linkEpoch <= linkEpoch' /\ r.epoch <= linkEpoch' /\ linkEpoch < r.epoch
  BY <1>1, <1>2, <1>3
<1> QED BY <1>2, <1>3, <1>4, RowChanges

LEMMA UnlinkKeeps ==
  ASSUME ExportInv, NEW c \in Recruits, Export!Unlink(c)
  PROVE  ExportInv'
<1>1. linkEpoch \in Nat
  BY DEF ExportInv
<1>2. Export!NoLink \in Rows /\ Export!NoLink.epoch = 0
  BY DEF Rows, Export!NoLink
<1>3. /\ linked' = [linked EXCEPT ![c] = Export!NoLink] /\ linkEpoch' = linkEpoch
      /\ Export!Disturb(c) /\ phase' = phase /\ captured' = captured
  BY DEF Export!Unlink, Export!run
<1>4. linkEpoch' \in Nat /\ linkEpoch <= linkEpoch' /\ Export!NoLink.epoch <= linkEpoch'
  BY <1>1, <1>2, <1>3
<1> QED BY <1>2, <1>3, <1>4, RowChanges

\* A capture takes rows as they are.
LEMMA CaptureKeeps == ASSUME ExportInv, Export!Capture PROVE ExportInv'
<1>1. /\ phase = "idle" /\ captured' = Export!LinkedCharacters
      /\ phase' \in {"failed", "collecting"}
      /\ UNCHANGED <<linked, linkEpoch, disturbed>>
  BY DEF Export!Capture, Export!people
<1>2. ~disturbed
  BY <1>1 DEF ExportInv
<1>3. CapturedRows'
  <2>1. ASSUME NEW l \in captured'
        PROVE  l.row.account = Target /\ l.row.epoch \in 0..linkEpoch' /\ l.id \in Recruits
    <3>1. PICK c \in Recruits : l = [id |-> c, row |-> linked[c]] /\ linked[c].account = Target
      BY <1>1 DEF Export!LinkedCharacters
    <3>2. linked[c].epoch \in Nat /\ linked[c].epoch <= linkEpoch /\ linkEpoch \in Nat
      BY DEF ExportInv, Rows
    <3> QED BY <1>1, <3>1, <3>2
  <2> QED BY <2>1 DEF CapturedRows
<1> QED BY <1>1, <1>2, <1>3 DEF ExportInv

\* What leaves rows and capture alone, and begins nothing, changes nothing.
LEMMA EndsKeep ==
  ASSUME ExportInv, UNCHANGED <<linked, linkEpoch, disturbed, captured>>,
         phase' = phase \/ (phase' \in {"collecting", "failed", "released"} /\ phase = "collecting")
  PROVE  ExportInv'
<1>1. phase' = "collecting" => phase = "collecting"
  OBVIOUS
<1>2. phase' = "idle" => phase = "idle"
  OBVIOUS
<1>3. CapturedRows => CapturedRows'
  BY DEF CapturedRows
<1>4. \A l \in captured : Newer(l) => Newer(l)'
  BY DEF Newer, Export!NoLink
<1> HIDE DEF CapturedRows, Newer, Rows
<1>5. phase' = "collecting" /\ disturbed' => \E l \in captured' : Newer(l)'
  BY <1>1, <1>4 DEF ExportInv
<1>6. Rows' = Rows
  BY DEF Rows
<1> QED BY <1>1, <1>2, <1>3, <1>5, <1>6 DEF ExportInv

\* Every step keeps what was captured apart from what came since.
LEMMA ExportKept == ASSUME ExportInv, [Export!Next]_evidenceVars PROVE ExportInv'
<1>1. CASE UNCHANGED evidenceVars
  <2>1. UNCHANGED <<linked, linkEpoch, disturbed, phase, captured>>
    BY <1>1 DEF evidenceVars
  <2> QED BY <2>1, EndsKeep
<1>2. CASE \E c \in Recruits : Export!Unlink(c)
  BY <1>2, UnlinkKeeps
<1>3. CASE \E c \in Recruits : \E a \in Accounts, o \in Owners : Export!Enter(c, a, o)
  BY <1>3, EnterKeeps
<1>4. CASE Export!MergeAway \/ Export!SignOut \/ Export!Demote
  <2>1. UNCHANGED <<linked, linkEpoch, disturbed, phase, captured>>
    BY <1>4 DEF Export!MergeAway, Export!SignOut, Export!Demote, Export!run
  <2> QED BY <2>1, EndsKeep
<1>5. CASE Export!Capture
  BY <1>5, CaptureKeeps
<1>6. CASE Export!Collect \/ Export!Break \/ Export!Release
  <2>1. phase = "collecting" /\ UNCHANGED <<linked, linkEpoch, disturbed, captured>>
    BY <1>6 DEF Export!Collect, Export!Break, Export!Release, Export!Fail, Export!people
  <2>2. phase' \in {"collecting", "failed", "released"}
    BY <1>6, <2>1 DEF Export!Collect, Export!Break, Export!Release, Export!Fail
  <2> QED BY <2>1, <2>2, EndsKeep
<1> QED BY <1>1, <1>2, <1>3, <1>4, <1>5, <1>6 DEF Export!Next

\* Nobody of a capture whose rows are as they were has left in between.
LEMMA ReleasesUnchanged ==
  ASSUME ExportInv, [Export!Next]_evidenceVars, phase' = "released", phase # "released"
  PROVE  ~disturbed
<1>1. ASSUME UNCHANGED phase PROVE FALSE
  BY <1>1
<1>2. Export!Release
  <2>1. Export!Next
    BY <1>1 DEF evidenceVars
  <2>2. ~(\E c \in Recruits : Export!Unlink(c) \/ \E a \in Accounts, o \in Owners : Export!Enter(c, a, o))
    BY <1>1 DEF Export!Unlink, Export!Enter, Export!run
  <2>3. ~(Export!MergeAway \/ Export!SignOut \/ Export!Demote)
    BY <1>1 DEF Export!MergeAway, Export!SignOut, Export!Demote, Export!run
  <2>4. ~(Export!Capture \/ Export!Collect \/ Export!Break)
    BY <1>1 DEF Export!Capture, Export!Collect, Export!Break, Export!Fail
  <2> QED BY <2>1, <2>2, <2>3, <2>4 DEF Export!Next
<1>3. phase = "collecting" /\ captured = Export!LinkedCharacters
  BY <1>2 DEF Export!Release, Export!Fail, Export!SameLinks
<1>4. ASSUME NEW l \in captured PROVE ~Newer(l)
  <2>1. linked[l.id] = l.row /\ l.row.account = Target /\ l.id \in Recruits
    BY <1>3, <1>4 DEF Export!LinkedCharacters
  <2>2. l.row.epoch \in Nat
    BY <2>1 DEF ExportInv, Rows
  <2> QED BY <2>1, <2>2, TargetAssumption DEF Newer, Export!NoLink
<1> QED BY <1>3, <1>4 DEF ExportInv

-----------------------------------------------------------------------------
(* What is complete is whole.                                                 *)

\* A history is its ids downwards.
Down(n) == [i \in 1..n |-> n + 1 - i]
Books == book \in [Reader!Histories -> {Down(n) : n \in 0..MaxId}]
ToRead == {e \in Endpoints : OfItsMode(e)}
Theres == {None} \union {1..n : n \in 0..MaxId}
Readings == [stage : {"ask", "wait"}, page : Nat \ {0}, pages : Nat, cursor : Nat \union {None},
             rows : Seq(Nat), succeeded : BOOLEAN, there : Theres]
Statuses == {"complete", "empty", "partial", "unauthorised", "failed"}
Parts == [status : Statuses, rows : Seq(Nat), there : Theres]
IsWhole(rows, there) ==
  Reader!IsInjective(rows) /\ (there # None => there \subseteq Reader!Range(rows))
WholeIfDone(p) == p.status \in {"complete", "empty"} => IsWhole(p.rows, p.there)

\* The pages of n records.
PagesFor(n) == Reader!Max({1, (n + PageSize - 1) \div PageSize})
\* What has been read of an endpoint: nothing; or so many pages of the history as it
\* was at first, which has as many pages still; or all of it down to the cursor.
Begun(R) == R.rows = << >> /\ R.there = None
Paged(e, R) == \E n \in 0..Len(book[e.route]) :
  /\ R.there = 1..n /\ R.pages = PagesFor(n) /\ R.page \in 2..R.pages
  /\ Reader!Range(R.rows) = {x \in 1..n : x > n - (R.page - 1) * PageSize}
Cursored(e, R) == \E n \in 0..Len(book[e.route]) :
  R.there = 1..n /\ R.cursor \in 1..n /\ Reader!Range(R.rows) = R.cursor..n
SoFar(e, R) ==
  /\ Reader!IsInjective(R.rows)
  /\ e.mode = "single" => Begun(R)
  /\ e.mode = "pages"  => (Begun(R) /\ R.page = 1) \/ Paged(e, R)
  /\ e.mode = "cursor" => (Begun(R) /\ R.cursor = None) \/ Cursored(e, R)
ReaderInv ==
  /\ Books /\ todo \in Seq(ToRead) /\ reading \in Readings
  /\ todo # << >> => SoFar(todo[1], reading)
  /\ parts \in Seq(Parts) /\ \A i \in DOMAIN parts : WholeIfDone(parts[i])
  /\ Reader!CompleteIsWhole

\* A set of numbers that is not empty has a least one.
LEMMA LeastNat ==
  ASSUME NEW S \in SUBSET Nat, S # {}
  PROVE  \E m \in S : \A x \in S : m <= x
<1>1. IsWellFoundedOn(OpToRel(<,Nat), Nat)
  BY NatLessThanWellFounded
<1>2. PICK m \in S : \A x \in S : ~(<<x, m>> \in OpToRel(<,Nat))
  BY <1>1, WFMin
<1>3. ASSUME NEW x \in S, ~(m <= x) PROVE FALSE
  <2>1. <<x, m>> \in OpToRel(<,Nat)
    BY <1>3 DEF OpToRel
  <2> QED BY <1>2, <2>1
<1> QED BY <1>3

\* What is assumed of pages and of the marker of absence.
LEMMA Numbers ==
  /\ PageSize \in Nat \ {0} /\ MaxId \in Nat /\ None \notin Nat
  /\ \A n \in 0..MaxId : None # 1..n
BY PagesAssumption

\* The least and the largest.
LEMMA LeastIs ==
  ASSUME NEW S \in SUBSET Int, NEW b \in S, \A x \in S : b <= x
  PROVE  Reader!Min(S) = b
<1> DEFINE m == CHOOSE x \in S : \A y \in S : x <= y
<1>1. m \in S /\ \A y \in S : m <= y
  OBVIOUS
<1>2. Reader!Min(S) = m
  BY DEF Reader!Min
<1> HIDE DEF m
<1> QED BY <1>1, <1>2

LEMMA LargestIs ==
  ASSUME NEW S \in SUBSET Int, NEW b \in S, \A x \in S : x <= b
  PROVE  Reader!Max(S) = b
<1> DEFINE m == CHOOSE x \in S : \A y \in S : x >= y
<1>1. m \in S /\ \A y \in S : m >= y
  OBVIOUS
<1>2. Reader!Max(S) = m
  BY DEF Reader!Max
<1> HIDE DEF m
<1> QED BY <1>1, <1>2

\* At first nothing has been read.
LEMMA FreshIsSoFar ==
  ASSUME NEW e \in ToRead
  PROVE  Reader!Fresh \in Readings /\ SoFar(e, Reader!Fresh)
<1> DEFINE R == Reader!Fresh
<1>1. /\ R.rows = << >> /\ R.there = None /\ R.page = 1 /\ R.cursor = None /\ R \in Readings
  BY Numbers DEF Reader!Fresh, Readings, Theres
<1>2. Reader!IsInjective(R.rows)
  BY <1>1 DEF Reader!IsInjective
<1> QED BY <1>1, <1>2 DEF SoFar, Begun, Reader!Fresh

LEMMA ReaderStarts == ASSUME Reader!Init PROVE ReaderInv
<1>1. /\ book = [r \in Reader!Histories |-> Down(NewestAtFirst)] /\ todo = Plan
      /\ reading = Reader!Fresh /\ parts = << >> /\ datasets = {}
  BY DEF Reader!Init, Down
<1>2. Books
  BY <1>1, PagesAssumption DEF Books
<1>3. todo \in Seq(ToRead)
  <2>1. Plan \in Seq(Endpoints) /\ \A i \in 1..Len(Plan) : Plan[i] \in ToRead
    BY PlanAssumption DEF ToRead
  <2> QED BY <1>1, <2>1
<1>4. todo # << >> => todo[1] \in ToRead
  BY <1>3
<1>5. reading \in Readings
  BY <1>1, Numbers DEF Reader!Fresh, Readings, Theres
<1> QED BY <1>1, <1>2, <1>3, <1>4, <1>5, FreshIsSoFar DEF ReaderInv, Reader!CompleteIsWhole

\* f joins the first m of ss, as FlattenSeq does.
Joined(ss, f, m) == f = [i \in 1..m |-> IF i = 1 THEN ss[i] ELSE f[i - 1] \o ss[i]]
JoinedIn(S, ss, m) == \E f \in [1..m -> Seq(S)] : Joined(ss, f, m)

\* One more sequence is joined to those before.
LEMMA JoinOne ==
  ASSUME NEW S, NEW ss, NEW b \in Nat, b > 1, ss[b] \in Seq(S), JoinedIn(S, ss, b - 1)
  PROVE  JoinedIn(S, ss, b)
<1>1. b - 1 \in Nat /\ b - 1 \in 1..b - 1
  OBVIOUS
<1>2. PICK g \in [1..b - 1 -> Seq(S)] : Joined(ss, g, b - 1)
  BY DEF JoinedIn
<1> DEFINE next == g[b - 1] \o ss[b]
           f == [i \in 1..b |-> IF i = b THEN next ELSE g[i]]
<1>3. next \in Seq(S) /\ next = g[b - 1] \o ss[b]
  BY <1>1, <1>2
<1> HIDE DEF next
<1>4. f \in [1..b -> Seq(S)] /\ f[b] = next /\ \A i \in 1..b - 1 : f[i] = g[i]
  <2>1. ASSUME NEW i \in 1..b, i # b PROVE i \in 1..b - 1
    BY <2>1
  <2>2. \A i \in 1..b : (IF i = b THEN next ELSE g[i]) \in Seq(S)
    BY <1>2, <1>3, <2>1
  <2>3. b \in 1..b /\ \A i \in 1..b - 1 : i \in 1..b /\ i # b
    OBVIOUS
  <2> QED BY <2>2, <2>3
<1>5. f = [i \in 1..b |-> f[i]]
  OBVIOUS
<1> HIDE DEF f
<1>6. \A i \in 1..b - 1 : g[i] = IF i = 1 THEN ss[i] ELSE g[i - 1] \o ss[i]
  BY <1>2 DEF Joined
<1>7. ASSUME NEW i \in 1..b PROVE f[i] = IF i = 1 THEN ss[i] ELSE f[i - 1] \o ss[i]
  <2>1. CASE i = b
    <3>1. f[b - 1] = g[b - 1] /\ b # 1
      BY <1>1, <1>4
    <3>2. f[b] = f[b - 1] \o ss[b]
      BY <1>3, <1>4, <3>1
    <3> QED BY <2>1, <3>1, <3>2
  <2>2. CASE i # b
    <3>1. i \in 1..b - 1 /\ (i # 1 => i - 1 \in 1..b - 1)
      BY <2>2
    <3> QED BY <1>4, <1>6, <3>1
  <2> QED BY <2>1, <2>2
<1>8. Joined(ss, f, b)
  BY <1>5, <1>7 DEF Joined
<1> QED BY <1>4, <1>8 DEF JoinedIn

\* FlattenSeq joins sequences of S to a sequence of S: else there would be a least
\* place where it does not.
LEMMA FlattenIn ==
  ASSUME NEW S, NEW ss \in Seq(Seq(S))
  PROVE  Reader!FlattenSeq(ss) \in Seq(S)
<1> DEFINE n == Len(ss)
<1>1. n \in Nat /\ \A i \in 1..n : ss[i] \in Seq(S)
  OBVIOUS
<1>2. n = 0 => Reader!FlattenSeq(ss) = ss /\ ss = << >>
  BY DEF Reader!FlattenSeq
<1>3. n # 0 => Reader!FlattenSeq(ss) = (CHOOSE f : Joined(ss, f, n))[n]
  BY DEF Reader!FlattenSeq, Joined
<1> HIDE DEF n
<1>4. CASE n = 0
  BY <1>2, <1>4
<1>5. CASE n # 0
  <2>1. n \in 1..n
    BY <1>1, <1>5
  <2>2. JoinedIn(S, ss, n)
    <3> DEFINE bad == {m \in 1..n : ~JoinedIn(S, ss, m)}
    <3>1. SUFFICES ASSUME bad # {} PROVE FALSE
      BY <2>1
    <3>2. bad \in SUBSET Nat
      BY <1>1
    <3>3. PICK b \in bad : \A x \in bad : b <= x
      <4> HIDE DEF bad
      <4> QED BY <3>1, <3>2, LeastNat
    <3>4. b \in 1..n /\ ~JoinedIn(S, ss, b)
      OBVIOUS
    <3>5. CASE b = 1
      <4> DEFINE f == [i \in 1..1 |-> ss[1]]
      <4>1. f \in [1..1 -> Seq(S)] /\ f = [i \in 1..1 |-> IF i = 1 THEN ss[i] ELSE f[i - 1] \o ss[i]]
        BY <1>1, <3>4, <3>5
      <4> HIDE DEF f
      <4>2. Joined(ss, f, 1)
        BY <4>1 DEF Joined
      <4> QED BY <3>4, <3>5, <4>1, <4>2 DEF JoinedIn
    <3>6. CASE b > 1
      <4>1. b - 1 \in 1..n /\ ~(b <= b - 1) /\ b \in Nat
        BY <1>1, <3>4, <3>6
      <4>2. JoinedIn(S, ss, b - 1)
        BY <3>3, <4>1
      <4>3. ss[b] \in Seq(S)
        BY <1>1, <3>4
      <4> QED BY <3>4, <3>6, <4>1, <4>2, <4>3, JoinOne
    <3> QED BY <1>1, <3>4, <3>5, <3>6
  <2> DEFINE h == CHOOSE f : Joined(ss, f, n)
  <2>3. Joined(ss, h, n)
    BY <2>2 DEF JoinedIn
  <2>4. Reader!FlattenSeq(ss) = h[n]
    BY <1>3, <1>5
  <2> HIDE DEF h
  <2>5. \A i \in 1..n : h[i] = IF i = 1 THEN ss[i] ELSE h[i - 1] \o ss[i]
    BY <2>3 DEF Joined
  <2>6. h[n] \in Seq(S)
    <3> DEFINE bad == {m \in 1..n : h[m] \notin Seq(S)}
    <3>1. SUFFICES ASSUME bad # {} PROVE FALSE
      BY <2>1
    <3>2. bad \in SUBSET Nat
      BY <1>1
    <3>3. PICK b \in bad : \A x \in bad : b <= x
      <4> HIDE DEF bad
      <4> QED BY <3>1, <3>2, LeastNat
    <3>4. b \in 1..n /\ h[b] \notin Seq(S)
      OBVIOUS
    <3>5. b # 1 => b - 1 \in 1..n /\ ~(b <= b - 1)
      BY <1>1, <3>4
    <3>6. b # 1 => h[b - 1] \in Seq(S)
      BY <3>3, <3>5
    <3>7. h[b] \in Seq(S)
      <4>1. ss[b] \in Seq(S) /\ h[b] = IF b = 1 THEN ss[b] ELSE h[b - 1] \o ss[b]
        BY <1>1, <2>5, <3>4
      <4>2. b # 1 => h[b - 1] \o ss[b] \in Seq(S)
        BY <3>6, <4>1
      <4> QED BY <4>1, <4>2
    <3> QED BY <3>4, <3>7
  <2> QED BY <2>4, <2>6
<1> QED BY <1>4, <1>5

\* The details of a record are read at once.
LEMMA DetailsIn ==
  ASSUME NEW e \in ToRead, NEW rows \in Seq(Nat)
  PROVE  Reader!DetailsOf(e, rows) \in Seq(ToRead)
<1> DEFINE One(route) == [e EXCEPT !.route = route, !.mode = "single", !.details = FALSE]
           ss == [i \in DOMAIN rows |->
                   IF rows[i] \in Auctions THEN <<One("items"), One("bids")>> ELSE <<One("items")>>]
<1>1. ASSUME NEW route \in {"items", "bids"} PROVE One(route) \in ToRead
  <2>1. e \in Endpoints /\ route \in Reader!Routes /\ route \notin Reader!Histories
    BY PlanAssumption DEF ToRead, Reader!Routes
  <2>2. /\ One(route).mode = "single" /\ One(route).route = route
        /\ One(route) \in Endpoints
    BY <2>1 DEF Endpoints
  <2> QED BY <2>1, <2>2 DEF ToRead, OfItsMode
<1>2. <<One("items"), One("bids")>> \in Seq(ToRead) /\ <<One("items")>> \in Seq(ToRead)
  <2> HIDE DEF One
  <2> QED BY <1>1
<1>3. ss \in Seq(Seq(ToRead))
  <2> HIDE DEF One
  <2>1. DOMAIN rows = 1..Len(rows) /\ Len(rows) \in Nat
    OBVIOUS
  <2> QED BY <1>2, <2>1
<1>4. Reader!FlattenSeq(ss) \in Seq(ToRead)
  <2> HIDE DEF ss
  <2> QED BY <1>3, FlattenIn
<1>5. << >> \in Seq(ToRead)
  OBVIOUS
<1>6. Reader!DetailsOf(e, rows) = IF ~e.details THEN << >> ELSE Reader!FlattenSeq(ss)
  BY DEF Reader!DetailsOf
<1> HIDE DEF ss
<1> QED BY <1>4, <1>5, <1>6

\* An endpoint is left with what was read of it, whole if it says so.
LEMMA SettleKeeps ==
  ASSUME ReaderInv, todo # << >>, book' = book,
         NEW status \in Statuses, NEW rows \in Seq(Nat), NEW there \in Theres,
         status \in {"complete", "empty"} => IsWhole(rows, there), Reader!Settle(status, rows, there)
  PROVE  ReaderInv'
<1> DEFINE e == Reader!Endpoint
           p == [status |-> status, rows |-> rows, there |-> there]
           ps == Append(parts, p)
           rest == Reader!DetailsOf(e, rows) \o Tail(todo)
<1>1. todo \in Seq(ToRead) /\ e \in ToRead /\ Books /\ parts \in Seq(Parts)
      /\ (\A i \in DOMAIN parts : WholeIfDone(parts[i])) /\ Reader!CompleteIsWhole
  BY DEF ReaderInv, Reader!Endpoint
<1>2. /\ todo' = rest /\ reading' = Reader!Fresh /\ parts' \in {<< >>, ps}
      /\ datasets' \in {datasets, datasets \union
           {[category |-> e.category, status |-> Reader!CategoryStatus(ps), parts |-> ps]}}
  BY DEF Reader!Settle
<1>3. rest \in Seq(ToRead)
  <2>1. Reader!DetailsOf(e, rows) \in Seq(ToRead)
    <3> HIDE DEF e
    <3> QED BY <1>1, DetailsIn
  <2>2. Tail(todo) \in Seq(ToRead)
    BY <1>1
  <2> HIDE DEF e
  <2> QED BY <2>1, <2>2
<1>4. p \in Parts /\ WholeIfDone(p)
  BY DEF Parts, WholeIfDone
<1> HIDE DEF e, p, rest
<1>5. ps \in Seq(Parts) /\ \A i \in DOMAIN ps : WholeIfDone(ps[i])
  <2>1. /\ ps \in Seq(Parts) /\ Len(ps) = Len(parts) + 1 /\ Len(parts) \in Nat /\ DOMAIN ps = 1..Len(ps)
        /\ DOMAIN parts = 1..Len(parts)
        /\ \A i \in 1..Len(ps) : ps[i] = IF i = Len(parts) + 1 THEN p ELSE parts[i]
    BY <1>1, <1>4
  <2> HIDE DEF ps
  <2> QED BY <1>1, <1>4, <2>1
<1> HIDE DEF ps
<1>6. Reader!CategoryStatus(ps) \in {"complete", "empty"} =>
        \A i \in DOMAIN ps : IsWhole(ps[i].rows, ps[i].there)
  <2>1. ASSUME Reader!CategoryStatus(ps) \in {"complete", "empty"} PROVE Reader!DoneParts(ps) = DOMAIN ps
    BY <2>1 DEF Reader!CategoryStatus
  <2> QED BY <1>5, <2>1 DEF Reader!DoneParts, WholeIfDone
<1>7. Reader!CompleteIsWhole'
  BY <1>1, <1>2, <1>6 DEF Reader!CompleteIsWhole, IsWhole
<1>8. parts' \in Seq(Parts) /\ \A i \in DOMAIN parts' : WholeIfDone(parts'[i])
  <2>1. CASE parts' = << >>
    BY <2>1
  <2>2. CASE parts' = ps
    BY <1>5, <2>2
  <2> QED BY <1>2, <2>1, <2>2
<1>9. todo' \in Seq(ToRead) /\ Books'
  BY <1>1, <1>2, <1>3 DEF Books
<1>10. reading' \in Readings /\ (todo' # << >> => SoFar(todo[1], reading)')
  <2>1. reading' \in Readings
    BY <1>2, Numbers DEF Reader!Fresh, Readings, Theres
  <2>2. ASSUME todo' # << >> PROVE SoFar(todo[1], reading)'
    <3>1. todo'[1] \in ToRead
      BY <1>9, <2>2
    <3>2. /\ reading'.rows = << >> /\ reading'.there = None /\ reading'.page = 1 /\ reading'.cursor = None
      BY <1>2 DEF Reader!Fresh
    <3>3. Reader!IsInjective(reading'.rows)
      BY <3>2 DEF Reader!IsInjective
    <3> QED BY <3>2, <3>3 DEF SoFar, Begun
  <2> QED BY <2>1, <2>2
<1> QED BY <1>7, <1>8, <1>9, <1>10 DEF ReaderInv, WholeIfDone, IsWhole

\* A failure is never complete.
LEMMA FailKeeps ==
  ASSUME ReaderInv, todo # << >>, book' = book, NEW refused \in BOOLEAN, Reader!Fail(refused)
  PROVE  ReaderInv'
<1> DEFINE status == IF reading.succeeded THEN "partial" ELSE IF refused THEN "unauthorised" ELSE "failed"
<1>1. reading.rows \in Seq(Nat) /\ reading.there \in Theres
  BY DEF ReaderInv, Readings
<1>2. status \in Statuses /\ status \notin {"complete", "empty"}
  BY DEF Statuses
<1>3. Reader!Settle(status, reading.rows, reading.there)
  BY DEF Reader!Fail
<1> HIDE DEF status
<1> QED BY <1>1, <1>2, <1>3, SettleKeeps

\* The lesser and the greater of two numbers.
LEMMA LesserIs ==
  ASSUME NEW a \in Int, NEW b \in Int
  PROVE  Reader!Min({a, b}) = IF a <= b THEN a ELSE b
<1> DEFINE S == {a, b}
           m == IF a <= b THEN a ELSE b
<1>1. S \in SUBSET Int /\ m \in S /\ \A x \in S : m <= x
  OBVIOUS
<1> HIDE DEF S, m
<1>2. Reader!Min(S) = m
  BY <1>1, LeastIs
<1> QED BY <1>2 DEF S, m

LEMMA GreaterIs ==
  ASSUME NEW a \in Int, NEW b \in Int
  PROVE  Reader!Max({a, b}) = IF a <= b THEN b ELSE a
<1> DEFINE S == {a, b}
           m == IF a <= b THEN b ELSE a
<1>1. S \in SUBSET Int /\ m \in S /\ \A x \in S : x <= m
  OBVIOUS
<1> HIDE DEF S, m
<1>2. Reader!Max(S) = m
  BY <1>1, LargestIs
<1> QED BY <1>2 DEF S, m

\* Where a history stands.
LEMMA HistoryIs ==
  ASSUME ReaderInv, NEW r \in Reader!Histories
  PROVE  /\ Len(book[r]) \in 0..MaxId /\ book[r] = Down(Len(book[r])) /\ book[r] \in Seq(Nat)
         /\ \A i \in 1..Len(book[r]) : book[r][i] = Len(book[r]) + 1 - i
         /\ Reader!Range(book[r]) = 1..Len(book[r])
<1>1. PICK n \in 0..MaxId : book[r] = Down(n)
  BY DEF ReaderInv, Books
<1>2. n \in Nat
  BY Numbers
<1>3. /\ Len(book[r]) = n /\ DOMAIN book[r] = 1..n /\ book[r] \in Seq(Nat)
      /\ \A i \in 1..n : book[r][i] = n + 1 - i
  BY <1>1, <1>2 DEF Down
<1>4. Reader!Range(book[r]) = 1..n
  <2>1. ASSUME NEW x \in 1..n PROVE n + 1 - x \in 1..n /\ book[r][n + 1 - x] = x
    <3>1. n + 1 - x \in 1..n /\ n + 1 - (n + 1 - x) = x
      BY <1>2
    <3> QED BY <1>3, <3>1
  <2>2. ASSUME NEW i \in 1..n PROVE book[r][i] \in 1..n
    BY <1>2, <1>3
  <2>3. Reader!Range(book[r]) = {book[r][i] : i \in 1..n}
    BY <1>3 DEF Reader!Range
  <2> QED BY <2>1, <2>2, <2>3
<1> QED BY <1>1, <1>3, <1>4

\* The records from a place on, as many as fit a page.
LEMMA SliceIs ==
  ASSUME NEW r \in Reader!Histories, ReaderInv, NEW from \in 1..Len(book[r]) + 1
  PROVE  LET N == Len(book[r])
             s == SubSeq(book[r], from, Reader!Min({from + PageSize - 1, N}))
         IN /\ s \in Seq(Nat) /\ Reader!IsInjective(s)
            /\ Reader!Range(s) = {x \in 1..N : x <= N + 1 - from /\ x > N + 1 - from - PageSize}
            /\ s = << >> <=> from = N + 1
<1> DEFINE N == Len(book[r])
           to == Reader!Min({from + PageSize - 1, N})
           s == SubSeq(book[r], from, to)
<1>0. /\ Len(book[r]) \in 0..MaxId /\ book[r] \in Seq(Nat)
      /\ \A i \in 1..Len(book[r]) : book[r][i] = Len(book[r]) + 1 - i
  BY HistoryIs
<1> HIDE DEF N
<1>1. N \in Nat /\ book[r] \in Seq(Nat) /\ \A i \in 1..N : book[r][i] = N + 1 - i
  <2>1. N \in Nat
    BY <1>0, Numbers DEF N
  <2>2. book[r] \in Seq(Nat) /\ \A i \in 1..N : book[r][i] = N + 1 - i
    BY <1>0 DEF N
  <2> QED BY <2>1, <2>2
<1>2. from \in 1..N + 1
  BY DEF N
<1>3. PageSize \in Nat \ {0}
  BY Numbers
<1>4. to = IF from + PageSize - 1 <= N THEN from + PageSize - 1 ELSE N
  <2> DEFINE a == from + PageSize - 1
  <2>1. a \in Int /\ N \in Int /\ to = Reader!Min({a, N})
    BY <1>1, <1>2, <1>3
  <2> HIDE DEF a, to
  <2>2. to = IF a <= N THEN a ELSE N
    BY <2>1, LesserIs
  <2> QED BY <2>2 DEF a
<1>5. to \in from - 1..N
  BY <1>1, <1>2, <1>3, <1>4
<1>6. \A x \in 1..N : x \in from..to <=> x >= from /\ x <= from + PageSize - 1
  BY <1>1, <1>2, <1>3, <1>4
<1> HIDE DEF to
<1>7. /\ s \in Seq(Nat) /\ Len(s) = to - from + 1
      /\ \A i \in 1..Len(s) : s[i] = book[r][from + i - 1]
  <2>1. \A i \in from..to : book[r][i] \in Nat
    BY <1>1, <1>2, <1>5 DEF N
  <2>2. from \in Int /\ to \in Int
    BY <1>1, <1>2, <1>5
  <2>3. /\ s \in Seq(Nat) /\ Len(s) = (IF from <= to THEN to - from + 1 ELSE 0)
        /\ \A i \in 1..to - from + 1 : s[i] = book[r][from + i - 1]
    BY <2>1, <2>2, SubSeqProperties
  <2>4. Len(s) = to - from + 1
    BY <1>1, <1>2, <1>5, <2>3
  <2> HIDE DEF s
  <2> QED BY <2>3, <2>4
<1> HIDE DEF s
<1>8. DOMAIN s = 1..to - from + 1
  BY <1>7
<1>9. ASSUME NEW i \in 1..to - from + 1
      PROVE  from + i - 1 \in from..to /\ from + i - 1 \in 1..N /\ s[i] = N + 2 - from - i
  <2>1. from + i - 1 \in from..to /\ from + i - 1 \in 1..N
    BY <1>1, <1>2, <1>5
  <2>2. book[r][from + i - 1] = N + 1 - (from + i - 1)
    BY <1>1, <2>1
  <2>3. s[i] = book[r][from + i - 1]
    BY <1>7
  <2> QED BY <1>1, <1>2, <2>1, <2>2, <2>3
<1>10. Reader!IsInjective(s)
  BY <1>1, <1>2, <1>8, <1>9 DEF Reader!IsInjective
<1>11. Reader!Range(s) = {x \in 1..N : x <= N + 1 - from /\ x > N + 1 - from - PageSize}
  <2>1. ASSUME NEW i \in DOMAIN s
        PROVE  s[i] \in 1..N /\ s[i] <= N + 1 - from /\ s[i] > N + 1 - from - PageSize
    <3>1. from + i - 1 \in 1..N /\ from + i - 1 <= from + PageSize - 1 /\ i >= 1 /\ i \in Int
      BY <1>6, <1>8, <1>9
    <3>2. s[i] = N + 2 - from - i
      BY <1>8, <1>9
    <3> QED BY <1>1, <1>2, <1>3, <3>1, <3>2
  <2>2. ASSUME NEW x \in 1..N, x <= N + 1 - from, x > N + 1 - from - PageSize
        PROVE  \E i \in DOMAIN s : s[i] = x
    <3> DEFINE i == N + 2 - from - x
    <3>1. N + 1 - x \in 1..N /\ N + 1 - x >= from /\ N + 1 - x <= from + PageSize - 1
      BY <1>1, <1>2, <1>3, <2>2
    <3>2. N + 1 - x \in from..to
      BY <1>6, <3>1
    <3>3. i \in 1..to - from + 1
      BY <1>1, <1>2, <1>5, <3>2
    <3>4. s[i] = N + 2 - from - i
      <4> HIDE DEF i
      <4> QED BY <1>9, <3>3
    <3>5. s[i] = x
      BY <1>1, <1>2, <3>4
    <3> QED BY <1>8, <3>3, <3>5
  <2> QED BY <2>1, <2>2 DEF Reader!Range
<1>12. s = << >> <=> from = N + 1
  <2>1. s = << >> <=> to = from - 1
    BY <1>1, <1>2, <1>5, <1>7
  <2> QED BY <1>1, <1>2, <1>3, <1>4, <2>1
<1> QED BY <1>7, <1>10, <1>11, <1>12 DEF s, to, N

\* Two sequences with nothing twice and nothing in common.
LEMMA JoinWhole ==
  ASSUME NEW a \in Seq(Nat), NEW b \in Seq(Nat), Reader!IsInjective(a), Reader!IsInjective(b),
         \A i \in DOMAIN b : b[i] \notin Reader!Range(a)
  PROVE  /\ a \o b \in Seq(Nat) /\ Reader!IsInjective(a \o b)
         /\ Reader!Range(a \o b) = Reader!Range(a) \union Reader!Range(b)
<1> DEFINE m == Len(a)
           n == Len(b)
           c == a \o b
<1>1. /\ m \in Nat /\ n \in Nat /\ DOMAIN a = 1..m /\ DOMAIN b = 1..n
      /\ c \in Seq(Nat) /\ Len(c) = m + n /\ DOMAIN c = 1..m + n
      /\ \A i \in 1..m + n : c[i] = IF i <= m THEN a[i] ELSE b[i - m]
  OBVIOUS
<1> HIDE DEF m, n, c
<1>2. \A i \in 1..m + n : /\ (i <= m => i \in 1..m /\ c[i] = a[i])
                          /\ (i > m => i - m \in 1..n /\ c[i] = b[i - m])
  <2>1. ASSUME NEW i \in 1..m + n, i <= m PROVE i \in 1..m /\ c[i] = a[i]
    BY <1>1, <2>1
  <2>2. ASSUME NEW i \in 1..m + n, i > m PROVE i - m \in 1..n /\ c[i] = b[i - m]
    BY <1>1, <2>2
  <2> QED BY <2>1, <2>2
<1>3. \A i \in 1..m : i \in 1..m + n /\ c[i] = a[i]
  BY <1>1
<1>4. ASSUME NEW i \in 1..n PROVE i + m \in 1..m + n /\ c[i + m] = b[i]
  <2> DEFINE k == i + m
  <2>1. k \in 1..m + n /\ k > m /\ k - m = i
    BY <1>1
  <2> HIDE DEF k
  <2>2. k \in 1..m + n /\ c[k] = b[i]
    BY <1>2, <2>1
  <2> QED BY <2>2 DEF k
<1>5. ASSUME NEW i \in 1..m + n, NEW j \in 1..m + n, c[i] = c[j] PROVE i = j
  <2>1. CASE i <= m /\ j <= m
    BY <1>1, <1>2, <1>5, <2>1 DEF Reader!IsInjective
  <2>2. CASE i > m /\ j > m
    <3>1. i - m \in 1..n /\ j - m \in 1..n /\ b[i - m] = b[j - m]
      BY <1>2, <1>5, <2>2
    <3>2. i - m = j - m
      BY <1>1, <3>1 DEF Reader!IsInjective
    <3> QED BY <1>1, <3>2
  <2>3. CASE i <= m /\ j > m
    <3>1. j - m \in 1..n /\ b[j - m] = c[j] /\ i \in 1..m /\ c[i] = a[i]
      BY <1>1, <1>2, <1>5, <2>3
    <3>2. b[j - m] = a[i] /\ j - m \in DOMAIN b /\ i \in DOMAIN a
      BY <1>1, <1>5, <3>1
    <3> QED BY <3>2 DEF Reader!Range
  <2>4. CASE i > m /\ j <= m
    <3>1. i - m \in 1..n /\ b[i - m] = c[i] /\ j \in 1..m /\ c[j] = a[j]
      BY <1>1, <1>2, <1>5, <2>4
    <3>2. b[i - m] = a[j] /\ i - m \in DOMAIN b /\ j \in DOMAIN a
      BY <1>1, <1>5, <3>1
    <3> QED BY <3>2 DEF Reader!Range
  <2> QED BY <1>1, <2>1, <2>2, <2>3, <2>4
<1>6. Reader!IsInjective(c)
  BY <1>1, <1>5 DEF Reader!IsInjective
<1>7. Reader!Range(c) = Reader!Range(a) \union Reader!Range(b)
  <2>1. ASSUME NEW i \in 1..m + n PROVE c[i] \in Reader!Range(a) \union Reader!Range(b)
    <3>1. i <= m \/ i > m
      BY <1>1
    <3>2. (\A k \in 1..m : a[k] \in Reader!Range(a)) /\ (\A k \in 1..n : b[k] \in Reader!Range(b))
      BY <1>1 DEF Reader!Range
    <3> QED BY <1>2, <3>1, <3>2
  <2>2. ASSUME NEW i \in 1..m PROVE a[i] \in Reader!Range(c)
    BY <1>1, <1>3 DEF Reader!Range
  <2>3. ASSUME NEW i \in 1..n PROVE b[i] \in Reader!Range(c)
    <3>1. i + m \in DOMAIN c /\ b[i] = c[i + m]
      BY <1>1, <1>4
    <3> QED BY <3>1 DEF Reader!Range
  <2>4. Reader!Range(c) \subseteq Reader!Range(a) \union Reader!Range(b)
    BY <1>1, <2>1 DEF Reader!Range
  <2>5. Reader!Range(a) \union Reader!Range(b) \subseteq Reader!Range(c)
    <3>1. Reader!Range(a) \subseteq Reader!Range(c)
      <4>1. \A x \in Reader!Range(a) : \E i \in 1..m : x = a[i]
        BY <1>1 DEF Reader!Range
      <4> QED BY <2>2, <4>1
    <3>2. Reader!Range(b) \subseteq Reader!Range(c)
      <4>1. \A x \in Reader!Range(b) : \E i \in 1..n : x = b[i]
        BY <1>1 DEF Reader!Range
      <4> QED BY <2>3, <4>1
    <3> QED BY <3>1, <3>2
  <2> QED BY <2>4, <2>5
<1> QED BY <1>1, <1>6, <1>7 DEF c

\* So many pages hold n records, and one less does not.
LEMMA PagesFit ==
  ASSUME NEW n \in Nat
  PROVE  LET q == PagesFor(n) IN
         q \in Nat \ {0} /\ q * PageSize >= n /\ (q = 1 \/ (q - 1) * PageSize < n)
<1> DEFINE P == PageSize
           d == (n + P - 1) \div P
           q == PagesFor(n)
<1>1. P \in Nat \ {0}
  BY Numbers
<1> HIDE DEF P
<1>2. d \in Nat /\ (n + P - 1) % P \in 0..P - 1 /\ n + P - 1 = P * d + ((n + P - 1) % P)
  <2>1. n + P - 1 \in Nat
    BY <1>1
  <2> QED BY <1>1, <2>1
<1>3. q = IF d >= 1 THEN d ELSE 1
  <2>1. q = Reader!Max({1, d})
    BY DEF PagesFor, P
  <2> HIDE DEF d, q
  <2>2. Reader!Max({1, d}) = IF 1 <= d THEN d ELSE 1
    BY <1>2, GreaterIs
  <2> QED BY <1>2, <2>1, <2>2
<1> HIDE DEF d, q
<1>4. P * d >= n /\ P * d <= n + P - 1 /\ P * d \in Nat
  BY <1>1, <1>2
<1>5. q * P = P * d \/ (q = 1 /\ d = 0)
  BY <1>1, <1>2, <1>3
<1>6. d = 0 => n = 0
  BY <1>1, <1>2
<1>7. q # 1 => (q - 1) * P < n
  <2>1. ASSUME q # 1 PROVE (q - 1) * P < n
    <3>1. q = d /\ (q - 1) * P = P * d - P
      BY <1>1, <1>2, <1>3, <2>1
    <3> QED BY <1>1, <1>4, <3>1
  <2> QED BY <2>1
<1>8. q \in Nat \ {0}
  BY <1>2, <1>3
<1>9. q * P >= n
  BY <1>1, <1>4, <1>5, <1>6, <1>8
<1> QED BY <1>7, <1>8, <1>9 DEF q, P

\* The route of the present endpoint, what its history holds, what has been read of it
\* with the present answer, how much lies before this page, and the records of a page
\* whose first one is top.
RouteNow == Reader!Endpoint.route
Held == Len(book[RouteNow])
RowsNow == reading.rows \o Reader!Batch
Behind == (reading.page - 1) * PageSize
PageFrom(top) == {x \in 1..Held : x <= top /\ x > top - PageSize}

\* The present endpoint is one of the plan, or a detail, and read so far.
LEMMA EndpointIs ==
  ASSUME ReaderInv, todo # << >>
  PROVE  /\ Reader!Endpoint \in ToRead /\ Reader!Endpoint = todo[1] /\ SoFar(Reader!Endpoint, reading)
         /\ reading \in Readings /\ Reader!Endpoint.mode \in {"single", "pages", "cursor"}
         /\ Reader!Endpoint.mode # "single" => RouteNow \in Reader!Histories
         /\ Reader!Endpoint.mode = "single" => RouteNow \notin Reader!Histories
<1>1. todo \in Seq(ToRead) /\ Reader!Endpoint = todo[1] /\ SoFar(todo[1], reading) /\ reading \in Readings
  BY DEF ReaderInv, Reader!Endpoint
<1>2. todo[1] \in ToRead
  BY <1>1
<1> QED BY <1>1, <1>2 DEF ToRead, Endpoints, OfItsMode, RouteNow

\* The pages before the next one are pages of the history.
LEMMA PagesBehind ==
  ASSUME ReaderInv, todo # << >>, Reader!Endpoint.mode = "pages"
  PROVE  /\ Behind \in 0..Held /\ Reader!From = Behind + 1 /\ Reader!From \in 1..Held + 1
         /\ \A n \in 0..Held : reading.pages = PagesFor(n) /\ reading.page \in 2..reading.pages =>
              Behind < n /\ Behind >= PageSize
<1> DEFINE k == reading.page
           q == reading.pages
<1>1. PageSize \in Nat \ {0} /\ k \in Nat \ {0} /\ Held \in Nat /\ q \in Nat
  <2>1. Held \in 0..MaxId
    BY EndpointIs, HistoryIs DEF Held
  <2> QED BY <2>1, EndpointIs, Numbers DEF Readings
<1>2. Behind \in Nat /\ Behind = (k - 1) * PageSize
  BY <1>1 DEF Behind
<1>3. Reader!From = Behind + 1
  BY DEF Reader!From, Behind
<1>4. SoFar(Reader!Endpoint, reading)
  BY EndpointIs
<1> HIDE DEF k, q
<1>5. ASSUME NEW n \in 0..Held, q = PagesFor(n), k \in 2..q
      PROVE  Behind < n /\ Behind >= PageSize
  <2>1. n \in Nat
    BY <1>1
  <2>2. (q - 1) * PageSize < n
    BY <1>1, <1>5, <2>1, PagesFit
  <2>3. k - 1 <= q - 1 /\ k - 1 >= 1 /\ k - 1 \in Nat /\ q - 1 \in Nat
    BY <1>1, <1>5
  <2>4. (k - 1) * PageSize <= (q - 1) * PageSize
    BY <1>1, <2>3
  <2>5. (k - 1) * PageSize >= PageSize
    BY <1>1, <2>3
  <2> QED BY <1>1, <1>2, <2>1, <2>2, <2>3, <2>4, <2>5
<1>6. Behind <= Held
  <2>1. CASE k = 1
    BY <1>1, <1>2, <2>1
  <2>2. CASE k # 1
    <3>1. Paged(Reader!Endpoint, reading)
      BY <1>4, <2>2 DEF SoFar, k
    <3>2. PICK n \in 0..Held : q = PagesFor(n) /\ k \in 2..q
      BY <3>1 DEF Paged, Held, RouteNow, k, q
    <3>3. Behind < n
      BY <1>5, <3>2
    <3> QED BY <1>1, <1>2, <3>3
  <2> QED BY <2>1, <2>2
<1>7. Reader!From \in 1..Held + 1 /\ Behind \in 0..Held
  BY <1>1, <1>2, <1>3, <1>6
<1> QED BY <1>3, <1>5, <1>7 DEF k, q

\* The cursor is where the next records begin.
LEMMA CursorBehind ==
  ASSUME ReaderInv, todo # << >>, Reader!Endpoint.mode = "cursor"
  PROVE  /\ reading.cursor = None => Reader!From = 1
         /\ reading.cursor \in 1..Held => Reader!From = Held + 2 - reading.cursor
         /\ Reader!From \in 1..Held + 1
<1> DEFINE c == reading.cursor
           S == {i \in 1..Held + 1 : i > Held \/ c = None \/ book[RouteNow][i] < c}
<1>1. Held \in Nat /\ \A i \in 1..Held : book[RouteNow][i] = Held + 1 - i
  <2>1. Held \in 0..MaxId /\ \A i \in 1..Held : book[RouteNow][i] = Held + 1 - i
    BY EndpointIs, HistoryIs DEF Held
  <2> QED BY <2>1, Numbers
<1>2. Reader!From = Reader!Min(S)
  BY DEF Reader!From, Held, RouteNow
<1>3. S \in SUBSET Int
  BY <1>1
<1>4. ASSUME c = None PROVE Reader!From = 1
  <2>1. 1 \in S /\ \A x \in S : 1 <= x
    BY <1>1, <1>4
  <2> HIDE DEF S
  <2> QED BY <1>2, <1>3, <2>1, LeastIs
<1>5. ASSUME c \in 1..Held PROVE Reader!From = Held + 2 - c
  <2>1. c # None /\ c \in Nat
    BY <1>1, <1>5, Numbers
  <2>2. Held + 2 - c \in 1..Held + 1
    BY <1>1, <1>5
  <2>3. ASSUME NEW i \in 1..Held + 1 PROVE i \in S <=> i >= Held + 2 - c
    <3>1. CASE i > Held
      BY <1>1, <1>5, <2>1, <3>1
    <3>2. CASE ~(i > Held)
      <4>1. i \in 1..Held
        BY <1>1, <3>2
      <4>2. book[RouteNow][i] = Held + 1 - i
        BY <1>1, <4>1
      <4>3. i \in S <=> Held + 1 - i < c
        BY <2>1, <3>2, <4>2
      <4> QED BY <1>1, <2>1, <4>1, <4>3
    <3> QED BY <3>1, <3>2
  <2>4. Held + 2 - c \in S
    <3> HIDE DEF S
    <3>1. Held + 2 - c >= Held + 2 - c
      BY <1>1, <2>1
    <3> QED BY <2>2, <2>3, <3>1
  <2>5. \A x \in S : Held + 2 - c <= x
    <3> TAKE x \in S
    <3>1. x \in 1..Held + 1
      OBVIOUS
    <3> HIDE DEF S
    <3>2. x >= Held + 2 - c
      BY <2>3, <3>1
    <3> QED BY <1>1, <2>1, <3>1, <3>2
  <2> HIDE DEF S
  <2> QED BY <1>2, <1>3, <2>4, <2>5, LeastIs
<1>6. c = None \/ c \in 1..Held
  <2>1. SoFar(Reader!Endpoint, reading)
    BY EndpointIs
  <2>2. c = None \/ Cursored(Reader!Endpoint, reading)
    BY <2>1 DEF SoFar
  <2>3. ASSUME Cursored(Reader!Endpoint, reading) PROVE c \in 1..Held
    <3>1. PICK n \in 0..Held : c \in 1..n
      BY <2>3 DEF Cursored, Held, RouteNow
    <3> HIDE DEF c
    <3> QED BY <1>1, <3>1
  <2> QED BY <2>2, <2>3
<1>7. Reader!From \in 1..Held + 1
  BY <1>1, <1>4, <1>5, <1>6
<1> QED BY <1>4, <1>5, <1>7

\* What an answer holds.
LEMMA BatchIs ==
  ASSUME ReaderInv, todo # << >>
  PROVE  /\ Reader!Batch \in Seq(Nat) /\ Reader!IsInjective(Reader!Batch)
         /\ Reader!Endpoint.mode = "single" => Reader!Batch = <<1>>
         /\ Reader!Endpoint.mode # "single" =>
              /\ Reader!Range(Reader!Batch) = PageFrom(Held + 1 - Reader!From)
              /\ (Reader!Batch = << >>) <=> (Reader!From = Held + 1)
<1>1. CASE Reader!Endpoint.mode = "single"
  <2>1. Reader!Batch = <<1>>
    BY <1>1 DEF Reader!Batch
  <2> QED BY <1>1, <2>1 DEF Reader!IsInjective
<1>2. CASE Reader!Endpoint.mode # "single"
  <2>1. Reader!From \in 1..Held + 1
    BY <1>2, EndpointIs, PagesBehind, CursorBehind
  <2>2. Reader!Batch = SubSeq(book[RouteNow], Reader!From, Reader!Min({Reader!From + PageSize - 1, Held}))
    BY <1>2 DEF Reader!Batch, Held, RouteNow
  <2>3. RouteNow \in Reader!Histories
    BY <1>2, EndpointIs
  <2>4. /\ Reader!Batch \in Seq(Nat) /\ Reader!IsInjective(Reader!Batch)
        /\ (Reader!Batch = << >>) <=> (Reader!From = Held + 1)
    BY <2>1, <2>2, <2>3, SliceIs DEF Held
  <2>5. Reader!Range(Reader!Batch) = {x \in 1..Held : x <= Held + 1 - Reader!From
                                                        /\ x > Held + 1 - Reader!From - PageSize}
    BY <2>1, <2>2, <2>3, SliceIs DEF Held
  <2>6. Reader!Range(Reader!Batch) = PageFrom(Held + 1 - Reader!From)
    <3>1. Held \in Nat /\ Reader!From \in Nat /\ PageSize \in Nat
      BY <2>1, <2>3, HistoryIs, Numbers DEF Held
    <3>2. \A x : x \in Reader!Range(Reader!Batch) <=> x \in PageFrom(Held + 1 - Reader!From)
      BY <2>5, <3>1 DEF PageFrom
    <3> QED BY <3>2 DEF Reader!Range, PageFrom
  <2> QED BY <1>2, <2>4, <2>6
<1> QED BY <1>1, <1>2

\* What was not seen before is added.
LEMMA RowsJoin ==
  ASSUME ReaderInv, todo # << >>, ~Reader!Seen(Reader!Batch)
  PROVE  /\ RowsNow \in Seq(Nat) /\ Reader!IsInjective(RowsNow)
         /\ Reader!Range(RowsNow) = Reader!Range(reading.rows) \union Reader!Range(Reader!Batch)
<1>1. reading.rows \in Seq(Nat) /\ Reader!IsInjective(reading.rows)
  BY EndpointIs DEF Readings, SoFar
<1>2. \A i \in DOMAIN Reader!Batch : Reader!Batch[i] \notin Reader!Range(reading.rows)
  BY DEF Reader!Seen
<1> QED BY <1>1, <1>2, BatchIs, JoinWhole DEF RowsNow

\* At the beginning nothing has been read.
LEMMA NothingRead ==
  ASSUME Begun(reading) PROVE Reader!Range(reading.rows) = {}
BY DEF Begun, Reader!Range

\* What was there at first is a range of ids.
LEMMA ThereIs ==
  ASSUME ReaderInv, todo # << >>
  PROVE  /\ Reader!There \in Theres
         /\ Reader!Endpoint.mode = "single" => Reader!There = None
         /\ Reader!Endpoint.mode # "single" /\ Begun(reading) => Reader!There = 1..Held
         /\ \A n \in 0..Held : reading.there = 1..n => Reader!There = 1..n
<1>1. reading.there \in Theres
  BY EndpointIs DEF Readings
<1>2. Reader!Endpoint.mode = "single" => Begun(reading) /\ RouteNow \notin Reader!Histories
  BY EndpointIs DEF SoFar
<1>3. Reader!Endpoint.mode = "single" => Reader!There = None
  BY <1>2 DEF Reader!There, Begun, RouteNow
<1>4. ASSUME Reader!Endpoint.mode # "single"
      PROVE  /\ RouteNow \in Reader!Histories /\ Reader!Range(book[RouteNow]) = 1..Held
             /\ Held \in 0..MaxId
  BY <1>4, EndpointIs, HistoryIs DEF Held
<1>5. Reader!Endpoint.mode # "single" /\ Begun(reading) => Reader!There = 1..Held
  BY <1>4 DEF Reader!There, Begun, RouteNow
<1>6. Reader!There \in Theres
  BY <1>1, <1>3, <1>4 DEF Reader!There, Theres, RouteNow
<1>7. ASSUME NEW n \in 0..Held, reading.there = 1..n PROVE Reader!There = 1..n
  <2>1. CASE RouteNow \in Reader!Histories
    <3>1. Held \in 0..MaxId /\ MaxId \in Nat
      BY <2>1, HistoryIs, Numbers DEF Held
    <3>2. n \in 0..MaxId
      BY <3>1
    <3>3. None # 1..n
      BY <3>2, Numbers
    <3> QED BY <1>7, <3>3 DEF Reader!There
  <2>2. CASE RouteNow \notin Reader!Histories
    BY <1>7, <2>2 DEF Reader!There, RouteNow
  <2> QED BY <2>1, <2>2
<1> QED BY <1>3, <1>5, <1>6, <1>7

\* A page that is taken continues the pages before: had the history grown in
\* between, the number of its pages or a record seen twice would show it.
LEMMA PageTaken ==
  ASSUME ReaderInv, todo # << >>, Reader!Endpoint.mode = "pages", NEW pages,
         pages \in {Reader!PagesOf(RouteNow), None},
         ~Reader!Seen(Reader!Batch), ~Reader!Shifted(Reader!Batch, pages),
         ~Reader!Unpaged(Reader!Batch, pages)
  PROVE  /\ pages = PagesFor(Held) /\ Reader!There = 1..Held
         /\ Reader!Range(RowsNow) = {x \in 1..Held : x > Held - reading.page * PageSize}
<1> DEFINE N == Held
           k == reading.page
           b == Behind
<1>1. /\ PageSize \in Nat \ {0} /\ k \in Nat \ {0} /\ N \in 0..MaxId /\ N \in Nat
      /\ b \in 0..N /\ Reader!From = b + 1
  <2>1. N \in 0..MaxId
    BY EndpointIs, HistoryIs DEF Held
  <2> QED BY <2>1, EndpointIs, PagesBehind, Numbers DEF Readings
<1>2. pages = PagesFor(N) /\ pages # None
  BY DEF Reader!Unpaged, Reader!PagesOf, PagesFor, Held, RouteNow
<1>3. Reader!Range(Reader!Batch) = {x \in 1..N : x <= N - b /\ x > N - b - PageSize}
  <2>1. Reader!Range(Reader!Batch) = PageFrom(N + 1 - Reader!From)
    BY BatchIs
  <2>2. N + 1 - Reader!From = N - b
    BY <1>1
  <2>3. Reader!Range(Reader!Batch) = PageFrom(N - b)
    BY <2>1, <2>2
  <2> QED BY <2>3 DEF PageFrom
<1>4. k * PageSize = b + PageSize
  BY <1>1 DEF Behind
<1>5. Reader!There = 1..N /\ Reader!Range(reading.rows) = {x \in 1..N : x > N - b}
  <2>1. CASE Begun(reading) /\ k = 1
    <3>1. b = 0
      BY <1>1, <2>1 DEF Behind
    <3> QED BY <1>1, <2>1, <3>1, NothingRead, ThereIs
  <2>2. CASE Paged(Reader!Endpoint, reading)
    <3>1. PICK n \in 0..N : /\ reading.there = 1..n /\ reading.pages = PagesFor(n) /\ k \in 2..reading.pages
                            /\ Reader!Range(reading.rows) = {x \in 1..n : x > n - b}
      BY <2>2 DEF Paged, Held, RouteNow, Behind
    <3>2. k > 1 /\ n \in Nat /\ n <= N
      BY <1>1, <3>1, EndpointIs DEF Readings
    <3>3. b < n /\ b >= PageSize
      BY <3>1, PagesBehind
    <3>4. pages = reading.pages
      BY <3>2 DEF Reader!Shifted
    <3>5. n = N
      <4>1. SUFFICES ASSUME n < N PROVE FALSE
        BY <1>1, <3>2
      <4> DEFINE q == PagesFor(n)
      <4>2. q = PagesFor(N)
        BY <1>2, <3>1, <3>4
      <4>3. q \in Nat \ {0} /\ (q = 1 \/ (q - 1) * PageSize < n) /\ q * PageSize >= N
        BY <1>1, <3>2, <4>2, PagesFit
      <4>4. q >= 2
        <5>1. k \in 2..q
          BY <3>1
        <5> HIDE DEF q
        <5> QED BY <1>1, <4>3, <5>1
      <4> HIDE DEF q
      <4>5. q * PageSize = (q - 1) * PageSize + PageSize /\ (q - 1) * PageSize \in Nat
        BY <1>1, <4>3
      <4>6. N < n + PageSize
        BY <1>1, <3>2, <4>3, <4>4, <4>5
      <4>7. N - b \in 1..N /\ N - b \in 1..n /\ N - b > n - b /\ N - b > N - b - PageSize
        BY <1>1, <3>2, <3>3, <4>1, <4>6
      <4>8. N - b \in Reader!Range(Reader!Batch) /\ N - b \in Reader!Range(reading.rows)
        BY <1>1, <1>3, <3>1, <4>7
      <4> QED BY <4>8 DEF Reader!Seen, Reader!Range
    <3>6. Reader!There = 1..n
      BY <3>1, ThereIs
    <3> QED BY <3>1, <3>5, <3>6
  <2>3. (Begun(reading) /\ k = 1) \/ Paged(Reader!Endpoint, reading)
    BY EndpointIs DEF SoFar
  <2> QED BY <2>1, <2>2, <2>3
<1>6. Reader!Range(RowsNow) = {x \in 1..N : x > N - b}
                                \union {x \in 1..N : x <= N - b /\ x > N - b - PageSize}
  BY <1>3, <1>5, RowsJoin
<1>7. Reader!Range(RowsNow) = {x \in 1..N : x > N - k * PageSize}
  <2>1. \A x \in 1..N : (x > N - b \/ (x <= N - b /\ x > N - b - PageSize)) <=> x > N - (b + PageSize)
    BY <1>1
  <2> HIDE DEF N, b, k
  <2>2. Reader!Range(RowsNow) = {x \in 1..N : x > N - (b + PageSize)}
    BY <1>6, <2>1
  <2> QED BY <1>4, <2>2
<1> QED BY <1>2, <1>5, <1>7

\* What a cursor brings is what comes before it in the history, which no longer changes.
LEMMA CursorTaken ==
  ASSUME ReaderInv, todo # << >>, Reader!Endpoint.mode = "cursor", ~Reader!Seen(Reader!Batch)
  PROVE  \E n \in 0..Held :
           /\ Reader!There = 1..n
           /\ Reader!Batch = << >> => Reader!Range(RowsNow) = 1..n
           /\ Reader!Batch # << >> =>
                LET m == Reader!Min(Reader!Range(Reader!Batch))
                IN m \in 1..n /\ Reader!Range(RowsNow) = m..n
<1> DEFINE N == Held
           B == Reader!Range(Reader!Batch)
           hi == N + 1 - Reader!From
<1>1. PageSize \in Nat \ {0} /\ N \in Nat /\ Reader!From \in 1..N + 1
  <2>1. N \in 0..MaxId
    BY EndpointIs, HistoryIs DEF Held
  <2> QED BY <2>1, CursorBehind, Numbers
<1>2. B = {x \in 1..N : x <= hi /\ x > hi - PageSize} /\ (Reader!Batch = << >> <=> Reader!From = N + 1)
  <2>1. Reader!Endpoint.mode # "single"
    OBVIOUS
  <2>2. Reader!Range(Reader!Batch) = PageFrom(Held + 1 - Reader!From)
    BY <2>1, BatchIs
  <2>3. (Reader!Batch = << >>) <=> (Reader!From = Held + 1)
    BY <2>1, BatchIs
  <2> QED BY <2>2, <2>3 DEF PageFrom
<1>3. hi \in 0..N /\ (Reader!Batch = << >> <=> hi = 0)
  BY <1>1, <1>2
<1>4. \E n \in 0..N : /\ Reader!There = 1..n /\ hi <= n
                      /\ Reader!Range(reading.rows) = hi + 1..n
  <2>1. CASE Begun(reading) /\ reading.cursor = None
    <3>1. hi = N /\ Reader!There = 1..N /\ Reader!Range(reading.rows) = {}
      BY <1>1, <2>1, CursorBehind, ThereIs, NothingRead
    <3>2. hi + 1..N = {} /\ N \in 0..N
      BY <1>1, <3>1
    <3> QED BY <1>1, <3>1, <3>2
  <2>2. CASE Cursored(Reader!Endpoint, reading)
    <3>1. PICK n \in 0..N : /\ reading.there = 1..n /\ reading.cursor \in 1..n
                            /\ Reader!Range(reading.rows) = reading.cursor..n
      BY <2>2 DEF Cursored, Held, RouteNow
    <3>2. reading.cursor \in 1..N
      BY <1>1, <3>1
    <3>3. hi = reading.cursor - 1
      BY <1>1, <3>2, CursorBehind
    <3>4. hi + 1 = reading.cursor /\ hi <= n
      BY <1>1, <3>1, <3>3
    <3> QED BY <3>1, <3>4, ThereIs
  <2>3. (Begun(reading) /\ reading.cursor = None) \/ Cursored(Reader!Endpoint, reading)
    BY EndpointIs DEF SoFar
  <2> QED BY <2>1, <2>2, <2>3
<1>5. PICK n \in 0..N : Reader!There = 1..n /\ hi <= n /\ Reader!Range(reading.rows) = hi + 1..n
  BY <1>4
<1>6. Reader!Range(RowsNow) = (hi + 1..n) \union B
  BY <1>5, RowsJoin
<1> HIDE DEF hi, B
<1>7. ASSUME Reader!Batch = << >> PROVE Reader!Range(RowsNow) = 1..n
  <2>1. hi = 0 /\ B = {}
    BY <1>1, <1>2, <1>3, <1>7
  <2> QED BY <1>6, <2>1
<1>8. ASSUME Reader!Batch # << >>
      PROVE  Reader!Min(B) \in 1..n /\ Reader!Range(RowsNow) = Reader!Min(B)..n
  <2>1. hi \in B /\ B \in SUBSET Nat /\ B \in SUBSET Int
    BY <1>1, <1>2, <1>3, <1>8
  <2>2. PICK m \in B : \A x \in B : m <= x
    BY <2>1, LeastNat
  <2>3. Reader!Min(B) = m
    BY <2>1, <2>2, LeastIs
  <2>4. m \in Nat /\ m >= 1 /\ m <= hi /\ m > hi - PageSize
    BY <1>1, <1>2, <1>3, <2>2
  <2>5. B = m..hi
    <3>1. ASSUME NEW x \in B PROVE x \in m..hi
      BY <1>1, <1>2, <1>3, <2>2, <2>4
    <3>2. ASSUME NEW x \in m..hi PROVE x \in B
      <4>1. x \in 1..N /\ x <= hi /\ x > hi - PageSize
        BY <1>1, <1>3, <2>4
      <4> QED BY <1>2, <4>1
    <3> QED BY <3>1, <3>2
  <2>6. (hi + 1..n) \union (m..hi) = m..n
    BY <1>1, <1>3, <1>5, <2>4
  <2>7. m \in 1..n
    BY <1>1, <1>3, <1>5, <2>4
  <2> QED BY <1>6, <2>3, <2>5, <2>6, <2>7
<1> QED BY <1>5, <1>7, <1>8 DEF B

\* What is taken keeps what has been read in order, and is whole when it ends.
LEMMA TakeKeeps ==
  ASSUME ReaderInv, todo # << >>, book' = book, NEW pages,
         pages = None \/ (Reader!Endpoint.mode = "pages" /\ pages = Reader!PagesOf(RouteNow)),
         Reader!TakeBatch(pages)
  PROVE  ReaderInv'
<1> DEFINE mode == Reader!Endpoint.mode
           B == Reader!Batch
<1>1. /\ reading \in Readings /\ mode \in {"single", "pages", "cursor"} /\ PageSize \in Nat \ {0}
      /\ mode # "single" => Held \in 0..MaxId /\ Held \in Nat
      /\ Reader!There \in Theres
  <2>1. mode # "single" => Held \in 0..MaxId
    BY EndpointIs, HistoryIs DEF Held
  <2> QED BY <2>1, EndpointIs, Numbers, ThereIs
<1>2. CASE Reader!Seen(B) \/ Reader!Shifted(B, pages)
  <2>1. Reader!Fail(FALSE)
    BY <1>2 DEF Reader!TakeBatch
  <2> QED BY <2>1, FailKeeps
<1>3. CASE ~(Reader!Seen(B) \/ Reader!Shifted(B, pages)) /\ Reader!Unpaged(B, pages)
  <2>1. Reader!Settle("partial", RowsNow, Reader!There)
    BY <1>3 DEF Reader!TakeBatch, RowsNow
  <2>2. RowsNow \in Seq(Nat)
    BY <1>3, RowsJoin
  <2>3. "partial" \in Statuses /\ "partial" \notin {"complete", "empty"}
    BY DEF Statuses
  <2> QED BY <1>1, <2>1, <2>2, <2>3, SettleKeeps
<1>4. CASE ~(Reader!Seen(B) \/ Reader!Shifted(B, pages)) /\ ~Reader!Unpaged(B, pages)
  <2>1. /\ RowsNow \in Seq(Nat) /\ Reader!IsInjective(RowsNow)
    BY <1>4, RowsJoin
  <2>2. ASSUME mode = "pages"
        PROVE  /\ pages = PagesFor(Held) /\ Reader!There = 1..Held /\ reading.page \in Nat \ {0}
               /\ Reader!Range(RowsNow) = {x \in 1..Held : x > Held - reading.page * PageSize}
    BY <1>1, <1>4, <2>2, PageTaken DEF Readings
  <2>3. CASE Reader!GoesOn(B, pages)
    <3>1. /\ reading' = [reading EXCEPT !.stage = "ask", !.rows = RowsNow, !.succeeded = TRUE,
                           !.there = Reader!There,
                           !.page = IF mode = "pages" THEN @ + 1 ELSE @,
                           !.pages = IF mode = "pages" THEN pages ELSE @,
                           !.cursor = IF mode = "cursor" THEN Reader!Min(Reader!Range(B)) ELSE @]
          /\ todo' = todo /\ parts' = parts /\ datasets' = datasets
      BY <1>4, <2>3 DEF Reader!TakeBatch, RowsNow
    <3>2. CASE mode = "pages"
      <4>1. reading.page < PagesFor(Held)
        BY <2>2, <2>3, <3>2 DEF Reader!GoesOn
      <4>2. PagesFor(Held) \in Nat \ {0}
        BY <1>1, <3>2, PagesFit
      <4>3. /\ reading'.rows = RowsNow /\ reading'.there = 1..Held /\ reading'.page = reading.page + 1
            /\ reading'.pages = PagesFor(Held)
        BY <1>1, <2>2, <3>1, <3>2 DEF Readings
      <4>4. reading' \in Readings
        <5>1. reading.page + 1 \in Nat \ {0} /\ pages \in Nat
          BY <2>2, <3>2, <4>2
        <5> DEFINE k == reading.page + 1
        <5>2. reading' = [reading EXCEPT !.stage = "ask", !.rows = RowsNow, !.succeeded = TRUE,
                           !.there = Reader!There, !.page = k, !.pages = pages, !.cursor = reading.cursor]
          BY <3>1, <3>2
        <5> HIDE DEF k
        <5>3. k \in Nat \ {0}
          BY <5>1 DEF k
        <5> QED BY <1>1, <2>1, <5>1, <5>2, <5>3 DEF Readings
      <4>5. Paged(todo[1], reading)'
        <5>1. reading'.page \in 2..reading'.pages
          BY <2>2, <3>2, <4>1, <4>2, <4>3
        <5>2. Reader!Range(reading'.rows) = {x \in 1..Held : x > Held - (reading'.page - 1) * PageSize}
          <6> DEFINE k == reading.page
                     j == reading'.page - 1
                     R == Reader!Range(RowsNow)
          <6>1. j = k
            BY <2>2, <3>2, <4>3
          <6>2. R = {x \in 1..Held : x > Held - k * PageSize}
            BY <2>2, <3>2
          <6> HIDE DEF j, k
          <6>3. R = {x \in 1..Held : x > Held - j * PageSize}
            BY <6>1, <6>2
          <6> QED BY <4>3, <6>3 DEF j
        <5>3. Held \in 0..Len(book'[todo'[1].route]) /\ book'[todo'[1].route] = book[RouteNow]
          BY <1>1, <3>1, <3>2, EndpointIs DEF Held, RouteNow
        <5> QED BY <4>3, <5>1, <5>2, <5>3 DEF Paged
      <4>6. SoFar(todo[1], reading)'
        BY <2>1, <3>1, <3>2, <4>3, <4>5, EndpointIs DEF SoFar
      <4> QED BY <3>1, <4>4, <4>6 DEF ReaderInv, Books, Reader!CompleteIsWhole
    <3>3. CASE mode = "cursor"
      <4>1. B # << >>
        BY <2>3, <3>3 DEF Reader!GoesOn
      <4> DEFINE m == Reader!Min(Reader!Range(B))
      <4>2. PICK n \in 0..Held : Reader!There = 1..n /\ m \in 1..n /\ Reader!Range(RowsNow) = m..n
        BY <1>4, <3>3, <4>1, CursorTaken
      <4>3. reading'.rows = RowsNow /\ reading'.there = 1..n /\ reading'.cursor = m
        BY <1>1, <3>1, <3>3, <4>2 DEF Readings
      <4>4. reading' \in Readings
        <5>1. m \in Nat
          BY <1>1, <3>3, <4>2
        <5> HIDE DEF m
        <5> QED BY <1>1, <2>1, <3>1, <3>3, <4>3, <5>1 DEF Readings
      <4>5. Cursored(todo[1], reading)'
        <5>1. n \in 0..Len(book'[todo'[1].route])
          BY <3>1, EndpointIs DEF Held, RouteNow
        <5> QED BY <4>2, <4>3, <5>1 DEF Cursored
      <4>6. SoFar(todo[1], reading)'
        BY <2>1, <3>1, <3>3, <4>3, <4>5, EndpointIs DEF SoFar
      <4> QED BY <3>1, <4>4, <4>6 DEF ReaderInv, Books, Reader!CompleteIsWhole
    <3>4. mode # "single"
      BY <2>3 DEF Reader!GoesOn
    <3> QED BY <1>1, <3>2, <3>3, <3>4
  <2>4. CASE ~Reader!GoesOn(B, pages)
    <3> DEFINE status == IF RowsNow = << >> THEN "empty" ELSE "complete"
    <3>1. Reader!Settle(status, RowsNow, Reader!There)
      BY <1>4, <2>4 DEF Reader!TakeBatch, RowsNow
    <3>2. Reader!There # None => Reader!There \subseteq Reader!Range(RowsNow)
      <4>1. CASE mode = "single"
        BY <4>1, ThereIs
      <4>2. CASE mode = "pages"
        <5>1. ~(reading.page < PagesFor(Held))
          BY <2>2, <2>4, <4>2 DEF Reader!GoesOn
        <5> DEFINE q == PagesFor(Held)
        <5>2. q \in Nat \ {0} /\ q * PageSize >= Held
          BY <1>1, <4>2, PagesFit
        <5> HIDE DEF q
        <5>3. q <= reading.page
          BY <2>2, <4>2, <5>1, <5>2 DEF q
        <5>4. q * PageSize <= reading.page * PageSize
          BY <1>1, <2>2, <4>2, <5>2, <5>3
        <5>5. reading.page * PageSize >= Held /\ reading.page * PageSize \in Nat
          BY <1>1, <2>2, <4>2, <5>2, <5>4
        <5>6. \A x \in 1..Held : x > Held - reading.page * PageSize
          BY <1>1, <4>2, <5>5
        <5> QED BY <2>2, <4>2, <5>6
      <4>3. CASE mode = "cursor"
        <5>1. B = << >>
          BY <2>4, <4>3 DEF Reader!GoesOn
        <5> QED BY <1>4, <4>3, <5>1, CursorTaken
      <4> QED BY <1>1, <4>1, <4>2, <4>3
    <3>3. status \in Statuses
      BY DEF Statuses
    <3>4. IsWhole(RowsNow, Reader!There)
      BY <2>1, <3>2 DEF IsWhole
    <3> HIDE DEF status
    <3> QED BY <1>1, <2>1, <3>1, <3>3, <3>4, SettleKeeps
  <2> QED BY <2>3, <2>4
<1> QED BY <1>2, <1>3, <1>4

\* The next id goes before those there are.
LEMMA GrowsAtHead ==
  ASSUME NEW n \in Nat
  PROVE  <<n + 1>> \o Down(n) = Down(n + 1)
<1> DEFINE b == Down(n)
           h == <<n + 1>>
           s == h \o b
<1>1. b \in Seq(Nat) /\ Len(b) = n /\ \A i \in 1..n : b[i] = n + 1 - i
  BY DEF Down
<1>2. h \in Seq(Nat) /\ Len(h) = 1 /\ h[1] = n + 1
  OBVIOUS
<1>3. s = h \o b
  OBVIOUS
<1> HIDE DEF h, b, s
<1>4. s \in Seq(Nat) /\ Len(s) = 1 + n /\ \A i \in 1..1 + n : s[i] = IF i <= 1 THEN h[i] ELSE b[i - 1]
  <2>1. Len(h) \in Nat /\ Len(b) \in Nat
    BY <1>1, <1>2
  <2>2. /\ h \o b \in Seq(Nat) /\ Len(h \o b) = Len(h) + Len(b)
        /\ \A i \in 1..Len(h) + Len(b) : (h \o b)[i] = IF i <= Len(h) THEN h[i] ELSE b[i - Len(h)]
    <3>1. h \in Seq(Nat) /\ b \in Seq(Nat)
      BY <1>1, <1>2
    <3> QED BY <3>1, ConcatProperties, Zenon
  <2> QED BY <1>1, <1>2, <1>3, <2>2
<1>5. \A i \in 1..n + 1 : s[i] = n + 1 + 1 - i
  <2>1. ASSUME NEW i \in 1..n + 1 PROVE s[i] = n + 1 + 1 - i
    <3>1. i # 1 => i - 1 \in 1..n
      OBVIOUS
    <3> QED BY <1>1, <1>2, <1>4, <3>1
  <2> QED BY <2>1
<1>6. s = [i \in 1..n + 1 |-> s[i]]
  BY <1>4
<1>7. s = Down(n + 1)
  BY <1>5, <1>6 DEF Down
<1> QED BY <1>7 DEF s, h, b

\* A history that grows at its head holds what was read of it as before.
LEMMA AppearKeeps ==
  ASSUME ReaderInv, NEW r \in Reader!Histories, Reader!Appear(r)
  PROVE  ReaderInv'
<1> DEFINE n == Len(book[r])
<1>1. /\ n \in 0..MaxId /\ n \in Nat /\ n < MaxId /\ book[r] \in Seq(Nat)
      /\ \A i \in 1..n : book[r][i] = n + 1 - i
  <2>1. Len(book[r]) < MaxId
    BY DEF Reader!Appear
  <2>2. /\ n \in 0..MaxId /\ book[r] \in Seq(Nat)
        /\ \A i \in 1..n : book[r][i] = n + 1 - i
    BY HistoryIs
  <2> QED BY <2>1, <2>2, Numbers
<1>2. /\ book' = [book EXCEPT ![r] = <<n + 1>> \o book[r]] /\ todo' = todo /\ reading' = reading
      /\ parts' = parts /\ datasets' = datasets
  BY DEF Reader!Appear
<1>3. <<n + 1>> \o book[r] = Down(n + 1)
  BY <1>1, HistoryIs, GrowsAtHead
<1>4. Books'
  <2>1. n + 1 \in 0..MaxId
    BY <1>1, Numbers
  <2> DEFINE next == Down(n + 1)
  <2>2. next \in {Down(k) : k \in 0..MaxId}
    BY <2>1
  <2>3. book \in [Reader!Histories -> {Down(k) : k \in 0..MaxId}]
    BY DEF ReaderInv, Books
  <2>4. book' = [book EXCEPT ![r] = next]
    BY <1>2, <1>3
  <2> DEFINE S == {Down(k) : k \in 0..MaxId}
  <2> HIDE DEF next, S
  <2>5. book' \in [Reader!Histories -> S]
    BY <2>2, <2>3, <2>4 DEF S
  <2> QED BY <2>5 DEF Books, S
<1>5. ASSUME NEW e \in ToRead, SoFar(e, reading) PROVE SoFar(e, reading)'
  <2>1. CASE e.mode = "single"
    BY <1>2, <1>5, <2>1 DEF SoFar, Begun
  <2>2. CASE e.mode # "single"
    <3>1. e.route \in Reader!Histories
      BY <2>2 DEF ToRead, OfItsMode
    <3>2. /\ Len(book[e.route]) \in Nat /\ Len(book'[e.route]) \in Nat
          /\ Len(book'[e.route]) >= Len(book[e.route])
      <4>1. Len(book[e.route]) \in Nat
        BY <3>1, HistoryIs, Numbers
      <4>2. CASE e.route = r
        <5>1. book'[r] = Down(n + 1)
          BY <1>2, <1>3 DEF ReaderInv, Books
        <5>2. Len(book'[r]) = n + 1
          BY <1>1, <1>2, <5>1 DEF ReaderInv, Books
        <5> QED BY <1>1, <4>2, <5>2
      <4>3. CASE e.route # r
        <5>1. book'[e.route] = book[e.route]
          BY <1>2, <3>1, <4>3 DEF ReaderInv, Books
        <5> QED BY <4>1, <5>1
      <4> QED BY <4>2, <4>3
    <3>3. \A k \in 0..Len(book[e.route]) : k \in 0..Len(book'[e.route])
      BY <3>2
    <3>4. Paged(e, reading) => Paged(e, reading)'
      BY <1>2, <3>3 DEF Paged
    <3>5. Cursored(e, reading) => Cursored(e, reading)'
      BY <1>2, <3>3 DEF Cursored
    <3> QED BY <1>2, <1>5, <3>4, <3>5 DEF SoFar, Begun
  <2> QED BY <2>1, <2>2
<1>6. todo # << >> => todo[1] \in ToRead
  BY EndpointIs
<1> QED BY <1>2, <1>4, <1>5, <1>6 DEF ReaderInv, Reader!CompleteIsWhole

\* Every step keeps what is read in order.
LEMMA ReaderKept == ASSUME ReaderInv, [Reader!Next]_readerVars PROVE ReaderInv'
<1>1. CASE UNCHANGED readerVars
  BY <1>1 DEF readerVars, ReaderInv, Books, SoFar, Begun, Paged, Cursored, Reader!CompleteIsWhole
<1>2. CASE Reader!Tick
  BY <1>2 DEF Reader!Tick, ReaderInv, Books, SoFar, Begun, Paged, Cursored, Reader!CompleteIsWhole
<1>3. ASSUME NEW r \in Reader!Histories, Reader!Appear(r) PROVE ReaderInv'
  BY <1>3, AppearKeeps
<1>4. CASE Reader!Unavailable
  <2>1. PICK status \in {"failed", "unauthorised"} : Reader!Settle(status, << >>, None)
    BY <1>4 DEF Reader!Unavailable
  <2>2. << >> \in Seq(Nat) /\ None \in Theres /\ status \in Statuses /\ status \notin {"complete", "empty"}
    BY DEF Theres, Statuses
  <2>3. todo # << >> /\ book' = book
    BY <1>4 DEF Reader!Unavailable, Reader!eve
  <2> QED BY <2>1, <2>2, <2>3, SettleKeeps
<1>5. CASE Reader!Ask
  <2>1. todo # << >> /\ book' = book
    BY <1>5 DEF Reader!Ask, Reader!eve
  <2>2. CASE Reader!Fail(FALSE)
    BY <2>1, <2>2, FailKeeps
  <2>3. CASE /\ reading' = [reading EXCEPT !.stage = "wait"]
             /\ todo' = todo /\ parts' = parts /\ datasets' = datasets
    <3>1. reading \in Readings
      BY DEF ReaderInv
    <3>2. reading' \in Readings
      BY <2>3, <3>1 DEF Readings
    <3>3. /\ reading'.rows = reading.rows /\ reading'.there = reading.there /\ reading'.page = reading.page
          /\ reading'.pages = reading.pages /\ reading'.cursor = reading.cursor
      BY <2>3, <3>1 DEF Readings
    <3>4. todo # << >> => SoFar(todo[1], reading)'
      BY <2>1, <2>3, <3>3 DEF ReaderInv, SoFar, Begun, Paged, Cursored
    <3> QED BY <2>1, <2>3, <3>2, <3>4 DEF ReaderInv, Books, Reader!CompleteIsWhole
  <2> QED BY <1>5, <2>2, <2>3 DEF Reader!Ask
<1>6. CASE Reader!NoAnswer
  <2>1. todo # << >> /\ book' = book /\ Reader!Fail(FALSE)
    BY <1>6 DEF Reader!NoAnswer, Reader!eve
  <2> QED BY <2>1, FailKeeps
<1>7. ASSUME NEW group, NEW wait, NEW legacy, NEW status,
             NEW pages \in (IF todo # << >> /\ Reader!Endpoint.mode = "pages"
                            THEN {Reader!PagesOf(Reader!Endpoint.route), None} ELSE {None}),
             Reader!Answer(group, wait, legacy, status, pages)
      PROVE  ReaderInv'
  <2>1. todo # << >> /\ book' = book
    BY <1>7 DEF Reader!Answer, Reader!eve
  <2>2. pages = None \/ (Reader!Endpoint.mode = "pages" /\ pages = Reader!PagesOf(RouteNow))
    BY DEF RouteNow
  <2>3. \/ \E refused \in BOOLEAN : Reader!Fail(refused)
        \/ Reader!TakeBatch(pages)
    BY <1>7 DEF Reader!Answer
  <2> QED BY <2>1, <2>2, <2>3, FailKeeps, TakeKeeps
<1> QED BY <1>1, <1>2, <1>3, <1>4, <1>5, <1>6, <1>7 DEF Reader!Next

\* A step of the composition is a step of one of them and a stutter of the other.
LEMMA EvidenceKept ==
  ASSUME ExportInv, ReaderInv, [SourcesMove \/ EvidenceMoves \/ ReaderMoves]_allvars
  PROVE  ExportInv' /\ ReaderInv'
<1>1. [Export!Next]_evidenceVars /\ [Reader!Next]_readerVars
  BY DEF SourcesMove, EvidenceMoves, ReaderMoves, allvars
<1> QED BY <1>1, ExportKept, ReaderKept

(* For any recruits and links, any plan of endpoints and limits: what is      *)
(* released of a capture is what was captured, and the evidence said to be    *)
(* complete is, however the histories grow while their pages are read.        *)
THEOREM EvidenceStands == MCSpec => EvidenceHolds
<1>1. MCInit => ExportInv /\ ReaderInv
  BY ExportStarts, ReaderStarts DEF MCInit
<1>2. ASSUME ExportInv, ReaderInv, [SourcesMove \/ EvidenceMoves \/ ReaderMoves]_allvars
      PROVE  ExportInv' /\ ReaderInv'
  BY <1>2, EvidenceKept
<1>3. ASSUME ExportInv, [SourcesMove \/ EvidenceMoves \/ ReaderMoves]_allvars
      PROVE  [phase' = "released" /\ phase # "released" => ~disturbed]_(Export!vars)
  <2>1. [Export!Next]_evidenceVars
    BY <1>3 DEF SourcesMove, EvidenceMoves, ReaderMoves, allvars
  <2> QED BY <1>3, <2>1, ReleasesUnchanged
<1>4. ASSUME ReaderInv' PROVE [moving = "reader" => Reader!CompleteIsWhole']_readerVars
  BY <1>4 DEF ReaderInv
<1> QED BY <1>1, <1>2, <1>3, <1>4, PTL DEF MCSpec, EvidenceHolds, Export!ReleasedUnchanged

-----------------------------------------------------------------------------
(* Sources, slots and the runs of the job.                                    *)

\* A source that is not over is in its first generation and short of the limit,
\* a slot that is held is short of it as well: what ends them fits the column.
Bounded ==
  /\ \A s \in Sources : src[s].state # "ended" =>
       src[s].gen = 1 /\ src[s].fetchGen <= MaxGeneration
  /\ \A f \in Fleets : auth[f].source # Nobody => auth[f].agen <= MaxGeneration
ActivatedBound == \A s \in Sources :
  src[s].activated => src[s].fleet \in Fleets /\ src[s].state # "none"
Book == Bounded /\ ActivatedBound /\ SlotBacked /\ OneProvedSource /\ RowsBacked

\* A run that was bound remembers the fleet of its source and a generation the
\* slot has had; if it was overtaken, one the slot no longer has.
Asked(r) == ticket[r] # NoTicket
            /\ (ticket[r].stage = "bound" \/ ticket[r].answer.kind = "verified")
BoundRuns ==
  \A r \in Runs : Asked(r) =>
    LET t == ticket[r] IN
    /\ t.fleet \in Fleets /\ src[t.source].fleet = t.fleet
    /\ t.expect <= auth[t.fleet].agen
    /\ r \in overtaken => t.expect < auth[t.fleet].agen
\* Only the run that claimed a source last remembers its present fetch.
LatestClaim ==
  \A r \in Runs : ticket[r] # NoTicket =>
    LET t == ticket[r] IN
    /\ t.fetchGen <= src[t.source].fetchGen
    /\ t.fetchGen = src[t.source].fetchGen => newest[t.source] = r
Tickets == BoundRuns /\ LatestClaim

FInv == TypeOK /\ Book /\ Tickets

USE FleetSourceAssumption, TicketAssumption

-----------------------------------------------------------------------------
(* Slots and rows without the sources S.                                    *)

LEMMA EmptiedType ==
  ASSUME NEW slot \in SlotType, slot.agen <= MaxGeneration
  PROVE  /\ Emptied(slot) \in SlotType
         /\ Emptied(slot).source = Nobody
         /\ Emptied(slot).agen = slot.agen + 1
<1>1. slot.agen + 1 \in 0..(MaxGeneration + 1)
  BY DEF SlotType
<1>2. EmptySlot \in SlotType
  BY DEF EmptySlot, SlotType
<1> QED
  BY <1>1, <1>2 DEF Emptied, EmptySlot, SlotType

LEMMA EndedType ==
  ASSUME NEW s \in Sources, src[s] \in SourceType, src[s].gen = 1,
         src[s].fetchGen <= MaxGeneration
  PROVE  /\ Ended(s) \in SourceType
         /\ Ended(s).state = "ended" /\ Ended(s).fleet = src[s].fleet
         /\ Ended(s).activated = src[s].activated
         /\ Ended(s).fetchGen = src[s].fetchGen + 1
<1>1. src[s].fetchGen + 1 \in 0..(MaxGeneration + 1) /\ src[s].gen + 1 \in 1..2
  BY DEF SourceType
<1> QED
  BY <1>1 DEF Ended, SourceType

\* A slot that names a source of S is emptied, the others are kept.
LEMMA AuthWithoutSlot ==
  ASSUME TypeOK, Book, NEW S \in SUBSET Sources, NEW f \in Fleets
  PROVE  /\ AuthWithout(S)[f] \in SlotType
         /\ auth[f].source \in S => /\ AuthWithout(S)[f].source = Nobody
                                    /\ AuthWithout(S)[f].agen = auth[f].agen + 1
         /\ auth[f].source \notin S => AuthWithout(S)[f] = auth[f]
<1>1. auth[f] \in SlotType
  BY DEF TypeOK
<1>2. CASE auth[f].source \in S
  <2>1. auth[f].source # Nobody
    BY <1>2
  <2>2. Owns(auth[f].source, f)
    BY <2>1 DEF Book, SlotBacked, Owns
  <2>3. AuthWithout(S)[f] = Emptied(auth[f])
    BY <1>2, <2>2 DEF AuthWithout
  <2>4. auth[f].agen <= MaxGeneration
    BY <2>1 DEF Book, Bounded
  <2> QED
    BY <1>1, <1>2, <2>3, <2>4, EmptiedType
<1>3. CASE auth[f].source \notin S
  <2>1. ~ \E s \in S : Owns(s, f)
    BY <1>3 DEF Owns
  <2>2. AuthWithout(S)[f] = auth[f]
    BY <2>1 DEF AuthWithout
  <2> QED
    BY <1>1, <1>3, <2>2
<1> QED
  BY <1>2, <1>3

\* A row that is left is the row that was, of a source not in S.
LEMMA RowsWithoutRow ==
  ASSUME TypeOK, Book, NEW S \in SUBSET Sources, NEW c \in Chars,
         RowsWithout(S)[c] # NoRow
  PROVE  RowsWithout(S)[c] = row[c] /\ row[c] # NoRow /\ row[c].source \notin S
<1>1. RowsWithout(S)[c] = row[c] /\ ~ \E s \in S : OfSource(s, c)
  BY DEF RowsWithout
<1>2. row[c] # NoRow
  BY <1>1
<1>3. row[c].fleet \in Fleets /\ row[c].source \in Sources
  BY <1>2 DEF TypeOK, RowType
<1>4. /\ auth[row[c].fleet].source = row[c].source
      /\ auth[row[c].fleet].sgen = row[c].sgen
  BY <1>2 DEF Book, RowsBacked
<1>5. src[row[c].source].gen = row[c].sgen
  BY <1>3, <1>4 DEF Book, SlotBacked
<1> QED
  BY <1>1, <1>2, <1>5 DEF OfSource

\* What may become of a source whose slot and rows are taken away.
Onward(s) ==
  /\ src'[s].fleet = src[s].fleet /\ src'[s].activated = src[s].activated
  /\ src'[s].state # "none" /\ (src'[s].state \in Live => src[s].state \in Live)
  /\ src'[s].state # "ended" => src'[s].gen = 1 /\ src'[s].fetchGen <= MaxGeneration
RowsFollow(S) ==
  /\ row' = [c \in Chars |-> row'[c]]
  /\ \A c \in Chars : row'[c] # NoRow =>
       row'[c] = RowsWithout(S)[c] /\ epoch'[c] = epoch[c]

LEMMA Withdrawal ==
  ASSUME TypeOK, Book, NEW S \in SUBSET Sources,
         \A o \in Sources \ S : src'[o] = src[o],
         \A s \in S : Onward(s),
         auth' = AuthWithout(S), RowsFollow(S)
  PROVE  /\ auth' \in [Fleets -> SlotType]
         /\ row' \in [Chars -> RowType \union {NoRow}]
         /\ Book'
<1>1. ASSUME NEW f \in Fleets
      PROVE  /\ auth'[f] \in SlotType
             /\ auth'[f].source # Nobody =>
                  auth'[f] = auth[f] /\ auth[f].source \in Sources \ S
  <2>1. auth[f].source \in Sources \union {Nobody}
    BY DEF TypeOK, SlotType
  <2> QED
    BY <2>1, AuthWithoutSlot
<1>2. auth' \in [Fleets -> SlotType]
  <2>1. auth' = [f \in Fleets |-> auth'[f]]
    BY DEF AuthWithout
  <2> QED
    BY <1>1, <2>1
<1>3. ASSUME NEW c \in Chars, row'[c] # NoRow
      PROVE  /\ row'[c] = row[c] /\ row[c] # NoRow /\ row[c].source \notin S
             /\ row[c] \in RowType /\ epoch'[c] = epoch[c]
  <2>1. row'[c] = RowsWithout(S)[c] /\ epoch'[c] = epoch[c]
    BY <1>3 DEF RowsFollow
  <2>2. row'[c] = row[c] /\ row[c] # NoRow /\ row[c].source \notin S
    BY <1>3, <2>1, RowsWithoutRow
  <2> QED
    BY <2>1, <2>2 DEF TypeOK
<1>4. row' \in [Chars -> RowType \union {NoRow}]
  BY <1>3 DEF RowsFollow
<1>5. Bounded'
  <2>1. ASSUME NEW s \in Sources, src'[s].state # "ended"
        PROVE  src'[s].gen = 1 /\ src'[s].fetchGen <= MaxGeneration
    BY <2>1 DEF Onward, Book, Bounded
  <2>2. ASSUME NEW f \in Fleets, auth'[f].source # Nobody
        PROVE  auth'[f].agen <= MaxGeneration
    BY <1>1, <2>2 DEF Book, Bounded
  <2> QED
    BY <2>1, <2>2 DEF Bounded
<1>6. ActivatedBound'
  <2>1. ASSUME NEW s \in Sources
        PROVE  /\ src'[s].activated = src[s].activated /\ src'[s].fleet = src[s].fleet
               /\ src'[s].state # "none" \/ src'[s].state = src[s].state
    BY DEF Onward
  <2> QED
    BY <2>1 DEF ActivatedBound, Book
<1>7. SlotBacked'
  <2>1. ASSUME NEW f \in Fleets, auth'[f].source # Nobody
        PROVE  LET s == src'[auth'[f].source] IN
               /\ s.state = "active" /\ s.activated
               /\ s.fleet = f /\ s.gen = auth'[f].sgen
    <3>1. auth'[f] = auth[f] /\ src'[auth[f].source] = src[auth[f].source]
      BY <1>1, <2>1
    <3> QED
      BY <2>1, <3>1 DEF Book, SlotBacked
  <2> QED
    BY <2>1 DEF SlotBacked
<1>8. OneProvedSource'
  <2>1. ASSUME NEW s \in Sources
        PROVE  /\ src'[s].activated = src[s].activated /\ src'[s].fleet = src[s].fleet
               /\ src'[s].state \in Live => src[s].state \in Live
    BY DEF Onward
  <2> QED
    BY <2>1 DEF OneProvedSource, Book
<1>9. RowsBacked'
  <2>1. ASSUME NEW c \in Chars, row'[c] # NoRow
        PROVE  LET slot == auth'[row'[c].fleet] IN
               /\ slot.source = row'[c].source /\ slot.sgen = row'[c].sgen
               /\ slot.agen = row'[c].agen /\ row'[c].epoch = epoch'[c]
    <3>1. row'[c] = row[c] /\ epoch'[c] = epoch[c]
      BY <1>3, <2>1
    <3>2. /\ auth[row[c].fleet].source = row[c].source
          /\ auth[row[c].fleet].sgen = row[c].sgen
          /\ auth[row[c].fleet].agen = row[c].agen /\ row[c].epoch = epoch[c]
      BY <2>1, <3>1 DEF Book, RowsBacked
    <3>3. row[c].fleet \in Fleets /\ row[c].source \notin S
      BY <1>3, <2>1 DEF RowType
    <3>4. auth'[row[c].fleet] = auth[row[c].fleet]
      BY <3>2, <3>3, AuthWithoutSlot
    <3> QED
      BY <3>1, <3>2, <3>4
  <2> QED
    BY <2>1 DEF RowsBacked
<1> QED
  BY <1>2, <1>4, <1>5, <1>6, <1>7, <1>8, <1>9 DEF Book

-----------------------------------------------------------------------------
(* Steps that take nothing from anyone.                                     *)

\* What may become of a source while its slot stays as it is.
Quiet(s) ==
  /\ src'[s].gen = src[s].gen /\ src'[s].activated = src[s].activated
  /\ src[s].activated => src'[s].fleet = src[s].fleet /\ src'[s].state = src[s].state
  /\ src'[s].state # "ended" => src[s].state # "ended" /\ src'[s].fetchGen <= MaxGeneration
SameSlot(f) == /\ auth'[f].source = auth[f].source /\ auth'[f].sgen = auth[f].sgen
               /\ auth'[f].agen = auth[f].agen

LEMMA QuietKeepsBook ==
  ASSUME TypeOK, Book, UNCHANGED <<row, epoch>>,
         \A s \in Sources : Quiet(s), \A f \in Fleets : SameSlot(f)
  PROVE  Book'
<1>1. Bounded'
  BY DEF Book, Bounded, Quiet, SameSlot
<1>2. ActivatedBound'
  BY DEF Book, ActivatedBound, Quiet
<1>3. SlotBacked'
  <2>1. ASSUME NEW f \in Fleets, auth'[f].source # Nobody
        PROVE  LET s == src'[auth'[f].source] IN
               /\ s.state = "active" /\ s.activated
               /\ s.fleet = f /\ s.gen = auth'[f].sgen
    <3> DEFINE s == auth[f].source
    <3>1. auth'[f].source = s /\ auth'[f].sgen = auth[f].sgen
      BY DEF SameSlot
    <3>2. s \in Sources
      BY <2>1, <3>1 DEF TypeOK, SlotType
    <3>3. /\ src[s].state = "active" /\ src[s].activated
          /\ src[s].fleet = f /\ src[s].gen = auth[f].sgen
      BY <2>1, <3>1 DEF Book, SlotBacked
    <3>4. Quiet(s)
      BY <3>2
    <3> QED
      BY <3>1, <3>3, <3>4 DEF Quiet
  <2> QED
    BY <2>1 DEF SlotBacked
<1>4. OneProvedSource'
  <2>1. ASSUME NEW s \in Sources, src'[s].activated
        PROVE  /\ src[s].activated /\ src'[s].fleet = src[s].fleet
               /\ src'[s].state = src[s].state
    BY <2>1 DEF Quiet
  <2> QED
    BY <2>1 DEF OneProvedSource, Book
<1>5. RowsBacked'
  <2>1. \A c \in Chars : row[c] # NoRow => row[c].fleet \in Fleets
    BY DEF TypeOK, RowType
  <2> QED
    BY <2>1 DEF RowsBacked, Book, SameSlot
<1> QED
  BY <1>1, <1>2, <1>3, <1>4, <1>5 DEF Book

LEMMA PublishKeepsBook ==
  ASSUME TypeOK, Book, NEW c \in Chars, NEW f \in Fleets, Publish(c, f)
  PROVE  Book' /\ row' \in [Chars -> RowType \union {NoRow}]
<1> DEFINE new == [fleet |-> f, source |-> auth[f].source, sgen |-> auth[f].sgen,
                   agen |-> auth[f].agen, epoch |-> epoch[c]]
<1>1. row' = [row EXCEPT ![c] = new] /\ UNCHANGED <<src, auth, epoch>>
  BY DEF Publish
<1>2. auth[f].source # Nobody
  BY DEF Publish, Eligible, Evidence
<1>3. new \in RowType
  BY <1>2 DEF TypeOK, SlotType, RowType
<1>4. row' \in [Chars -> RowType \union {NoRow}]
  BY <1>1, <1>3 DEF TypeOK
<1>5. ASSUME NEW d \in Chars, row'[d] # NoRow
      PROVE  LET slot == auth[row'[d].fleet] IN
             /\ slot.source = row'[d].source /\ slot.sgen = row'[d].sgen
             /\ slot.agen = row'[d].agen /\ row'[d].epoch = epoch[d]
  <2>1. CASE d = c
    <3>1. row'[d] = new
      BY <1>1, <2>1 DEF TypeOK
    <3> QED
      BY <2>1, <3>1
  <2>2. CASE d # c
    <3>1. row'[d] = row[d]
      BY <1>1, <2>2 DEF TypeOK
    <3> QED
      BY <1>5, <3>1 DEF Book, RowsBacked
  <2> QED
    BY <2>1, <2>2
<1>6. RowsBacked'
  BY <1>1, <1>5 DEF RowsBacked
<1> QED
  BY <1>1, <1>4, <1>6 DEF Book, Bounded, ActivatedBound, SlotBacked, OneProvedSource

LEMMA RowLeavesKeepsBook ==
  ASSUME TypeOK, Book, NEW c \in Chars, RowLeaves(c)
  PROVE  Book' /\ row' \in [Chars -> RowType \union {NoRow}]
<1>1. \A d \in Chars : row'[d] # NoRow => row'[d] = row[d]
  BY DEF RowLeaves, TypeOK
<1>2. RowsBacked'
  BY <1>1 DEF RowLeaves, Book, RowsBacked
<1> QED
  BY <1>2 DEF RowLeaves, TypeOK, Book, Bounded, ActivatedBound, SlotBacked, OneProvedSource

-----------------------------------------------------------------------------
(* The proof that fills a slot.                                             *)

\* What a run that may install knows, its slot apart.
MayInstall(r) ==
  LET t == ticket[r] IN
  /\ t \in TicketType /\ t.answer.kind = "verified"
  /\ t.fleet \in Fleets /\ src[t.source].fleet = t.fleet
  /\ src[t.source].state \in Live
  /\ GenerationOnInstall(t.source, t.fleet) <= MaxGeneration

LEMMA InstallSlot ==
  ASSUME TypeOK, Book, NEW r \in Runs, MayInstall(r), Install(r)
  PROVE  LET s == ticket[r].source f == ticket[r].fleet IN
         /\ auth' \in [Fleets -> SlotType]
         /\ auth'[f].source = s /\ auth'[f].sgen = src[s].gen
         /\ auth'[f].agen = GenerationOnInstall(s, f)
         /\ auth'[f].age = ticket[r].answer.age
         /\ \A g \in Fleets \ {f} : auth'[g] = auth[g]
<1> DEFINE t == ticket[r]
           s == t.source
           f == t.fleet
           D == Displaced(s, f)
           links == {l \in Retained(r) : epoch[l[1]] = l[2]}
           new == [source |-> s, sgen |-> src[s].gen,
                   agen |-> GenerationOnInstall(s, f), links |-> links,
                   age |-> t.answer.age]
<1>1. auth' = [AuthWithout(D) EXCEPT ![f] = new]
  BY DEF Install
<1>2. s \in Sources /\ f \in Fleets /\ D \in SUBSET Sources
  BY DEF MayInstall, TicketType, Displaced
<1>3. new \in SlotType
  <2>1. links \in SUBSET Links
    BY DEF MayInstall, TicketType, Retained
  <2>2. t.answer.age \in 0..EvidenceTime
    BY DEF MayInstall, TicketType, Answer
  <2>3. src[s].gen \in 1..2
    BY <1>2 DEF TypeOK, SourceType
  <2>4. GenerationOnInstall(s, f) \in 0..(MaxGeneration + 1)
    <3>1. auth[f].agen \in Nat
      BY <1>2 DEF TypeOK, SlotType
    <3> QED
      BY <3>1 DEF MayInstall, GenerationOnInstall
  <2> HIDE DEF links
  <2> QED
    BY <1>2, <2>1, <2>2, <2>3, <2>4 DEF SlotType
<1>4. AuthWithout(D) = [g \in Fleets |-> AuthWithout(D)[g]]
  BY DEF AuthWithout
<1> HIDE DEF new
<1>5. auth'[f] = new
  BY <1>1, <1>2, <1>4
<1>6. ASSUME NEW g \in Fleets \ {f} PROVE auth'[g] = auth[g]
  <2>1. auth[g].source \notin D
    <3>1. SUFFICES ASSUME auth[g].source \in D PROVE FALSE
      OBVIOUS
    <3>2. auth[g].source \in Sources
      BY <1>2, <3>1
    <3>3. auth[g].source # Nobody
      BY <3>2
    <3>4. src[auth[g].source].fleet = g
      BY <3>3 DEF Book, SlotBacked
    <3>5. src[auth[g].source].fleet = f
      BY <3>1 DEF Displaced
    <3> QED
      BY <3>4, <3>5
  <2>2. AuthWithout(D)[g] = auth[g]
    BY <1>2, <2>1, AuthWithoutSlot
  <2> QED
    BY <1>1, <1>4, <2>2
<1>7. auth' \in [Fleets -> SlotType]
  <2>1. auth' = [g \in Fleets |-> auth'[g]]
    BY <1>1, <1>4
  <2>2. ASSUME NEW g \in Fleets PROVE auth'[g] \in SlotType
    BY <1>3, <1>5, <1>6 DEF TypeOK
  <2> QED
    BY <2>1, <2>2
<1> QED
  BY <1>5, <1>6, <1>7 DEF new

LEMMA InstallSources ==
  ASSUME TypeOK, Book, NEW r \in Runs, MayInstall(r), Install(r)
  PROVE  LET s == ticket[r].source f == ticket[r].fleet IN
         /\ src' \in [Sources -> SourceType]
         /\ src'[s].state = "active" /\ src'[s].activated
         /\ src'[s].gen = src[s].gen /\ src'[s].fleet = src[s].fleet
         /\ src'[s].fetchGen = src[s].fetchGen
         /\ \A o \in Displaced(s, f) :
              /\ src'[o].state = "ended" /\ src'[o].fleet = src[o].fleet
              /\ src'[o].activated = src[o].activated
              /\ src'[o].fetchGen = src[o].fetchGen + 1
         /\ \A o \in Sources : o # s /\ o \notin Displaced(s, f) => src'[o] = src[o]
<1> DEFINE s == ticket[r].source
           f == ticket[r].fleet
           D == Displaced(s, f)
           base == SourcesEnded(D)
<1>1. src' = [base EXCEPT ![s] =
                [@ EXCEPT !.state = "active", !.activated = TRUE,
                          !.claim = NoClaim, !.due = FALSE]]
  BY DEF Install
<1>2. s \in Sources /\ D \in SUBSET (Sources \ {s})
  BY DEF MayInstall, TicketType, Displaced
<1>3. base = [o \in Sources |-> base[o]] /\ base[s] = src[s]
  BY <1>2 DEF SourcesEnded
<1>4. src'[s] = [src[s] EXCEPT !.state = "active", !.activated = TRUE,
                               !.claim = NoClaim, !.due = FALSE]
  BY <1>1, <1>2, <1>3
<1>5. /\ src'[s] \in SourceType
      /\ src'[s].state = "active" /\ src'[s].activated
      /\ src'[s].gen = src[s].gen /\ src'[s].fleet = src[s].fleet
      /\ src'[s].fetchGen = src[s].fetchGen
  <2>1. src[s] \in SourceType
    BY <1>2 DEF TypeOK
  <2> QED
    BY <1>4, <2>1 DEF SourceType
<1>6. ASSUME NEW o \in D
      PROVE  /\ src'[o] \in SourceType
             /\ src'[o].state = "ended" /\ src'[o].fleet = src[o].fleet
             /\ src'[o].activated = src[o].activated
             /\ src'[o].fetchGen = src[o].fetchGen + 1
  <2>1. base[o] = Ended(o)
    BY <1>2 DEF SourcesEnded
  <2>2. src'[o] = Ended(o)
    BY <1>1, <1>2, <1>3, <2>1
  <2>3. src[o] \in SourceType /\ src[o].state # "ended"
    BY <1>2 DEF TypeOK, Displaced, Live
  <2>4. src[o].gen = 1 /\ src[o].fetchGen <= MaxGeneration
    BY <1>2, <2>3 DEF Book, Bounded
  <2> QED
    BY <1>2, <2>2, <2>3, <2>4, EndedType
<1>7. ASSUME NEW o \in Sources, o # s, o \notin D PROVE src'[o] = src[o]
  <2>1. base[o] = src[o]
    BY <1>7 DEF SourcesEnded
  <2> QED
    BY <1>1, <1>3, <1>7, <2>1
<1>8. src' \in [Sources -> SourceType]
  <2>1. src' = [o \in Sources |-> src'[o]]
    BY <1>1, <1>3
  <2>2. ASSUME NEW o \in Sources PROVE src'[o] \in SourceType
    BY <1>5, <1>6, <1>7 DEF TypeOK
  <2> QED
    BY <2>1, <2>2
<1> QED
  BY <1>5, <1>6, <1>7, <1>8

LEMMA InstallKeepsBook ==
  ASSUME TypeOK, Book, NEW r \in Runs, MayInstall(r), Install(r), UNCHANGED epoch
  PROVE  Book' /\ row' \in [Chars -> RowType \union {NoRow}]
<1> DEFINE s == ticket[r].source
           f == ticket[r].fleet
           D == Displaced(s, f)
<1>0. s \in Sources /\ f \in Fleets /\ D \in SUBSET (Sources \ {s})
      /\ src[s].fleet = f /\ src[s].state \in Live
  BY DEF MayInstall, TicketType, Displaced
<1>1. /\ auth'[f].source = s /\ auth'[f].sgen = src[s].gen
      /\ auth'[f].agen = GenerationOnInstall(s, f)
      /\ \A g \in Fleets \ {f} : auth'[g] = auth[g]
  BY InstallSlot
<1>2. /\ src'[s].state = "active" /\ src'[s].activated
      /\ src'[s].gen = src[s].gen /\ src'[s].fleet = src[s].fleet
      /\ src'[s].fetchGen = src[s].fetchGen
      /\ \A o \in D : /\ src'[o].state = "ended" /\ src'[o].fleet = src[o].fleet
                      /\ src'[o].activated = src[o].activated
      /\ \A o \in Sources : o # s /\ o \notin D => src'[o] = src[o]
  BY InstallSources
<1>3. src[s].state # "ended"
  BY <1>0 DEF Live
<1> HIDE DEF D, s, f
<1>4. Bounded'
  <2>1. ASSUME NEW o \in Sources, src'[o].state # "ended"
        PROVE  src'[o].gen = 1 /\ src'[o].fetchGen <= MaxGeneration
    BY <1>0, <1>2, <1>3, <2>1 DEF Book, Bounded
  <2>2. ASSUME NEW g \in Fleets, auth'[g].source # Nobody
        PROVE  auth'[g].agen <= MaxGeneration
    <3>1. GenerationOnInstall(s, f) <= MaxGeneration
      BY DEF MayInstall, s, f
    <3> QED
      BY <1>1, <2>2, <3>1 DEF Book, Bounded
  <2> QED
    BY <2>1, <2>2 DEF Bounded
<1>5. ActivatedBound'
  <2>1. ASSUME NEW o \in Sources, src'[o].activated
        PROVE  src'[o].fleet \in Fleets /\ src'[o].state # "none"
    BY <1>0, <1>2, <2>1 DEF Book, ActivatedBound
  <2> QED
    BY <2>1 DEF ActivatedBound
<1>6. SlotBacked'
  <2>1. ASSUME NEW g \in Fleets \ {f}, auth[g].source # Nobody
        PROVE  /\ auth[g].source \in Sources
               /\ auth[g].source # s /\ auth[g].source \notin D
    <3>1. auth[g].source \in Sources
      BY <2>1 DEF TypeOK, SlotType
    <3>2. src[auth[g].source].fleet = g
      BY <2>1 DEF Book, SlotBacked
    <3>3. \A o \in D : src[o].fleet = f
      BY DEF D, Displaced
    <3> QED
      BY <1>0, <3>1, <3>2, <3>3
  <2>2. ASSUME NEW g \in Fleets, auth'[g].source # Nobody
        PROVE  LET h == src'[auth'[g].source] IN
               /\ h.state = "active" /\ h.activated
               /\ h.fleet = g /\ h.gen = auth'[g].sgen
    <3>1. CASE g = f
      BY <1>0, <1>1, <1>2, <3>1
    <3>2. CASE g # f
      <4>1. auth'[g] = auth[g]
        BY <1>1, <3>2
      <4>2. src'[auth[g].source] = src[auth[g].source]
        BY <1>2, <2>1, <2>2, <3>2, <4>1
      <4> QED
        BY <2>2, <4>1, <4>2 DEF Book, SlotBacked
    <3> QED
      BY <3>1, <3>2
  <2> QED
    BY <2>2 DEF SlotBacked
<1>7. OneProvedSource'
  <2>1. ASSUME NEW o \in Sources, o # s, src'[o].activated, src'[o].state \in Live
        PROVE  /\ src'[o] = src[o] /\ src[o].fleet # f
    <3>1. o \notin D
      BY <1>2, <2>1 DEF Live
    <3>2. src'[o] = src[o]
      BY <1>2, <2>1, <3>1
    <3> QED
      BY <2>1, <3>1, <3>2 DEF D, Displaced
  <2> QED
    BY <1>0, <1>2, <2>1 DEF OneProvedSource, Book
<1>8. ASSUME NEW c \in Chars, row'[c] # NoRow
      PROVE  /\ row'[c] = row[c] /\ row[c] # NoRow /\ row[c] \in RowType
             /\ row[c].source \notin D
  <2>1. row' = RowsWithout(D)
    BY DEF Install, D, s, f
  <2>2. D \in SUBSET Sources
    BY <1>0
  <2>3. row'[c] = row[c] /\ row[c] # NoRow /\ row[c].source \notin D
    BY <1>8, <2>1, <2>2, RowsWithoutRow
  <2> QED
    BY <2>3 DEF TypeOK
<1>9. RowsBacked'
  <2>1. ASSUME NEW c \in Chars, row'[c] # NoRow
        PROVE  LET slot == auth'[row'[c].fleet] IN
               /\ slot.source = row'[c].source /\ slot.sgen = row'[c].sgen
               /\ slot.agen = row'[c].agen /\ row'[c].epoch = epoch[c]
    <3> DEFINE g == row[c].fleet
               o == row[c].source
    <3>1. row'[c] = row[c] /\ g \in Fleets /\ o \in Sources /\ o \notin D
      BY <1>8, <2>1 DEF RowType
    <3>2. /\ auth[g].source = o /\ auth[g].sgen = row[c].sgen
          /\ auth[g].agen = row[c].agen /\ row[c].epoch = epoch[c]
      BY <1>8, <2>1 DEF Book, RowsBacked
    <3>3. CASE g # f
      BY <1>1, <3>1, <3>2, <3>3
    <3>4. CASE g = f
      <4>1. /\ src[o].state = "active" /\ src[o].activated
            /\ src[o].fleet = f /\ src[o].gen = auth[f].sgen
        BY <3>1, <3>2, <3>4 DEF Book, SlotBacked
      <4>2. o = s
        BY <3>1, <4>1 DEF D, Displaced, Live
      <4>3. Owns(s, f)
        BY <3>2, <3>4, <4>1, <4>2 DEF Owns
      <4>4. auth[f].agen \in Nat
        BY <1>0 DEF TypeOK, SlotType
      <4>5. auth'[f].agen = auth[f].agen
        BY <1>1, <4>3, <4>4 DEF GenerationOnInstall, Replaces
      <4> QED
        BY <1>1, <3>1, <3>2, <3>4, <4>1, <4>2, <4>5
    <3> QED
      BY <3>3, <3>4
  <2> QED
    BY <2>1 DEF RowsBacked
<1>10. row' \in [Chars -> RowType \union {NoRow}]
  <2>1. row' = [c \in Chars |-> row'[c]]
    BY DEF Install, RowsWithout
  <2> QED
    BY <1>8, <2>1
<1> QED
  BY <1>4, <1>5, <1>6, <1>7, <1>9, <1>10 DEF Book

-----------------------------------------------------------------------------
(* What the runs remember.                                                  *)

\* Every change of holder shows in the generation.
AgenOnward ==
  \A f \in Fleets :
    /\ auth'[f].agen >= auth[f].agen
    /\ Holder(auth'[f]) # Holder(auth[f]) => auth'[f].agen > auth[f].agen
SourcesOnward ==
  \A s \in Sources :
    /\ src'[s].fleet = src[s].fleet \/ src[s].fleet = NoFleet
    /\ src'[s].fetchGen >= src[s].fetchGen
OvertakenFollows == overtaken' = overtaken \/ Overtake

LEMMA AsksWithin ==
  ASSUME TypeOK, NEW r \in Runs, ticket[r] # NoTicket
  PROVE  ticket[r] \in TicketType
BY DEF TypeOK

\* What run r remembers of slot and source stays true under it.
LEMMA AskedOnward ==
  ASSUME TypeOK, BoundRuns, NEW r \in Runs, Asked(r),
         AgenOnward, SourcesOnward,
         auth' \in [Fleets -> SlotType],
         r \in overtaken' => r \in overtaken \/ Holder(auth'[ticket[r].fleet])
                                              # Holder(auth[ticket[r].fleet])
  PROVE  LET t == ticket[r] IN
         /\ t.fleet \in Fleets /\ src'[t.source].fleet = t.fleet
         /\ t.expect <= auth'[t.fleet].agen
         /\ r \in overtaken' => t.expect < auth'[t.fleet].agen
<1> DEFINE t == ticket[r]
<1>1. /\ t.fleet \in Fleets /\ src[t.source].fleet = t.fleet
      /\ t.expect <= auth[t.fleet].agen
      /\ r \in overtaken => t.expect < auth[t.fleet].agen
  BY DEF BoundRuns
<1>2. t \in TicketType
  BY AsksWithin DEF Asked
<1>3. t.source \in Sources /\ t.expect \in Nat
  BY <1>2 DEF TicketType
<1>4. auth[t.fleet].agen \in Nat /\ auth'[t.fleet].agen \in Nat
  <2>1. auth[t.fleet] \in SlotType /\ auth'[t.fleet] \in SlotType
    BY <1>1 DEF TypeOK
  <2> QED
    BY <2>1 DEF SlotType
<1>5. src'[t.source].fleet = t.fleet
  BY <1>1, <1>3 DEF SourcesOnward
<1>6. /\ auth'[t.fleet].agen >= auth[t.fleet].agen
      /\ Holder(auth'[t.fleet]) # Holder(auth[t.fleet]) =>
           auth'[t.fleet].agen > auth[t.fleet].agen
  BY <1>1 DEF AgenOnward
<1> HIDE DEF t
<1>7. t.expect <= auth'[t.fleet].agen
  BY <1>1, <1>3, <1>4, <1>6
<1>8. ASSUME r \in overtaken' PROVE t.expect < auth'[t.fleet].agen
  <2>1. CASE r \in overtaken
    BY <1>1, <1>3, <1>4, <1>6, <2>1
  <2>2. CASE Holder(auth'[t.fleet]) # Holder(auth[t.fleet])
    BY <1>1, <1>3, <1>4, <1>6, <2>2
  <2> QED
    BY <1>8, <2>1, <2>2 DEF t
<1> QED
  BY <1>1, <1>5, <1>7, <1>8 DEF t

LEMMA OvertakenWas ==
  ASSUME OvertakenFollows, NEW r \in Runs, r \in overtaken'
  PROVE  r \in overtaken \/ Holder(auth'[ticket[r].fleet]) # Holder(auth[ticket[r].fleet])
BY DEF OvertakenFollows, Overtake

\* A run keeps its request, or has none any more.
SameRequest(r) == ticket'[r] # NoTicket =>
  /\ ticket[r] # NoTicket
  /\ ticket'[r].source = ticket[r].source /\ ticket'[r].fleet = ticket[r].fleet
  /\ ticket'[r].expect = ticket[r].expect /\ ticket'[r].fetchGen = ticket[r].fetchGen
  /\ Asked(r)' => Asked(r)

LEMMA LatestKept ==
  ASSUME TypeOK, LatestClaim, SourcesOnward, NEW r \in Runs, ticket[r] # NoTicket,
         src' \in [Sources -> SourceType], newest'[ticket[r].source] = newest[ticket[r].source]
  PROVE  LET t == ticket[r] IN
         /\ t.fetchGen <= src'[t.source].fetchGen
         /\ t.fetchGen = src'[t.source].fetchGen => newest'[t.source] = r
<1> DEFINE t == ticket[r]
<1>1. /\ t.fetchGen <= src[t.source].fetchGen
      /\ t.fetchGen = src[t.source].fetchGen => newest[t.source] = r
  BY DEF LatestClaim
<1>2. t.source \in Sources /\ t.fetchGen \in Nat
  BY AsksWithin DEF TicketType
<1>3. src[t.source] \in SourceType /\ src'[t.source] \in SourceType
  BY <1>2 DEF TypeOK
<1>4. src[t.source].fetchGen \in Nat /\ src'[t.source].fetchGen \in Nat
  BY <1>3 DEF SourceType
<1>5. src'[t.source].fetchGen >= src[t.source].fetchGen
  BY <1>2 DEF SourcesOnward
<1> HIDE DEF t
<1>6. t.fetchGen <= src'[t.source].fetchGen
  BY <1>1, <1>2, <1>4, <1>5
<1>7. t.fetchGen = src'[t.source].fetchGen => newest'[t.source] = r
  <2>1. newest'[t.source] = newest[t.source]
    BY DEF t
  <2> QED
    BY <1>1, <1>2, <1>4, <1>5, <2>1
<1> QED
  BY <1>6, <1>7 DEF t

LEMMA BoundKept ==
  ASSUME TypeOK, Tickets, AgenOnward, SourcesOnward,
         auth' \in [Fleets -> SlotType], NEW r \in Runs, SameRequest(r), Asked(r)',
         r \in overtaken' => r \in overtaken \/ Holder(auth'[ticket[r].fleet])
                                              # Holder(auth[ticket[r].fleet])
  PROVE  LET t == ticket'[r] IN
         /\ t.fleet \in Fleets /\ src'[t.source].fleet = t.fleet
         /\ t.expect <= auth'[t.fleet].agen
         /\ r \in overtaken' => t.expect < auth'[t.fleet].agen
<1>1. ticket'[r] # NoTicket
  BY DEF Asked
<1>2. /\ ticket'[r].source = ticket[r].source /\ ticket'[r].fleet = ticket[r].fleet
      /\ ticket'[r].expect = ticket[r].expect /\ Asked(r)
  BY <1>1 DEF SameRequest
<1>3. LET t == ticket[r] IN
      /\ t.fleet \in Fleets /\ src'[t.source].fleet = t.fleet
      /\ t.expect <= auth'[t.fleet].agen
      /\ r \in overtaken' => t.expect < auth'[t.fleet].agen
  BY <1>2, AskedOnward DEF Tickets
<1> QED
  BY <1>2, <1>3

LEMMA TicketsKept ==
  ASSUME TypeOK, Tickets, AgenOnward, SourcesOnward, OvertakenFollows,
         src' \in [Sources -> SourceType], auth' \in [Fleets -> SlotType],
         newest' = newest, \A r \in Runs : SameRequest(r)
  PROVE  Tickets'
<1>1. BoundRuns'
  BY BoundKept, OvertakenWas DEF BoundRuns
<1>2. ASSUME NEW r \in Runs, ticket'[r] # NoTicket
      PROVE  LET t == ticket'[r] IN
             /\ t.fetchGen <= src'[t.source].fetchGen
             /\ t.fetchGen = src'[t.source].fetchGen => newest'[t.source] = r
  <2>1. /\ ticket[r] # NoTicket /\ ticket'[r].source = ticket[r].source
        /\ ticket'[r].fetchGen = ticket[r].fetchGen
    BY <1>2 DEF SameRequest
  <2>2. LET t == ticket[r] IN
        /\ t.fetchGen <= src'[t.source].fetchGen
        /\ t.fetchGen = src'[t.source].fetchGen => newest'[t.source] = r
    BY <2>1, LatestKept DEF Tickets
  <2> QED
    BY <2>1, <2>2
<1> QED
  BY <1>1, <1>2 DEF Tickets, LatestClaim

-----------------------------------------------------------------------------
(* Steps that take slots and rows away.                                     *)

TicketsFall == ticket' = ticket \/ \E r \in Runs : Finished(r)

LEMMA TicketsFallKept ==
  ASSUME TypeOK, TicketsFall
  PROVE  /\ ticket' \in [Runs -> TicketType \union {NoTicket}]
         /\ \A r \in Runs : ticket'[r] # NoTicket => ticket'[r] = ticket[r]
         /\ \A r \in Runs : SameRequest(r)
<1>1. \A r \in Runs : ticket'[r] \in {ticket[r], NoTicket}
  BY DEF TicketsFall, Finished, TypeOK
<1>2. ticket' \in [Runs -> TicketType \union {NoTicket}]
  BY DEF TicketsFall, Finished, TypeOK
<1> QED
  BY <1>1, <1>2 DEF SameRequest, Asked

LEMMA WithdrawalOnward ==
  ASSUME TypeOK, Book, NEW S \in SUBSET Sources, auth' = AuthWithout(S)
  PROVE  AgenOnward
<1>1. ASSUME NEW f \in Fleets
      PROVE  /\ auth'[f].agen >= auth[f].agen
             /\ Holder(auth'[f]) # Holder(auth[f]) => auth'[f].agen > auth[f].agen
  <2>1. auth[f].agen \in Nat
    BY DEF TypeOK, SlotType
  <2>2. CASE auth[f].source \in S
    <3>1. auth'[f].agen = auth[f].agen + 1
      BY <2>2, AuthWithoutSlot
    <3> QED
      BY <2>1, <3>1
  <2>3. CASE auth[f].source \notin S
    <3>1. auth'[f] = auth[f]
      BY <2>3, AuthWithoutSlot
    <3> QED
      BY <2>1, <3>1
  <2> QED
    BY <2>2, <2>3
<1> QED
  BY <1>1 DEF AgenOnward

\* What every such step shares.
LEMMA WithdrawalKeeps ==
  ASSUME FInv, NEW S \in SUBSET Sources,
         src' \in [Sources -> SourceType],
         \A o \in Sources \ S : src'[o] = src[o],
         \A s \in S : Onward(s) /\ src'[s].fetchGen >= src[s].fetchGen,
         auth' = AuthWithout(S), RowsFollow(S), Overtake,
         epoch' \in [Chars -> 0..MaxEpoch], enabled' \in BOOLEAN,
         TicketsFall, newest' = newest
  PROVE  FInv'
<1>1. /\ auth' \in [Fleets -> SlotType]
      /\ row' \in [Chars -> RowType \union {NoRow}]
      /\ Book'
  BY Withdrawal DEF FInv
<1>2. /\ ticket' \in [Runs -> TicketType \union {NoTicket}]
      /\ \A r \in Runs : SameRequest(r)
  BY TicketsFallKept DEF FInv
<1>3. overtaken' \subseteq Runs /\ OvertakenFollows
  BY DEF FInv, TypeOK, Overtake, OvertakenFollows
<1>4. TypeOK'
  BY <1>1, <1>2, <1>3 DEF FInv, TypeOK
<1>5. AgenOnward
  BY WithdrawalOnward DEF FInv
<1>6. SourcesOnward
  <2>1. ASSUME NEW s \in Sources
        PROVE  src'[s].fleet = src[s].fleet /\ src'[s].fetchGen >= src[s].fetchGen
    <3>1. src[s].fetchGen \in Nat
      BY DEF FInv, TypeOK, SourceType
    <3> QED
      BY <3>1 DEF Onward
  <2> QED
    BY <2>1 DEF SourcesOnward
<1>7. Tickets'
  BY <1>1, <1>2, <1>3, <1>5, <1>6, TicketsKept DEF FInv
<1> QED
  BY <1>1, <1>4, <1>7 DEF FInv

LEMMA EndingOnward ==
  ASSUME FInv, NEW S \in SUBSET Sources, \A s \in S : src[s].state \in Live,
         src' = SourcesEnded(S)
  PROVE  /\ src' \in [Sources -> SourceType]
         /\ \A o \in Sources \ S : src'[o] = src[o]
         /\ \A s \in S : Onward(s) /\ src'[s].fetchGen >= src[s].fetchGen
<1>1. ASSUME NEW s \in S
      PROVE  /\ src'[s] \in SourceType
             /\ Onward(s) /\ src'[s].fetchGen >= src[s].fetchGen
  <2>1. src'[s] = Ended(s)
    BY DEF SourcesEnded
  <2>2. src[s] \in SourceType /\ src[s].state # "ended"
    BY DEF FInv, TypeOK, Live
  <2>3. src[s].gen = 1 /\ src[s].fetchGen <= MaxGeneration /\ src[s].fetchGen \in Nat
    BY <2>2 DEF FInv, Book, Bounded, SourceType
  <2>4. /\ Ended(s) \in SourceType /\ Ended(s).state = "ended"
        /\ Ended(s).fleet = src[s].fleet /\ Ended(s).activated = src[s].activated
        /\ Ended(s).fetchGen = src[s].fetchGen + 1
    BY <2>2, <2>3, EndedType
  <2> QED
    BY <2>1, <2>3, <2>4 DEF Onward, Live
<1>2. ASSUME NEW o \in Sources \ S PROVE src'[o] = src[o]
  BY DEF SourcesEnded
<1>3. src' \in [Sources -> SourceType]
  <2>1. src' = [s \in Sources |-> src'[s]]
    BY DEF SourcesEnded
  <2>2. ASSUME NEW s \in Sources PROVE src'[s] \in SourceType
    BY <1>1, <1>2 DEF FInv, TypeOK
  <2> QED
    BY <2>1, <2>2
<1> QED
  BY <1>1, <1>2, <1>3

LEMMA EndAllKeeps ==
  ASSUME FInv, NEW S \in SUBSET Sources, \A s \in S : src[s].state \in Live,
         EndAll(S), UNCHANGED <<epoch, enabled, newest>>, TicketsFall
  PROVE  FInv'
<1>1. /\ src' = SourcesEnded(S) /\ auth' = AuthWithout(S) /\ row' = RowsWithout(S)
      /\ Overtake
  BY DEF EndAll
<1>2. /\ src' \in [Sources -> SourceType]
      /\ \A o \in Sources \ S : src'[o] = src[o]
      /\ \A s \in S : Onward(s) /\ src'[s].fetchGen >= src[s].fetchGen
  BY <1>1, EndingOnward
<1>3. RowsFollow(S)
  BY <1>1 DEF RowsFollow, RowsWithout
<1>4. epoch' \in [Chars -> 0..MaxEpoch] /\ enabled' \in BOOLEAN
  BY DEF FInv, TypeOK
<1> QED
  BY <1>1, <1>2, <1>3, <1>4, WithdrawalKeeps

LEMMA LinkLostKeeps == ASSUME FInv, NEW c \in Chars, LinkLost(c) PROVE FInv'
<1> DEFINE S == LiveOf({s \in Sources : src[s].boss = c})
<1>1. S \in SUBSET Sources /\ \A s \in S : src[s].state \in Live
  BY DEF LiveOf
<1>2. /\ src' = SourcesEnded(S) /\ auth' = AuthWithout(S)
      /\ row' = [RowsWithout(S) EXCEPT ![c] = NoRow]
      /\ Overtake /\ UNCHANGED <<enabled, ticket, newest>>
      /\ epoch' = [epoch EXCEPT ![c] = @ + 1] /\ epoch[c] < MaxEpoch
  BY DEF LinkLost
<1> HIDE DEF S
<1>3. /\ src' \in [Sources -> SourceType]
      /\ \A o \in Sources \ S : src'[o] = src[o]
      /\ \A s \in S : Onward(s) /\ src'[s].fetchGen >= src[s].fetchGen
  BY <1>1, <1>2, EndingOnward
<1>4. RowsFollow(S)
  <2>1. RowsWithout(S) = [d \in Chars |-> RowsWithout(S)[d]]
    BY DEF RowsWithout
  <2>2. ASSUME NEW d \in Chars, row'[d] # NoRow
        PROVE  row'[d] = RowsWithout(S)[d] /\ epoch'[d] = epoch[d]
    BY <1>2, <2>1, <2>2 DEF FInv, TypeOK
  <2>3. row' = [d \in Chars |-> row'[d]]
    BY <1>2, <2>1
  <2> QED
    BY <2>2, <2>3 DEF RowsFollow
<1>5. epoch' \in [Chars -> 0..MaxEpoch]
  BY <1>2 DEF FInv, TypeOK
<1>6. enabled' \in BOOLEAN /\ TicketsFall
  BY <1>2 DEF FInv, TypeOK, TicketsFall
<1> QED
  BY <1>1, <1>2, <1>3, <1>4, <1>5, <1>6, WithdrawalKeeps

\* The drain of every held slot is the withdrawal of every live source.
LEMMA DrainIsWithdrawal ==
  ASSUME TypeOK, Book
  PROVE  AuthWithout(LiveOf(Sources)) =
           [f \in Fleets |-> IF auth[f].source # Nobody THEN Emptied(auth[f]) ELSE auth[f]]
<1>1. ASSUME NEW f \in Fleets
      PROVE  (\E s \in LiveOf(Sources) : Owns(s, f)) <=> auth[f].source # Nobody
  <2>1. ASSUME auth[f].source # Nobody
        PROVE  auth[f].source \in LiveOf(Sources) /\ Owns(auth[f].source, f)
    <3>1. auth[f].source \in Sources
      BY <2>1 DEF TypeOK, SlotType
    <3> QED
      BY <2>1, <3>1 DEF Book, SlotBacked, LiveOf, Live, Owns
  <2>2. ASSUME NEW s \in LiveOf(Sources), Owns(s, f)
        PROVE  auth[f].source # Nobody
    BY <2>2 DEF LiveOf, Owns
  <2> QED
    BY <2>1, <2>2
<1> QED
  BY <1>1 DEF AuthWithout

LEMMA TransitionModeKeeps == ASSUME FInv, TransitionMode PROVE FInv'
<1> DEFINE S == LiveOf(Sources)
<1>1. S \in SUBSET Sources /\ \A s \in S : src[s].state \in Live
  BY DEF LiveOf
<1>2. /\ src' = SourcesEnded(S) /\ row' = [c \in Chars |-> NoRow]
      /\ Overtake /\ UNCHANGED <<epoch, ticket, newest>> /\ enabled' = ~enabled
  BY DEF TransitionMode
<1>3. auth' = AuthWithout(S)
  BY DrainIsWithdrawal DEF TransitionMode, FInv
<1> HIDE DEF S
<1>4. /\ src' \in [Sources -> SourceType]
      /\ \A o \in Sources \ S : src'[o] = src[o]
      /\ \A s \in S : Onward(s) /\ src'[s].fetchGen >= src[s].fetchGen
  BY <1>1, <1>2, EndingOnward
<1>5. RowsFollow(S)
  BY <1>2 DEF RowsFollow
<1>6. enabled' \in BOOLEAN
  BY <1>2, Zenon DEF FInv, TypeOK
<1>7. epoch' \in [Chars -> 0..MaxEpoch] /\ TicketsFall
  BY <1>2 DEF FInv, TypeOK, TicketsFall
<1> QED
  BY <1>1, <1>2, <1>3, <1>4, <1>5, <1>6, <1>7, WithdrawalKeeps

\* A pause, with or without a fetch generation given up.
LEMMA PauseKeeps ==
  ASSUME FInv, NEW s \in Sources, src[s].state \in Live, NEW p \in SourceType,
         src' = [src EXCEPT ![s] = p], p.state = "paused", p.gen = src[s].gen,
         p.fleet = src[s].fleet, p.activated = src[s].activated,
         p.fetchGen >= src[s].fetchGen, p.fetchGen <= MaxGeneration,
         auth' = AuthWithout({s}), row' = RowsWithout({s}), Overtake,
         UNCHANGED <<epoch, enabled, newest>>, TicketsFall
  PROVE  FInv'
<1>1. src' \in [Sources -> SourceType] /\ src'[s] = p
  BY DEF FInv, TypeOK
<1>2. \A o \in Sources \ {s} : src'[o] = src[o]
  BY DEF FInv, TypeOK
<1>3. src[s].gen = 1
  BY DEF FInv, Book, Bounded, Live
<1>4. Onward(s) /\ src'[s].fetchGen >= src[s].fetchGen
  BY <1>1, <1>3 DEF Onward, Live
<1>5. RowsFollow({s})
  BY DEF RowsFollow, RowsWithout
<1>6. epoch' \in [Chars -> 0..MaxEpoch] /\ enabled' \in BOOLEAN
  BY DEF FInv, TypeOK
<1>7. {s} \in SUBSET Sources /\ \A o \in {s} : Onward(o) /\ src'[o].fetchGen >= src[o].fetchGen
  BY <1>4
<1> QED
  BY <1>1, <1>2, <1>5, <1>6, <1>7, WithdrawalKeeps

-----------------------------------------------------------------------------
(* Steps that leave slots and rows with their owners.                       *)

LEMMA QuietKeeps ==
  ASSUME FInv, UNCHANGED <<row, epoch, overtaken, newest>>, enabled' \in BOOLEAN,
         src' \in [Sources -> SourceType], auth' \in [Fleets -> SlotType],
         \A s \in Sources : Quiet(s), \A f \in Fleets : SameSlot(f), SourcesOnward,
         ticket' \in [Runs -> TicketType \union {NoTicket}],
         \A r \in Runs : SameRequest(r)
  PROVE  FInv'
<1>1. TypeOK'
  BY DEF FInv, TypeOK
<1>2. Book'
  BY QuietKeepsBook DEF FInv
<1>3. AgenOnward
  <2>1. \A f \in Fleets : auth[f].agen \in Nat
    BY DEF FInv, TypeOK, SlotType
  <2> QED
    BY <2>1 DEF AgenOnward, SameSlot, Holder
<1>4. Tickets'
  BY <1>3, TicketsKept DEF FInv, OvertakenFollows
<1> QED
  BY <1>1, <1>2, <1>4 DEF FInv

LEMMA TicketStepKeeps ==
  ASSUME FInv, UNCHANGED <<src, auth, row, epoch, enabled, overtaken, newest>>,
         ticket' \in [Runs -> TicketType \union {NoTicket}],
         \A r \in Runs : SameRequest(r)
  PROVE  FInv'
<1>1. \A s \in Sources : Quiet(s)
  BY DEF Quiet, FInv, Book, Bounded
<1>2. SourcesOnward /\ \A f \in Fleets : SameSlot(f)
  <2>1. \A s \in Sources : src[s].fetchGen \in Nat
    BY DEF FInv, TypeOK, SourceType
  <2> QED
    BY <2>1 DEF SourcesOnward, SameSlot
<1>3. enabled' \in BOOLEAN /\ src' \in [Sources -> SourceType] /\ auth' \in [Fleets -> SlotType]
  BY DEF FInv, TypeOK
<1> QED
  BY <1>1, <1>2, <1>3, QuietKeeps

LEMMA RowStepKeeps ==
  ASSUME FInv, UNCHANGED <<src, auth, epoch, enabled, ticket, overtaken, newest>>,
         Book', row' \in [Chars -> RowType \union {NoRow}]
  PROVE  FInv'
BY DEF FInv, TypeOK, Tickets, BoundRuns, LatestClaim, Asked

\* One source changes, and nothing else but perhaps a run that ends.
LEMMA SourceStepKeeps ==
  ASSUME FInv, NEW s \in Sources, NEW p \in SourceType, src' = [src EXCEPT ![s] = p],
         UNCHANGED <<auth, row, epoch, enabled, overtaken, newest>>, TicketsFall,
         p.gen = src[s].gen, p.activated = src[s].activated, p.fleet = src[s].fleet,
         src[s].activated => p.state = src[s].state,
         p.state # "ended" => src[s].state # "ended",
         p.fetchGen = src[s].fetchGen
  PROVE  FInv'
<1>1. src' \in [Sources -> SourceType] /\ src'[s] = p
      /\ \A o \in Sources \ {s} : src'[o] = src[o]
  BY DEF FInv, TypeOK
<1>2. \A o \in Sources : src[o].state # "ended" => src[o].fetchGen <= MaxGeneration
  BY DEF FInv, Book, Bounded
<1>3. \A o \in Sources : Quiet(o)
  BY <1>1, <1>2 DEF Quiet
<1>4. SourcesOnward
  <2>1. \A o \in Sources : src[o].fetchGen \in Nat
    BY DEF FInv, TypeOK, SourceType
  <2> QED
    BY <1>1, <2>1 DEF SourcesOnward
<1>5. \A f \in Fleets : SameSlot(f)
  BY DEF SameSlot
<1>6. /\ ticket' \in [Runs -> TicketType \union {NoTicket}]
      /\ \A r \in Runs : SameRequest(r)
  BY TicketsFallKept DEF FInv
<1>7. enabled' \in BOOLEAN /\ auth' \in [Fleets -> SlotType]
  BY DEF FInv, TypeOK
<1> QED
  BY <1>1, <1>3, <1>4, <1>5, <1>6, <1>7, QuietKeeps

LEMMA DeviceStepKeeps == ASSUME FInv, DeviceStep PROVE FInv'
<1>1. ASSUME NEW s \in Sources, NEW c \in Chars, NEW left \in 1..IntentTime,
             StartSource(s, c, left)
      PROVE  FInv'
  <2> DEFINE p == [src[s] EXCEPT !.state = "pending", !.boss = c, !.epoch = epoch[c],
                                 !.left = left, !.due = TRUE]
  <2>1. src[s] \in SourceType /\ epoch[c] \in 0..MaxEpoch /\ left \in 0..IntentTime
    BY DEF FInv, TypeOK
  <2>2. src' = [src EXCEPT ![s] = p]
    BY <1>1 DEF StartSource
  <2>3. /\ p \in SourceType /\ p.gen = src[s].gen /\ p.activated = src[s].activated
        /\ p.fleet = src[s].fleet /\ p.state = "pending" /\ p.fetchGen = src[s].fetchGen
    BY <2>1 DEF SourceType
  <2>4. src[s].state = "none" /\ ~src[s].activated
    BY <1>1 DEF StartSource, FInv, Book, ActivatedBound
  <2>5. UNCHANGED <<auth, row, epoch, enabled, overtaken, newest>> /\ TicketsFall
    BY <1>1 DEF StartSource, TicketsFall
  <2> HIDE DEF p
  <2> QED
    BY <2>2, <2>3, <2>4, <2>5, SourceStepKeeps
<1>2. ASSUME NEW s \in Sources, StopUnknown(s) PROVE FInv'
  <2> DEFINE p == [src[s] EXCEPT !.state = "ended"]
  <2>1. src[s] \in SourceType
    BY DEF FInv, TypeOK
  <2>2. src' = [src EXCEPT ![s] = p]
    BY <1>2 DEF StopUnknown
  <2>3. /\ p \in SourceType /\ p.gen = src[s].gen /\ p.activated = src[s].activated
        /\ p.fleet = src[s].fleet /\ p.state = "ended" /\ p.fetchGen = src[s].fetchGen
    BY <2>1 DEF SourceType
  <2>4. ~src[s].activated
    BY <1>2 DEF StopUnknown, FInv, Book, ActivatedBound
  <2>5. UNCHANGED <<auth, row, epoch, enabled, overtaken, newest>> /\ TicketsFall
    BY <1>2 DEF StopUnknown, TicketsFall
  <2> HIDE DEF p
  <2> QED
    BY <2>2, <2>3, <2>4, <2>5, SourceStepKeeps
<1>3. ASSUME NEW s \in Sources, StopSource(s) PROVE FInv'
  <2>1. {s} \in SUBSET Sources /\ \A o \in {s} : src[o].state \in Live
    BY <1>3 DEF StopSource
  <2>2. EndAll({s}) /\ UNCHANGED <<epoch, enabled, newest>> /\ TicketsFall
    BY <1>3 DEF StopSource, TicketsFall
  <2> QED
    BY <2>1, <2>2, EndAllKeeps
<1>4. ASSUME NEW c \in Chars, NEW f \in Fleets, Publish(c, f) PROVE FInv'
  <2>1. UNCHANGED <<src, auth, epoch, enabled, ticket, overtaken, newest>>
    BY <1>4 DEF Publish
  <2>2. Book' /\ row' \in [Chars -> RowType \union {NoRow}]
    BY <1>4, PublishKeepsBook DEF FInv
  <2> QED
    BY <2>1, <2>2, RowStepKeeps
<1> QED
  BY <1>1, <1>2, <1>3, <1>4 DEF DeviceStep

LEMMA LossStepKeeps == ASSUME FInv, LossStep PROVE FInv'
<1>1. ASSUME NEW c \in Chars, GrantLost(c) PROVE FInv'
  <2> DEFINE S == LiveOf({s \in Sources : src[s].boss = c})
  <2>1. S \in SUBSET Sources /\ \A s \in S : src[s].state \in Live
    BY DEF LiveOf
  <2>2. EndAll(S) /\ UNCHANGED <<epoch, enabled, newest>> /\ TicketsFall
    BY <1>1 DEF GrantLost, TicketsFall
  <2> HIDE DEF S
  <2> QED
    BY <2>1, <2>2, EndAllKeeps
<1>2. ASSUME NEW c \in Chars, Rotate(c) PROVE FInv'
  <2>1. UNCHANGED <<src, auth, row, epoch, enabled, overtaken, newest>>
    BY <1>2 DEF Rotate
  <2>2. ASSUME NEW q \in Runs
        PROVE  ticket'[q] \in TicketType \union {NoTicket} /\ SameRequest(q)
    <3>1. CASE ticket'[q] = ticket[q]
      BY <3>1 DEF FInv, TypeOK, SameRequest, Asked
    <3>2. CASE ticket[q] # NoTicket /\ ticket'[q] = [ticket[q] EXCEPT !.settled = FALSE]
      <4>1. ticket[q] \in TicketType
        BY <3>2 DEF FInv, TypeOK
      <4> QED
        BY <3>2, <4>1 DEF TicketType, SameRequest, Asked
    <3> QED
      BY <1>2, <3>1, <3>2 DEF Rotate
  <2>3. ticket' \in [Runs -> TicketType \union {NoTicket}]
    BY <1>2, <2>2 DEF Rotate
  <2> QED
    BY <2>1, <2>2, <2>3, TicketStepKeeps
<1> QED
  BY <1>1, <1>2, LinkLostKeeps, TransitionModeKeeps DEF LossStep

-----------------------------------------------------------------------------
(* The steps of a run before it commits.                                    *)

LEMMA AnsweredTicket ==
  ASSUME NEW t \in TicketType, NEW answer \in Answer
  PROVE  LET u == [t EXCEPT !.stage = "answered", !.answer = answer] IN
         /\ u \in TicketType /\ u.stage = "answered" /\ u.answer = answer
         /\ u.source = t.source /\ u.fleet = t.fleet /\ u.expect = t.expect
         /\ u.fetchGen = t.fetchGen
BY DEF TicketType

LEMMA AnswerKeeps ==
  ASSUME FInv, NEW r \in Runs, ticket[r] # NoTicket, NEW answer \in Answer,
         Answered(r, answer), answer.kind = "verified" => ticket[r].stage = "bound",
         UNCHANGED <<src, auth, row, epoch, enabled, overtaken, newest>>
  PROVE  FInv'
<1> DEFINE u == [ticket[r] EXCEPT !.stage = "answered", !.answer = answer]
<1>1. ticket[r] \in TicketType
  BY AsksWithin DEF FInv
<1>2. /\ u \in TicketType /\ u.stage = "answered" /\ u.answer = answer
      /\ u.source = ticket[r].source /\ u.fleet = ticket[r].fleet
      /\ u.expect = ticket[r].expect /\ u.fetchGen = ticket[r].fetchGen
  BY <1>1, AnsweredTicket
<1>3. ticket' = [ticket EXCEPT ![r] = u]
  BY DEF Answered
<1> HIDE DEF u
<1>4. ticket' \in [Runs -> TicketType \union {NoTicket}]
  BY <1>2, <1>3 DEF FInv, TypeOK
<1>5. ASSUME NEW q \in Runs PROVE SameRequest(q)
  <2>1. CASE q = r
    <3>1. ticket'[q] = u
      BY <1>3, <2>1 DEF FInv, TypeOK
    <3> QED
      BY <1>2, <2>1, <3>1 DEF SameRequest, Asked
  <2>2. CASE q # r
    <3>1. ticket'[q] = ticket[q]
      BY <1>3, <2>2 DEF FInv, TypeOK
    <3> QED
      BY <3>1 DEF SameRequest, Asked
  <2> QED
    BY <2>1, <2>2
<1> QED
  BY <1>4, <1>5, TicketStepKeeps

LEMMA AskingKeeps ==
  ASSUME FInv, NEW r \in Runs,
         \/ \E refreshed \in BOOLEAN : GetToken(r, refreshed)
         \/ \E terminal \in BOOLEAN : UpstreamFails(r, terminal)
         \/ \E members \in SUBSET Chars, age \in 0..(EvidenceTime - 1) :
              ReadRoster(r, members, age)
         \/ TokenExpires(r) \/ Die(r)
  PROVE  FInv'
<1>1. ASSUME NEW refreshed \in BOOLEAN, GetToken(r, refreshed) PROVE FInv'
  <2>1. UNCHANGED <<src, auth, row, epoch, enabled, overtaken, newest>>
    BY <1>1 DEF GetToken
  <2>2. ASSUME NEW q \in Runs
        PROVE  ticket'[q] \in TicketType \union {NoTicket} /\ SameRequest(q)
    <3>1. CASE ticket'[q] = ticket[q]
      BY <3>1 DEF FInv, TypeOK, SameRequest, Asked
    <3>2. CASE ticket[q] # NoTicket /\ ticket'[q] = [ticket[q] EXCEPT !.settled = FALSE]
      <4>1. ticket[q] \in TicketType
        BY <3>2 DEF FInv, TypeOK
      <4> QED
        BY <3>2, <4>1 DEF TicketType, SameRequest, Asked
    <3>3. CASE ticket[q] # NoTicket
               /\ ticket'[q] = [ticket[q] EXCEPT !.stage = "token", !.proven = TRUE]
      <4>1. ticket[q] \in TicketType
        BY <3>3 DEF FInv, TypeOK
      <4> QED
        BY <3>3, <4>1 DEF TicketType, SameRequest, Asked
    <3> QED
      BY <1>1, <3>1, <3>2, <3>3 DEF GetToken, SameBoss
  <2>3. ticket' \in [Runs -> TicketType \union {NoTicket}]
    BY <1>1, <2>2 DEF GetToken
  <2> QED
    BY <2>1, <2>2, <2>3, TicketStepKeeps
<1>2. ASSUME NEW terminal \in BOOLEAN, UpstreamFails(r, terminal) PROVE FInv'
  <2>1. [kind |-> "failure", terminal |-> terminal] \in Answer
    BY DEF Answer
  <2> QED
    BY <1>2, <2>1, AnswerKeeps DEF UpstreamFails
<1>3. ASSUME NEW members \in SUBSET Chars, NEW age \in 0..(EvidenceTime - 1),
             ReadRoster(r, members, age)
      PROVE  FInv'
  <2>1. [kind |-> "verified", members |-> members, age |-> age] \in Answer
    BY DEF Answer
  <2> QED
    BY <1>3, <2>1, AnswerKeeps DEF ReadRoster
<1>4. CASE TokenExpires(r)
  <2>1. UNCHANGED <<src, auth, row, epoch, enabled, overtaken, newest>>
    BY <1>4 DEF TokenExpires
  <2>2. ticket[r] # NoTicket /\ ticket' = [ticket EXCEPT ![r].proven = FALSE]
    BY <1>4 DEF TokenExpires
  <2>3. ASSUME NEW q \in Runs
        PROVE  ticket'[q] \in TicketType \union {NoTicket} /\ SameRequest(q)
    <3>1. CASE q # r
      BY <2>2, <3>1 DEF FInv, TypeOK, SameRequest, Asked
    <3>2. CASE q = r
      <4>1. ticket'[q] = [ticket[q] EXCEPT !.proven = FALSE]
        BY <2>2, <3>2 DEF FInv, TypeOK
      <4>2. ticket[q] \in TicketType /\ ticket[q] # NoTicket
        BY <2>2, <3>2 DEF FInv, TypeOK
      <4> QED
        BY <4>1, <4>2 DEF TicketType, SameRequest, Asked
    <3> QED
      BY <3>1, <3>2
  <2>4. ticket' \in [Runs -> TicketType \union {NoTicket}]
    BY <2>2, <2>3 DEF FInv, TypeOK
  <2> QED
    BY <2>1, <2>3, <2>4, TicketStepKeeps
<1>5. CASE Die(r)
  <2>1. TicketsFall /\ UNCHANGED <<src, auth, row, epoch, enabled, overtaken, newest>>
    BY <1>5 DEF Die, TicketsFall
  <2>2. /\ ticket' \in [Runs -> TicketType \union {NoTicket}]
        /\ \A q \in Runs : SameRequest(q)
    BY <2>1, TicketsFallKept DEF FInv
  <2> QED
    BY <2>1, <2>2, TicketStepKeeps
<1> QED
  BY <1>1, <1>2, <1>3, <1>4, <1>5

LEMMA ClaimKeeps ==
  ASSUME FInv, NEW r \in Runs, NEW s \in Sources, NEW g \in 1..2, ClaimFetch(r, s, g)
  PROVE  FInv'
<1>1. src[s].state \in Live /\ UNCHANGED <<epoch, enabled>> /\ src[s] \in SourceType
  BY DEF ClaimFetch, FInv, TypeOK
<1>2. CASE EndAll({s}) /\ UNCHANGED <<ticket, newest>>
  <2>1. {s} \in SUBSET Sources /\ \A o \in {s} : src[o].state \in Live
    BY <1>1
  <2> QED
    BY <1>1, <1>2, <2>1, EndAllKeeps DEF TicketsFall
<1>3. CASE ~ (EndAll({s}) /\ UNCHANGED <<ticket, newest>>)
  <2> DEFINE n == src[s].fetchGen + 1
             p == [src[s] EXCEPT !.fetchGen = n, !.claim = ClaimTime]
             t == [source |-> s, gen |-> g, fetchGen |-> n,
                   stage |-> "claimed", proven |-> FALSE, settled |-> TRUE,
                   fleet |-> src[s].fleet, links |-> {}, expect |-> 0,
                   answer |-> [kind |-> "none"]]
  <2>1. /\ src' = [src EXCEPT ![s] = p] /\ ticket' = [ticket EXCEPT ![r] = t]
        /\ newest' = [newest EXCEPT ![s] = r]
        /\ UNCHANGED <<auth, row, overtaken>> /\ src[s].fetchGen < MaxGeneration
    <3>1. /\ src[s].fetchGen < MaxGeneration
          /\ src' = [src EXCEPT ![s].fetchGen = @ + 1, ![s].claim = ClaimTime]
          /\ ticket' = [ticket EXCEPT ![r] = t]
          /\ newest' = [newest EXCEPT ![s] = r]
          /\ UNCHANGED <<auth, row, overtaken>>
      BY <1>3, Zenon DEF ClaimFetch, LastUsable
    <3> QED
      BY <3>1
  <2>2. src[s].fetchGen \in Nat /\ n <= MaxGeneration /\ n \in 0..(MaxGeneration + 1)
    BY <1>1, <2>1 DEF SourceType
  <2>3. ClaimTime \in 0..ClaimTime
    OBVIOUS
  <2>4. /\ p \in SourceType /\ p.state = src[s].state /\ p.gen = src[s].gen
        /\ p.activated = src[s].activated /\ p.fleet = src[s].fleet /\ p.fetchGen = n
    BY <1>1, <2>2, <2>3 DEF SourceType
  <2>5. t \in TicketType
    <3>1. [kind |-> "none"] \in Answer
      BY DEF Answer
    <3>2. src[s].fleet \in Fleets \union {NoFleet}
      BY <1>1 DEF SourceType
    <3>3. 0 \in 0..(MaxGeneration + 1)
      OBVIOUS
    <3> HIDE DEF n
    <3> QED
      BY <2>2, <3>1, <3>2, <3>3 DEF TicketType
  <2>6. /\ t.stage = "claimed" /\ t.answer.kind = "none" /\ t.source = s
        /\ t.fetchGen = n
    OBVIOUS
  <2> HIDE DEF p, t, n
  <2>7. /\ src' \in [Sources -> SourceType] /\ src'[s] = p
        /\ \A o \in Sources \ {s} : src'[o] = src[o]
    BY <2>1, <2>4 DEF FInv, TypeOK
  <2>8. /\ ticket' \in [Runs -> TicketType \union {NoTicket}] /\ ticket'[r] = t
        /\ \A q \in Runs \ {r} : ticket'[q] = ticket[q]
    BY <2>1, <2>5 DEF FInv, TypeOK
  <2>9. /\ newest' \in [Sources -> Runs \union {Nobody}] /\ newest'[s] = r
        /\ \A o \in Sources \ {s} : newest'[o] = newest[o]
    BY <2>1 DEF FInv, TypeOK
  <2>10. TypeOK'
    BY <1>1, <2>1, <2>7, <2>8, <2>9 DEF FInv, TypeOK
  <2>11. \A o \in Sources : Quiet(o)
    <3>1. \A o \in Sources : src[o].state # "ended" => src[o].fetchGen <= MaxGeneration
      BY DEF FInv, Book, Bounded
    <3> QED
      BY <2>2, <2>4, <2>7, <3>1 DEF Quiet
  <2>12. Book'
    <3>1. \A f \in Fleets : SameSlot(f)
      BY <2>1 DEF SameSlot
    <3> QED
      BY <1>1, <2>1, <2>11, <3>1, QuietKeepsBook DEF FInv
  <2>13. SourcesOnward /\ n > src[s].fetchGen
    <3>1. \A o \in Sources : src[o].fetchGen \in Nat
      BY DEF FInv, TypeOK, SourceType
    <3>2. n > src[s].fetchGen
      BY <2>2 DEF n
    <3>3. src'[s].fetchGen = n /\ src'[s].fleet = src[s].fleet /\ n \in Nat
      BY <2>2, <2>4, <2>7
    <3>4. ASSUME NEW o \in Sources
          PROVE  /\ src'[o].fleet = src[o].fleet \/ src[o].fleet = NoFleet
                 /\ src'[o].fetchGen >= src[o].fetchGen
      <4>1. CASE o = s
        BY <3>1, <3>2, <3>3, <4>1
      <4>2. CASE o # s
        BY <2>7, <3>1, <4>2
      <4> QED
        BY <4>1, <4>2
    <3> QED
      BY <3>2, <3>4 DEF SourcesOnward
  <2>14. AgenOnward /\ auth' \in [Fleets -> SlotType]
    <3>1. \A f \in Fleets : auth[f].agen \in Nat
      BY DEF FInv, TypeOK, SlotType
    <3> QED
      BY <2>1, <3>1 DEF AgenOnward, FInv, TypeOK
  <2>15. BoundRuns'
    <3>1. ASSUME NEW q \in Runs, Asked(q)' PROVE q # r
      BY <2>6, <2>8, <3>1 DEF Asked
    <3>2. ASSUME NEW q \in Runs, q # r PROVE SameRequest(q)
      BY <2>8, <3>2 DEF SameRequest, Asked
    <3>3. ASSUME NEW q \in Runs, Asked(q)'
          PROVE  LET u == ticket'[q] IN
                 /\ u.fleet \in Fleets /\ src'[u.source].fleet = u.fleet
                 /\ u.expect <= auth'[u.fleet].agen
                 /\ q \in overtaken' => u.expect < auth'[u.fleet].agen
      <4>1. SameRequest(q)
        BY <3>1, <3>2, <3>3
      <4> QED
        BY <2>1, <2>13, <2>14, <3>3, <4>1, BoundKept DEF FInv
    <3> QED
      BY <3>3 DEF BoundRuns
  <2>16. ASSUME NEW q \in Runs, ticket'[q] # NoTicket
         PROVE  LET u == ticket'[q] IN
                /\ u.fetchGen <= src'[u.source].fetchGen
                /\ u.fetchGen = src'[u.source].fetchGen => newest'[u.source] = q
    <3>1. CASE q = r
      BY <2>2, <2>4, <2>6, <2>7, <2>8, <2>9, <3>1 DEF n
    <3>2. CASE q # r /\ ticket[q].source = s
      <4>1. ticket'[q] = ticket[q] /\ ticket[q].fetchGen <= src[s].fetchGen
        BY <2>8, <2>16, <3>2 DEF FInv, Tickets, LatestClaim
      <4>2. ticket[q] \in TicketType
        BY <2>16, <4>1, AsksWithin DEF FInv
      <4>3. ticket[q].fetchGen \in Nat
        BY <4>2 DEF TicketType
      <4>4. src'[s].fetchGen = src[s].fetchGen + 1
        BY <2>4, <2>7 DEF n
      <4> QED
        BY <2>2, <3>2, <4>1, <4>3, <4>4
    <3>3. CASE q # r /\ ticket[q].source # s
      <4>1. ticket'[q] = ticket[q] /\ ticket[q] # NoTicket
        BY <2>8, <2>16, <3>3
      <4>2. ticket[q].source \in Sources
        BY <4>1, AsksWithin DEF FInv, TicketType
      <4>3. newest'[ticket[q].source] = newest[ticket[q].source]
        BY <2>9, <3>3, <4>2
      <4>4. LET u == ticket[q] IN
            /\ u.fetchGen <= src'[u.source].fetchGen
            /\ u.fetchGen = src'[u.source].fetchGen => newest'[u.source] = q
        BY <2>7, <2>13, <4>1, <4>3, LatestKept DEF FInv, Tickets
      <4> QED
        BY <4>1, <4>4
    <3> QED
      BY <3>1, <3>2, <3>3
  <2>17. LatestClaim'
    BY <2>16 DEF LatestClaim
  <2> QED
    BY <2>10, <2>12, <2>15, <2>17 DEF FInv, Tickets
<1> QED
  BY <1>2, <1>3

LEMMA BindKeeps ==
  ASSUME FInv, NEW r \in Runs, NEW f \in Fleets, BindFleet(r, f)
  PROVE  FInv'
<1> DEFINE s == ticket[r].source
<1>1. /\ ticket[r] \in TicketType /\ ticket[r] # NoTicket
      /\ UNCHANGED <<epoch, enabled, newest>>
  BY AsksWithin DEF BindFleet, FInv
<1>2. s \in Sources /\ src[s] \in SourceType
  BY <1>1 DEF TicketType, FInv, TypeOK
<1>3. CASE Finished(r) /\ UNCHANGED <<src, auth, row, overtaken>>
  <2>1. TicketsFall
    BY <1>3 DEF TicketsFall
  <2> QED
    BY <1>1, <1>3, <2>1, TicketsFallKept, TicketStepKeeps DEF FInv
<1>4. CASE Current(r) /\ EndAll({s}) /\ Finished(r)
  <2>1. {s} \in SUBSET Sources /\ \A o \in {s} : src[o].state \in Live
    BY <1>2, <1>4 DEF Current
  <2>2. TicketsFall
    BY <1>4 DEF TicketsFall
  <2> QED
    BY <1>1, <1>4, <2>1, <2>2, EndAllKeeps
<1>5. CASE /\ Current(r) /\ src[s].fleet \in {NoFleet, f}
           /\ src' = [src EXCEPT ![s].fleet = f]
           /\ ticket' = [ticket EXCEPT ![r].stage = "bound", ![r].fleet = f,
                ![r].links = {<<c, epoch[c]>> : c \in Chars}, ![r].expect = auth[f].agen]
           /\ overtaken' = overtaken \ {r}
           /\ UNCHANGED <<auth, row>>
  <2> DEFINE p == [src[s] EXCEPT !.fleet = f]
             links == {<<c, epoch[c]>> : c \in Chars}
             t == [ticket[r] EXCEPT !.stage = "bound", !.fleet = f,
                                    !.links = links, !.expect = auth[f].agen]
  <2>1. src' = [src EXCEPT ![s] = p] /\ ticket' = [ticket EXCEPT ![r] = t]
    BY <1>5
  <2>2. /\ p \in SourceType /\ p.state = src[s].state /\ p.gen = src[s].gen
        /\ p.activated = src[s].activated /\ p.fleet = f /\ p.fetchGen = src[s].fetchGen
    BY <1>2 DEF SourceType
  <2>3. links \in SUBSET Links
    BY DEF FInv, TypeOK, Links
  <2>4. auth[f].agen \in 0..(MaxGeneration + 1)
    BY DEF FInv, TypeOK, SlotType
  <2> HIDE DEF links
  <2>5. /\ t \in TicketType /\ t.source = s /\ t.fleet = f /\ t.expect = auth[f].agen
        /\ t.fetchGen = ticket[r].fetchGen
    BY <1>1, <2>3, <2>4 DEF TicketType
  <2> HIDE DEF p, t, s
  <2>6. /\ src' \in [Sources -> SourceType] /\ src'[s] = p
        /\ \A o \in Sources \ {s} : src'[o] = src[o]
    BY <1>2, <2>1, <2>2 DEF FInv, TypeOK
  <2>7. /\ ticket' \in [Runs -> TicketType \union {NoTicket}] /\ ticket'[r] = t
        /\ \A q \in Runs \ {r} : ticket'[q] = ticket[q]
    BY <2>1, <2>5 DEF FInv, TypeOK
  <2>8. TypeOK'
    BY <1>1, <1>5, <2>6, <2>7 DEF FInv, TypeOK
  <2>9. \A o \in Sources : Quiet(o)
    <3>1. \A o \in Sources : src[o].state # "ended" => src[o].fetchGen <= MaxGeneration
      BY DEF FInv, Book, Bounded
    <3>2. src[s].activated => src[s].fleet = f
      BY <1>2, <1>5 DEF FInv, Book, ActivatedBound, s
    <3> QED
      BY <2>2, <2>6, <3>1, <3>2 DEF Quiet
  <2>10. Book'
    <3>1. \A g \in Fleets : SameSlot(g)
      BY <1>5 DEF SameSlot
    <3> QED
      BY <1>1, <1>5, <2>9, <3>1, QuietKeepsBook DEF FInv
  <2>11. SourcesOnward
    <3>1. \A o \in Sources : src[o].fetchGen \in Nat
      BY DEF FInv, TypeOK, SourceType
    <3>2. src[s].fleet \in {NoFleet, f}
      BY <1>5 DEF s
    <3>3. ASSUME NEW o \in Sources
          PROVE  /\ src'[o].fleet = src[o].fleet \/ src[o].fleet = NoFleet
                 /\ src'[o].fetchGen >= src[o].fetchGen
      <4>1. CASE o = s
        BY <2>2, <2>6, <3>1, <3>2, <4>1
      <4>2. CASE o # s
        BY <2>6, <3>1, <4>2
      <4> QED
        BY <4>1, <4>2
    <3> QED
      BY <3>3 DEF SourcesOnward
  <2>12. AgenOnward /\ auth' \in [Fleets -> SlotType] /\ auth[f].agen \in Nat
    <3>1. \A g \in Fleets : auth[g].agen \in Nat
      BY DEF FInv, TypeOK, SlotType
    <3>2. auth' = auth /\ auth \in [Fleets -> SlotType]
      BY <1>5 DEF FInv, TypeOK
    <3>3. ASSUME NEW g \in Fleets
          PROVE  /\ auth'[g].agen >= auth[g].agen
                 /\ Holder(auth'[g]) # Holder(auth[g]) => auth'[g].agen > auth[g].agen
      BY <3>1, <3>2
    <3> QED
      BY <3>1, <3>2, <3>3 DEF AgenOnward
  <2>13. ASSUME NEW q \in Runs, q # r PROVE SameRequest(q)
    BY <2>7, <2>13 DEF SameRequest, Asked
  <2>14. ASSUME NEW q \in Runs, Asked(q)'
         PROVE  LET u == ticket'[q] IN
                /\ u.fleet \in Fleets /\ src'[u.source].fleet = u.fleet
                /\ u.expect <= auth'[u.fleet].agen
                /\ q \in overtaken' => u.expect < auth'[u.fleet].agen
    <3>1. CASE q = r
      <4>1. ticket'[q] = t /\ q \notin overtaken' /\ auth' = auth
        BY <1>5, <2>7, <3>1
      <4>2. t.fleet = f /\ src'[t.source].fleet = f /\ t.expect = auth[f].agen
        BY <2>2, <2>5, <2>6
      <4> QED
        BY <2>12, <4>1, <4>2
    <3>2. CASE q # r
      <4>1. SameRequest(q) /\ (q \in overtaken' => q \in overtaken)
        BY <1>5, <2>13, <3>2
      <4> QED
        BY <2>11, <2>12, <2>14, <4>1, BoundKept DEF FInv
    <3> QED
      BY <3>1, <3>2
  <2>15. ASSUME NEW q \in Runs, ticket'[q] # NoTicket
         PROVE  LET u == ticket'[q] IN
                /\ u.fetchGen <= src'[u.source].fetchGen
                /\ u.fetchGen = src'[u.source].fetchGen => newest'[u.source] = q
    <3>1. /\ ticket[q] # NoTicket /\ ticket'[q].source = ticket[q].source
          /\ ticket'[q].fetchGen = ticket[q].fetchGen
      <4>1. CASE q = r
        BY <1>1, <2>5, <2>7, <4>1 DEF s
      <4>2. CASE q # r
        BY <2>7, <2>15, <4>2
      <4> QED
        BY <4>1, <4>2
    <3>2. newest'[ticket[q].source] = newest[ticket[q].source]
      BY <1>1
    <3>3. LET u == ticket[q] IN
          /\ u.fetchGen <= src'[u.source].fetchGen
          /\ u.fetchGen = src'[u.source].fetchGen => newest'[u.source] = q
      BY <2>6, <2>11, <3>1, <3>2, LatestKept DEF FInv, Tickets
    <3> QED
      BY <3>1, <3>3
  <2> QED
    BY <2>8, <2>10, <2>14, <2>15 DEF FInv, Tickets, BoundRuns, LatestClaim
<1> QED
  BY <1>3, <1>4, <1>5 DEF BindFleet

-----------------------------------------------------------------------------
(* The commit of a run.                                                     *)

LEMMA InstallKeeps ==
  ASSUME FInv, NEW r \in Runs, MayInstall(r), Install(r), Finished(r),
         UNCHANGED <<epoch, enabled, newest>>
  PROVE  FInv'
<1> DEFINE s == ticket[r].source
           f == ticket[r].fleet
<1>1. /\ auth' \in [Fleets -> SlotType]
      /\ auth'[f].source = s /\ auth'[f].sgen = src[s].gen
      /\ auth'[f].agen = GenerationOnInstall(s, f)
      /\ \A g \in Fleets \ {f} : auth'[g] = auth[g]
  BY InstallSlot DEF FInv
<1>2. /\ src' \in [Sources -> SourceType]
      /\ src'[s].fleet = src[s].fleet /\ src'[s].fetchGen = src[s].fetchGen
      /\ \A o \in Displaced(s, f) : /\ src'[o].fleet = src[o].fleet
                                     /\ src'[o].fetchGen = src[o].fetchGen + 1
      /\ \A o \in Sources : o # s /\ o \notin Displaced(s, f) => src'[o] = src[o]
  BY InstallSources DEF FInv
<1>3. Book' /\ row' \in [Chars -> RowType \union {NoRow}]
  BY InstallKeepsBook DEF FInv
<1>4. TicketsFall /\ OvertakenFollows /\ overtaken' \subseteq Runs
  BY DEF TicketsFall, OvertakenFollows, Install, Overtake, FInv, TypeOK
<1>5. /\ ticket' \in [Runs -> TicketType \union {NoTicket}]
      /\ \A q \in Runs : SameRequest(q)
  BY <1>4, TicketsFallKept DEF FInv
<1>6. TypeOK'
  BY <1>1, <1>2, <1>3, <1>4, <1>5 DEF FInv, TypeOK
<1>7. SourcesOnward
  <2>1. \A o \in Sources : src[o].fetchGen \in Nat
    BY DEF FInv, TypeOK, SourceType
  <2> QED
    BY <1>2, <2>1 DEF SourcesOnward
<1>8. AgenOnward
  <2>1. \A g \in Fleets : auth[g].agen \in Nat
    BY DEF FInv, TypeOK, SlotType
  <2>2. f \in Fleets
    BY DEF MayInstall
  <2>3. Owns(s, f) => Holder(auth'[f]) = Holder(auth[f])
    BY <1>1 DEF Owns, Holder
  <2>4. auth'[f].agen = auth[f].agen + (IF Owns(s, f) THEN 0 ELSE 1)
    BY <1>1 DEF GenerationOnInstall, Replaces
  <2> HIDE DEF f, s
  <2>5. ASSUME NEW g \in Fleets
        PROVE  /\ auth'[g].agen >= auth[g].agen
               /\ Holder(auth'[g]) # Holder(auth[g]) => auth'[g].agen > auth[g].agen
    <3>1. CASE g = f
      BY <2>1, <2>3, <2>4, <3>1
    <3>2. CASE g # f
      BY <1>1, <2>1, <3>2
    <3> QED
      BY <3>1, <3>2
  <2> QED
    BY <2>5 DEF AgenOnward
<1>9. Tickets'
  BY <1>1, <1>2, <1>4, <1>5, <1>7, <1>8, TicketsKept DEF FInv
<1> QED
  BY <1>3, <1>6, <1>9 DEF FInv

LEMMA CommitKeeps ==
  ASSUME FInv, NEW r \in Runs, CommitObservation(r)
  PROVE  FInv'
<1> DEFINE s == ticket[r].source
<1>1. /\ ticket[r] \in TicketType /\ ticket[r] # NoTicket /\ ticket[r].stage = "answered"
      /\ UNCHANGED <<epoch, enabled, newest>> /\ Finished(r) /\ TicketsFall
  BY AsksWithin DEF CommitObservation, FInv, TicketsFall
<1>2. s \in Sources /\ src[s] \in SourceType
  BY <1>1 DEF TicketType, FInv, TypeOK
<1>3. CASE UNCHANGED <<src, auth, row, overtaken>>
  BY <1>1, <1>3, TicketsFallKept, TicketStepKeeps DEF FInv
<1>4. CASE Current(r) /\ EndAll({s})
  <2>1. {s} \in SUBSET Sources /\ \A o \in {s} : src[o].state \in Live
    BY <1>2, <1>4 DEF Current
  <2> QED
    BY <1>1, <1>4, <2>1, EndAllKeeps
<1>5. CASE Current(r) /\ Pause(s)
  <2> DEFINE p == [src[s] EXCEPT !.state = "paused", !.claim = NoClaim, !.due = FALSE]
  <2>1. src[s].state \in Live
    BY <1>5 DEF Current
  <2>2. /\ p \in SourceType /\ p.state = "paused" /\ p.gen = src[s].gen
        /\ p.fleet = src[s].fleet /\ p.activated = src[s].activated
        /\ p.fetchGen = src[s].fetchGen
    BY <1>2 DEF SourceType
  <2>3. /\ src' = [src EXCEPT ![s] = p] /\ auth' = AuthWithout({s})
        /\ row' = RowsWithout({s}) /\ Overtake
    BY <1>5 DEF Pause
  <2>4. src[s].fetchGen \in Nat /\ src[s].fetchGen <= MaxGeneration
    BY <1>2, <2>1 DEF SourceType, FInv, Book, Bounded, Live
  <2>5. p.fetchGen >= src[s].fetchGen /\ p.fetchGen <= MaxGeneration
    BY <2>2, <2>4
  <2> HIDE DEF p
  <2> QED
    BY <1>1, <1>2, <2>1, <2>2, <2>3, <2>5, PauseKeeps
<1>6. CASE /\ src' = [src EXCEPT ![s].claim = NoClaim, ![s].due = FALSE]
           /\ UNCHANGED <<auth, row, overtaken>>
  <2> DEFINE p == [src[s] EXCEPT !.claim = NoClaim, !.due = FALSE]
  <2>1. /\ p \in SourceType /\ p.state = src[s].state /\ p.gen = src[s].gen
        /\ p.fleet = src[s].fleet /\ p.activated = src[s].activated
        /\ p.fetchGen = src[s].fetchGen
    BY <1>2 DEF SourceType
  <2>2. src' = [src EXCEPT ![s] = p]
    BY <1>6
  <2>3. UNCHANGED <<auth, row, epoch, enabled, overtaken, newest>>
    BY <1>1, <1>6
  <2> HIDE DEF p, s
  <2> QED
    BY <1>1, <1>2, <2>1, <2>2, <2>3, SourceStepKeeps
<1>7. CASE /\ Current(r) /\ ~Unusable(r) /\ Install(r)
           /\ GenerationOnInstall(s, ticket[r].fleet) <= LastUsable
  <2>1. ticket[r].answer.kind = "verified" /\ src[s].state \in Live
    BY <1>7 DEF Unusable, Verified, Current
  <2>2. Asked(r)
    BY <1>1, <2>1 DEF Asked
  <2>3. ticket[r].fleet \in Fleets /\ src[s].fleet = ticket[r].fleet
    BY <2>2 DEF FInv, Tickets, BoundRuns
  <2>4. MayInstall(r)
    BY <1>1, <1>7, <2>1, <2>3 DEF MayInstall, LastUsable
  <2> QED
    BY <1>1, <1>7, <2>4, InstallKeeps
<1> QED
  BY <1>3, <1>4, <1>5, <1>6, <1>7 DEF CommitObservation

-----------------------------------------------------------------------------
(* Maintenance and time.                                                    *)

LEMMA MaintainKeeps ==
  ASSUME FInv, NEW s \in Sources, Maintain(s)
  PROVE  FInv'
<1>1. /\ src[s].state \in Live /\ src[s] \in SourceType
      /\ UNCHANGED <<epoch, enabled, newest>> /\ TicketsFall
  BY DEF Maintain, FInv, TypeOK, TicketsFall
<1>2. src[s].fetchGen \in Nat /\ src[s].fetchGen <= MaxGeneration
  BY <1>1 DEF SourceType, FInv, Book, Bounded, Live
<1>3. CASE EndAll({s})
  <2>1. {s} \in SUBSET Sources /\ \A o \in {s} : src[o].state \in Live
    BY <1>1
  <2> QED
    BY <1>1, <1>3, <2>1, EndAllKeeps
<1>4. CASE ~EndAll({s})
  <2> DEFINE n == src[s].fetchGen + 1
             q == [src[s] EXCEPT !.state = "paused"]
             u == [q EXCEPT !.claim = NoClaim, !.fetchGen = n]
             p == IF src[s].claim = 0 THEN u ELSE q
  <2>0. /\ src[s].claim = 0 => src[s].fetchGen < LastUsable
        /\ auth' = AuthWithout({s}) /\ row' = RowsWithout({s}) /\ Overtake
        /\ src' = [src EXCEPT ![s] =
             IF src[s].claim = 0
             THEN [@ EXCEPT !.state = "paused", !.claim = NoClaim,
                            !.fetchGen = src[s].fetchGen + 1]
             ELSE [@ EXCEPT !.state = "paused"]]
    BY <1>4, Zenon DEF Maintain
  <2>1. /\ src[s].claim = 0 => src[s].fetchGen < MaxGeneration
        /\ auth' = AuthWithout({s}) /\ row' = RowsWithout({s}) /\ Overtake
    BY <2>0 DEF LastUsable
  <2>2. src' = [src EXCEPT ![s] = p]
    <3>1. CASE src[s].claim = 0
      <4>1. src' = [src EXCEPT ![s] =
               [src[s] EXCEPT !.state = "paused", !.claim = NoClaim, !.fetchGen = n]]
        BY <2>0, <3>1
      <4>2. [src[s] EXCEPT !.state = "paused", !.claim = NoClaim, !.fetchGen = n] = u
        BY <1>1 DEF SourceType
      <4>3. p = u
        BY <3>1
      <4> HIDE DEF p, u
      <4> QED
        BY <4>1, <4>2, <4>3, Zenon
    <3>2. CASE src[s].claim # 0
      BY <2>0, <3>2
    <3> QED
      BY <3>1, <3>2
  <2>3. /\ q \in SourceType /\ q.state = "paused" /\ q.gen = src[s].gen
        /\ q.fleet = src[s].fleet /\ q.activated = src[s].activated
        /\ q.fetchGen = src[s].fetchGen
    BY <1>1 DEF SourceType
  <2>4. /\ src[s].claim = 0 => n \in 0..(MaxGeneration + 1) /\ n <= MaxGeneration
        /\ n >= src[s].fetchGen
    BY <1>2, <2>1
  <2>5. CASE src[s].claim = 0
    <3> HIDE DEF n, q
    <3>1. /\ u \in SourceType /\ u.state = "paused" /\ u.gen = src[s].gen
          /\ u.fleet = src[s].fleet /\ u.activated = src[s].activated
          /\ u.fetchGen = n
      BY <2>3, <2>4, <2>5 DEF SourceType
    <3>2. p = u
      BY <2>5
    <3> HIDE DEF p, u
    <3> QED
      BY <1>1, <2>1, <2>2, <2>4, <2>5, <3>1, <3>2, PauseKeeps
  <2>6. CASE src[s].claim # 0
    <3>1. p = q
      BY <2>6
    <3> HIDE DEF p, q
    <3>2. p.fetchGen >= src[s].fetchGen /\ p.fetchGen <= MaxGeneration
      BY <1>2, <2>3, <3>1
    <3> QED
      BY <1>1, <2>1, <2>2, <2>3, <3>1, <3>2, PauseKeeps
  <2> QED
    BY <2>5, <2>6
<1> QED
  BY <1>3, <1>4

LEMMA WorkerStepKeeps == ASSUME FInv, WorkerStep PROVE FInv'
<1>1. ASSUME NEW s \in Sources, FetchDue(s) PROVE FInv'
  <2> DEFINE p == [src[s] EXCEPT !.due = TRUE]
  <2>1. src' = [src EXCEPT ![s] = p]
    BY <1>1 DEF FetchDue
  <2>2. UNCHANGED <<auth, row, epoch, enabled, overtaken, newest>> /\ TicketsFall
    BY <1>1 DEF FetchDue, TicketsFall
  <2>3. src[s] \in SourceType
    BY DEF FInv, TypeOK
  <2>4. /\ p \in SourceType /\ p.state = src[s].state /\ p.gen = src[s].gen
        /\ p.fleet = src[s].fleet /\ p.activated = src[s].activated
        /\ p.fetchGen = src[s].fetchGen
    BY <2>3 DEF SourceType
  <2> HIDE DEF p
  <2> QED
    BY <2>1, <2>2, <2>4, SourceStepKeeps
<1>2. ASSUME NEW c \in Chars, RowLeaves(c) PROVE FInv'
  <2>1. Book' /\ row' \in [Chars -> RowType \union {NoRow}]
    BY <1>2, RowLeavesKeepsBook DEF FInv
  <2>2. UNCHANGED <<src, auth, epoch, enabled, ticket, overtaken, newest>>
    BY <1>2 DEF RowLeaves
  <2> QED
    BY <2>1, <2>2, RowStepKeeps
<1> QED
  BY <1>1, <1>2, MaintainKeeps DEF WorkerStep

LEMMA TickSource ==
  ASSUME FInv, Tick, NEW s \in Sources
  PROVE  /\ src'[s] \in SourceType
         /\ src'[s].state = src[s].state /\ src'[s].gen = src[s].gen
         /\ src'[s].activated = src[s].activated /\ src'[s].fleet = src[s].fleet
         /\ src'[s].fetchGen = src[s].fetchGen
<1> DEFINE claim == IF src[s].claim = NoClaim THEN NoClaim ELSE Shorter(src[s].claim)
           left == IF src[s].state \in Live THEN Shorter(src[s].left) ELSE src[s].left
<1>1. src'[s] = [src[s] EXCEPT !.claim = claim, !.left = left]
  BY DEF Tick
<1>2. src[s] \in SourceType
  BY DEF FInv, TypeOK
<1>3. claim \in (0..ClaimTime) \union {NoClaim}
  <2>1. src[s].claim \in (0..ClaimTime) \union {NoClaim}
    BY <1>2 DEF SourceType
  <2> QED
    BY <2>1 DEF Shorter
<1>4. left \in 0..IntentTime
  <2>1. src[s].left \in 0..IntentTime
    BY <1>2 DEF SourceType
  <2> QED
    BY <2>1 DEF Shorter
<1> HIDE DEF claim, left
<1> DEFINE p == [src[s] EXCEPT !.claim = claim, !.left = left]
<1>5. p \in SourceType
  BY <1>2, <1>3, <1>4 DEF SourceType
<1>6. /\ p.state = src[s].state /\ p.gen = src[s].gen
      /\ p.activated = src[s].activated /\ p.fleet = src[s].fleet
      /\ p.fetchGen = src[s].fetchGen
  BY <1>2 DEF SourceType
<1>7. src'[s] = p
  BY <1>1
<1> HIDE DEF p
<1> QED
  BY <1>5, <1>6, <1>7

LEMMA TickTicket ==
  ASSUME FInv, Tick, NEW r \in Runs
  PROVE  /\ ticket'[r] \in TicketType \union {NoTicket} /\ SameRequest(r)
         /\ ticket[r] # NoTicket => ticket'[r] # NoTicket
<1>1. CASE ticket'[r] = ticket[r]
  BY <1>1 DEF FInv, TypeOK, SameRequest, Asked
<1>2. CASE /\ ticket[r] # NoTicket /\ ticket[r].answer.kind = "verified"
           /\ ticket'[r] = [ticket[r] EXCEPT !.answer.age = Older(@)]
  <2> DEFINE answer == [ticket[r].answer EXCEPT !.age = Older(@)]
  <2>1. ticket[r] \in TicketType
    BY <1>2, AsksWithin DEF FInv
  <2>2. ticket[r].answer \in
          [kind : {"verified"}, members : SUBSET Chars, age : 0..EvidenceTime]
    BY <1>2, <2>1 DEF TicketType, Answer
  <2>3. Older(ticket[r].answer.age) \in 0..EvidenceTime
    BY <2>2 DEF Older
  <2>4. answer \in Answer /\ answer.kind = "verified"
    BY <2>2, <2>3 DEF Answer
  <2>5. ticket'[r] = [ticket[r] EXCEPT !.answer = answer]
    BY <1>2
  <2> HIDE DEF answer
  <2>6. /\ ticket'[r] \in TicketType /\ ticket'[r].source = ticket[r].source
        /\ ticket'[r].fleet = ticket[r].fleet /\ ticket'[r].expect = ticket[r].expect
        /\ ticket'[r].fetchGen = ticket[r].fetchGen
    BY <2>1, <2>4, <2>5 DEF TicketType
  <2>7. Asked(r)
    BY <1>2 DEF Asked
  <2> QED
    BY <1>2, <2>6, <2>7 DEF SameRequest
<1> QED
  BY <1>1, <1>2 DEF Tick

LEMMA TickKeeps == ASSUME FInv, Tick PROVE FInv'
<1>1. /\ src' = [s \in Sources |-> src'[s]] /\ auth' = [f \in Fleets |-> auth'[f]]
      /\ ticket' = [r \in Runs |-> ticket'[r]]
      /\ UNCHANGED <<row, epoch, enabled, overtaken, newest>>
  BY DEF Tick
<1>2. ASSUME NEW f \in Fleets PROVE auth'[f] \in SlotType /\ SameSlot(f)
  <2>1. auth'[f] = [auth[f] EXCEPT !.age = Older(auth[f].age)] /\ auth[f] \in SlotType
    BY DEF Tick, FInv, TypeOK
  <2>2. Older(auth[f].age) \in 0..EvidenceTime
    BY <2>1 DEF Older, SlotType
  <2> QED
    BY <2>1, <2>2 DEF SlotType, SameSlot
<1>3. ASSUME NEW s \in Sources PROVE Quiet(s)
  <2>1. src[s].state # "ended" => src[s].fetchGen <= MaxGeneration
    BY DEF FInv, Book, Bounded
  <2> QED
    BY <2>1, TickSource DEF Quiet
<1>4. SourcesOnward
  <2>1. \A s \in Sources : src[s].fetchGen \in Nat
    BY DEF FInv, TypeOK, SourceType
  <2> QED
    BY <2>1, TickSource DEF SourcesOnward
<1>5. src' \in [Sources -> SourceType] /\ auth' \in [Fleets -> SlotType]
  <2>1. \A s \in Sources : src'[s] \in SourceType
    BY TickSource
  <2> QED
    BY <1>1, <1>2, <2>1
<1>6. ticket' \in [Runs -> TicketType \union {NoTicket}] /\ \A r \in Runs : SameRequest(r)
  <2>1. \A r \in Runs : ticket'[r] \in TicketType \union {NoTicket} /\ SameRequest(r)
    BY TickTicket
  <2> QED
    BY <1>1, <2>1
<1>7. enabled' \in BOOLEAN
  BY <1>1 DEF FInv, TypeOK
<1> QED
  BY <1>1, <1>2, <1>3, <1>4, <1>5, <1>6, <1>7, QuietKeeps

-----------------------------------------------------------------------------
(* The invariant.                                                           *)

LEMMA InitFInv == Init => FInv
<1> SUFFICES ASSUME Init PROVE FInv
  OBVIOUS
<1>1. NewSource \in SourceType /\ EmptySlot \in SlotType
  BY DEF NewSource, EmptySlot, SourceType, SlotType
<1>2. TypeOK
  BY <1>1 DEF Init, TypeOK
<1>3. /\ \A s \in Sources : src[s] = NewSource
      /\ \A f \in Fleets : auth[f].source = Nobody
  BY DEF Init, EmptySlot
<1>4. Book
  BY <1>3 DEF Init, NewSource, Book, Bounded, ActivatedBound, SlotBacked,
              OneProvedSource, RowsBacked
<1>5. Tickets
  BY DEF Init, Tickets, BoundRuns, LatestClaim, Asked
<1> QED
  BY <1>2, <1>4, <1>5 DEF FInv

LEMMA NextKeepsFInv == FInv /\ [Next]_vars => FInv'
<1> SUFFICES ASSUME FInv, [Next]_vars PROVE FInv'
  OBVIOUS
<1>1. ASSUME NEW r \in Runs, RunStep(r) PROVE FInv'
  BY <1>1, ClaimKeeps, AskingKeeps, BindKeeps, CommitKeeps DEF RunStep
<1>2. CASE UNCHANGED vars
  BY <1>2 DEF vars, FInv, TypeOK, Book, Bounded, ActivatedBound, SlotBacked,
              OneProvedSource, RowsBacked, Tickets, BoundRuns, LatestClaim, Asked
<1> QED
  BY <1>1, <1>2, DeviceStepKeeps, LossStepKeeps, WorkerStepKeeps, TickKeeps DEF Next

\* The inductive invariant of sources, slots, rows and runs.
THEOREM Invariance == Spec => []FInv
BY InitFInv, NextKeepsFInv, PTL DEF Spec

\* Every counter fits its column, whatever the limits are.
THEOREM TypeCorrect == Spec => []TypeOK
<1>1. FInv => TypeOK
  BY DEF FInv
<1> QED BY <1>1, Invariance, PTL

\* No slot is held without an active consent of the generation that filled it.
THEOREM AuthorityNeedsConsent == Spec => []SlotBacked
<1>1. FInv => SlotBacked
  BY DEF FInv, Book
<1> QED BY <1>1, Invariance, PTL

\* A fleet never has two proved consents, the paused ones included.
THEOREM OneConsentPerFleet == Spec => []OneProvedSource
<1>1. FInv => OneProvedSource
  BY DEF FInv, Book
<1> QED BY <1>1, Invariance, PTL

\* No row outlives the authority under which it was published.
THEOREM RowsNeedAuthority == Spec => []RowsBacked
<1>1. FInv => RowsBacked
  BY DEF FInv, Book
<1> QED BY <1>1, Invariance, PTL

-----------------------------------------------------------------------------
(* What a step does to the slots, and what the end of a run does.           *)

\* Run r, still the one its source is waiting for, fills its fleet's slot.
Fills(r) == /\ Current(r) /\ Asked(r) /\ MayInstall(r) /\ SlotAsSeen(r)
            /\ Install(r) /\ Finished(r)
Withdrawn == \E S \in SUBSET Sources : auth' = AuthWithout(S)

LEMMA CommitSlot ==
  ASSUME FInv, NEW r \in Runs, CommitObservation(r)
  PROVE  UNCHANGED auth \/ Withdrawn \/ Fills(r)
<1> DEFINE s == ticket[r].source
<1>1. /\ ticket[r] \in TicketType /\ ticket[r] # NoTicket /\ Finished(r)
      /\ s \in Sources
  BY AsksWithin DEF CommitObservation, FInv, TicketType
<1>2. CASE EndAll({s}) \/ Pause(s)
  BY <1>1, <1>2 DEF EndAll, Pause, Withdrawn
<1>3. CASE /\ Current(r) /\ ~Unusable(r) /\ SlotAsSeen(r) /\ Install(r)
           /\ GenerationOnInstall(s, ticket[r].fleet) <= LastUsable
  <2>1. ticket[r].answer.kind = "verified" /\ src[s].state \in Live
    BY <1>3 DEF Unusable, Verified, Current
  <2>2. Asked(r)
    BY <1>1, <2>1 DEF Asked
  <2>3. ticket[r].fleet \in Fleets /\ src[s].fleet = ticket[r].fleet
    BY <2>2 DEF FInv, Tickets, BoundRuns
  <2>4. MayInstall(r)
    BY <1>1, <1>3, <2>1, <2>3 DEF MayInstall, LastUsable
  <2> QED
    BY <1>1, <1>3, <2>2, <2>4 DEF Fills
<1> QED
  BY <1>2, <1>3 DEF CommitObservation

LEMMA SlotSteps ==
  ASSUME FInv, [Next]_vars
  PROVE  UNCHANGED auth \/ Withdrawn \/ Tick \/ \E r \in Runs : Fills(r)
<1>1. ASSUME NEW S \in SUBSET Sources, EndAll(S) PROVE Withdrawn
  BY <1>1 DEF EndAll, Withdrawn
<1>2. \A c \in Chars : LiveOf({s \in Sources : src[s].boss = c}) \in SUBSET Sources
  BY DEF LiveOf
<1>3. CASE DeviceStep
  <2>1. ASSUME NEW s \in Sources, StopSource(s) PROVE Withdrawn
    <3>1. EndAll({s}) /\ {s} \in SUBSET Sources
      BY <2>1 DEF StopSource
    <3> QED
      BY <1>1, <3>1
  <2>2. ASSUME NEW s \in Sources, NEW c \in Chars, NEW left, StartSource(s, c, left)
        PROVE  UNCHANGED auth
    BY <2>2 DEF StartSource
  <2>3. ASSUME NEW s \in Sources, StopUnknown(s) PROVE UNCHANGED auth
    BY <2>3 DEF StopUnknown
  <2>4. ASSUME NEW c \in Chars, NEW f \in Fleets, Publish(c, f) PROVE UNCHANGED auth
    BY <2>4 DEF Publish
  <2> QED
    BY <1>3, <2>1, <2>2, <2>3, <2>4 DEF DeviceStep
<1>4. CASE LossStep
  <2>1. ASSUME NEW c \in Chars, GrantLost(c) PROVE Withdrawn
    BY <1>1, <1>2, <2>1 DEF GrantLost
  <2>2. ASSUME NEW c \in Chars, LinkLost(c) PROVE Withdrawn
    BY <1>2, <2>2 DEF LinkLost, Withdrawn
  <2>3. ASSUME TransitionMode PROVE Withdrawn
    <3>1. auth' = AuthWithout(LiveOf(Sources))
      BY <2>3, DrainIsWithdrawal DEF TransitionMode, FInv
    <3>2. LiveOf(Sources) \in SUBSET Sources
      BY DEF LiveOf
    <3> QED
      BY <3>1, <3>2 DEF Withdrawn
  <2> QED
    BY <1>4, <2>1, <2>2, <2>3 DEF LossStep, Rotate
<1>5. ASSUME NEW r \in Runs, RunStep(r) PROVE UNCHANGED auth \/ Withdrawn \/ Fills(r)
  <2>1. ASSUME NEW s \in Sources, NEW g \in 1..2, ClaimFetch(r, s, g)
        PROVE  UNCHANGED auth \/ Withdrawn
    <3>1. UNCHANGED auth \/ EndAll({s})
      BY <2>1 DEF ClaimFetch
    <3> QED
      BY <1>1, <3>1
  <2>2. ASSUME NEW f \in Fleets, BindFleet(r, f) PROVE UNCHANGED auth \/ Withdrawn
    <3>1. ticket[r].source \in Sources
      BY <2>2, AsksWithin DEF BindFleet, FInv, TicketType
    <3>2. UNCHANGED auth \/ EndAll({ticket[r].source})
      BY <2>2 DEF BindFleet
    <3> QED
      BY <1>1, <3>1, <3>2
  <2> QED
    BY <1>5, <2>1, <2>2, CommitSlot
       DEF RunStep, GetToken, UpstreamFails, ReadRoster, TokenExpires, Die
<1>6. CASE WorkerStep
  <2>1. ASSUME NEW s \in Sources, Maintain(s) PROVE Withdrawn
    <3>1. EndAll({s}) \/ auth' = AuthWithout({s})
      BY <2>1 DEF Maintain
    <3> QED
      BY <1>1, <3>1 DEF Withdrawn
  <2> QED
    BY <1>6, <2>1 DEF WorkerStep, FetchDue, RowLeaves
<1>7. CASE UNCHANGED vars
  BY <1>7 DEF vars
<1> QED
  BY <1>3, <1>4, <1>5, <1>6, <1>7 DEF Next

\* A withdrawal empties a slot, with a new generation, or leaves it.
LEMMA WithdrawnSlot ==
  ASSUME FInv, Withdrawn, NEW f \in Fleets
  PROVE  \/ auth'[f] = auth[f]
         \/ /\ auth[f].source # Nobody /\ auth'[f].source = Nobody
            /\ auth'[f].agen = auth[f].agen + 1
<1>1. PICK S \in SUBSET Sources : auth' = AuthWithout(S)
  BY DEF Withdrawn
<1>2. auth[f].source \in S => auth[f].source # Nobody
  BY <1>1
<1> QED
  BY <1>1, <1>2, AuthWithoutSlot DEF FInv

-----------------------------------------------------------------------------
(* Action properties.                                                       *)

\* Of any number of runs, one that was overtaken since it asked fills no slot.
THEOREM OvertakenRunsAreHarmless == Spec => OvertakenRunsInstallNothing
<1>1. ASSUME FInv, [Next]_vars
      PROVE  \A r \in overtaken :
               (Bound(r) /\ ticket[r].fleet # NoFleet /\ ticket'[r] = NoTicket) =>
               LET f == ticket[r].fleet IN auth'[f].source # Nobody => auth'[f] = auth[f]
  <2> SUFFICES ASSUME NEW r \in overtaken, Bound(r), ticket[r].fleet # NoFleet,
                      ticket'[r] = NoTicket, auth'[ticket[r].fleet].source # Nobody
               PROVE  auth'[ticket[r].fleet] = auth[ticket[r].fleet]
    OBVIOUS
  <2>1. r \in Runs /\ ticket[r] # NoTicket
    BY <1>1 DEF FInv, TypeOK, Bound
  <2>2. ticket[r].fleet \in Fleets
    BY <1>1, <2>1, AsksWithin DEF FInv, TicketType
  <2>3. CASE Withdrawn
    BY <1>1, <2>2, <2>3, WithdrawnSlot
  <2>4. ~Tick
    BY <1>1, <2>1, TickTicket
  <2>5. ASSUME NEW q \in Runs, Fills(q) PROVE FALSE
    <3>1. ticket' = [ticket EXCEPT ![q] = NoTicket]
      BY <2>5 DEF Fills, Finished
    <3>2. q = r
      BY <1>1, <2>1, <3>1 DEF FInv, TypeOK
    <3>3. Asked(r) /\ SlotAsSeen(r)
      BY <2>5, <3>2 DEF Fills
    <3>4. ticket[r].expect < auth[ticket[r].fleet].agen
      BY <1>1, <2>1, <3>3 DEF FInv, Tickets, BoundRuns
    <3>5. auth[ticket[r].fleet].agen = ticket[r].expect
      BY <3>3 DEF SlotAsSeen
    <3>6. ticket[r].expect \in Nat
      BY <1>1, <2>1, AsksWithin DEF FInv, TicketType
    <3> QED
      BY <3>4, <3>5, <3>6
  <2> QED
    BY <1>1, <2>2, <2>3, <2>4, <2>5, SlotSteps
<1> QED
  BY <1>1, Invariance, PTL DEF Spec, OvertakenRunsInstallNothing

\* While a slot keeps its holder only fresher evidence takes the place of what
\* it has, however often a cached answer comes back.
THEOREM EvidenceOnlyAges == Spec => NoEvidenceReplayed
<1>1. ASSUME FInv, [Next]_vars
      PROVE  Tick \/ \A f \in Fleets :
               /\ auth[f].source # Nobody
               /\ auth'[f].source = auth[f].source /\ auth'[f].sgen = auth[f].sgen
               /\ auth'[f] # auth[f]
               => auth'[f].age < auth[f].age
  <2> SUFFICES ASSUME ~Tick, NEW f \in Fleets, auth[f].source # Nobody,
                      auth'[f].source = auth[f].source, auth'[f] # auth[f]
               PROVE  auth'[f].age < auth[f].age
    OBVIOUS
  <2>1. ~Withdrawn
    BY <1>1, WithdrawnSlot
  <2>2. PICK r \in Runs : Fills(r)
    BY <1>1, <2>1, SlotSteps
  <2>3. /\ f = ticket[r].fleet
        /\ auth'[f].age = ticket[r].answer.age
    BY <1>1, <2>2, InstallSlot DEF Fills, FInv
  <2>4. auth[f].age > ticket[r].answer.age
    BY <2>2, <2>3 DEF Fills, SlotAsSeen
  <2>5. auth[f].age \in Nat
    BY <1>1 DEF FInv, TypeOK, SlotType
  <2>6. ticket[r].answer.age \in Nat
    BY <2>2 DEF Fills, MayInstall, TicketType, Answer
  <2> QED
    BY <2>3, <2>4, <2>5, <2>6
<1> QED
  BY <1>1, Invariance, PTL DEF Spec, NoEvidenceReplayed

\* Binding or committing does something only for a run that is current, and
\* ends it unless it has been bound.
LEMMA CommitEnds ==
  ASSUME NEW r \in Runs, CommitObservation(r), ~ UNCHANGED <<src, auth, row>>
  PROVE  Current(r) /\ Finished(r)
<1>1. Current(r)
  BY DEF CommitObservation
<1>2. Finished(r)
  BY DEF CommitObservation
<1> QED
  BY <1>1, <1>2

LEMMA BindEnds ==
  ASSUME FInv, NEW r \in Runs, NEW f \in Fleets, BindFleet(r, f),
         ~ UNCHANGED <<src, auth, row>>
  PROVE  \/ Current(r) /\ Finished(r)
         \/ \A q \in Runs : ticket[q] # NoTicket => ticket'[q] # NoTicket
<1> DEFINE links == {<<c, epoch[c]>> : c \in Chars}
           t == [ticket[r] EXCEPT !.stage = "bound", !.fleet = f,
                                  !.links = links, !.expect = auth[f].agen]
<1>1. ticket[r] \in TicketType
  BY AsksWithin DEF BindFleet, FInv
<1>2. CASE ticket' = [ticket EXCEPT ![r].stage = "bound", ![r].fleet = f,
             ![r].links = {<<c, epoch[c]>> : c \in Chars}, ![r].expect = auth[f].agen]
  <2>1. ticket' = [ticket EXCEPT ![r] = t]
    BY <1>2
  <2>2. links \in SUBSET Links
    BY DEF FInv, TypeOK, Links
  <2>3. auth[f].agen \in 0..(MaxGeneration + 1)
    BY DEF FInv, TypeOK, SlotType
  <2> HIDE DEF links
  <2>4. t \in TicketType
    BY <1>1, <2>2, <2>3 DEF TicketType
  <2> HIDE DEF t
  <2>5. ASSUME NEW q \in Runs, ticket[q] # NoTicket PROVE ticket'[q] # NoTicket
    <3>1. CASE q = r
      BY <2>1, <2>4, <3>1 DEF FInv, TypeOK
    <3>2. CASE q # r
      BY <2>1, <2>5, <3>2 DEF FInv, TypeOK
    <3> QED
      BY <3>1, <3>2
  <2> QED
    BY <2>5
<1>3. CASE Current(r) /\ Finished(r)
  BY <1>3
<1> QED
  BY <1>2, <1>3 DEF BindFleet

\* Of the runs at work on a source, only the one that claimed it last has any
\* effect when it ends, however long the others were held up.
THEOREM LatestClaimDecides == Spec => OnlyLatestClaimCounts
<1>1. ASSUME FInv, [Next]_vars
      PROVE  \A r \in Runs :
               (/\ ticket[r] # NoTicket /\ ticket'[r] = NoTicket
                /\ <<src, auth, row>>' # <<src, auth, row>>)
               => newest[ticket[r].source] = r
  <2> SUFFICES ASSUME NEW r \in Runs, ticket[r] # NoTicket, ticket'[r] = NoTicket,
                      ~ UNCHANGED <<src, auth, row>>
               PROVE  newest[ticket[r].source] = r
    OBVIOUS
  <2>1. ~ UNCHANGED ticket
    OBVIOUS
  <2>2. ~Tick
    BY <1>1, TickTicket
  <2>3. PICK q \in Runs : RunStep(q)
    <3>1. ~DeviceStep
      <4>1. \A s \in Sources : \A c \in Chars : \A left : ~StartSource(s, c, left)
        BY <2>1 DEF StartSource
      <4>2. \A s \in Sources : ~StopUnknown(s) /\ ~StopSource(s)
        BY <2>1 DEF StopUnknown, StopSource
      <4>3. \A c \in Chars, f \in Fleets : ~Publish(c, f)
        BY <2>1 DEF Publish
      <4> QED
        BY <4>1, <4>2, <4>3 DEF DeviceStep
    <3>2. ~LossStep
      <4>1. \A c \in Chars : ~GrantLost(c) /\ ~LinkLost(c)
        BY <2>1 DEF GrantLost, LinkLost
      <4>2. \A c \in Chars : ~Rotate(c)
        BY DEF Rotate
      <4>3. ~TransitionMode
        BY <2>1 DEF TransitionMode
      <4> QED
        BY <4>1, <4>2, <4>3 DEF LossStep
    <3>3. ~WorkerStep
      BY <2>1 DEF WorkerStep, Maintain, FetchDue, RowLeaves
    <3>4. ~ UNCHANGED vars
      BY <2>1 DEF vars
    <3> QED
      BY <1>1, <2>2, <3>1, <3>2, <3>3, <3>4 DEF Next
  <2>4. ASSUME NEW o \in Sources, NEW g \in 1..2, ClaimFetch(q, o, g) PROVE FALSE
    <3>1. ticket[q] = NoTicket /\ \A p \in Runs \ {q} : ticket'[p] = ticket[p]
      BY <1>1, <2>4 DEF ClaimFetch, FInv, TypeOK
    <3>2. q # r
      BY <3>1
    <3> QED
      BY <3>1, <3>2
  <2>5. Current(q) /\ Finished(q)
    <3>1. CASE CommitObservation(q)
      BY <3>1, CommitEnds
    <3>2. ASSUME NEW f \in Fleets, BindFleet(q, f) PROVE Current(q) /\ Finished(q)
      BY <1>1, <3>2, BindEnds
    <3> QED
      BY <2>3, <2>4, <3>1, <3>2
         DEF RunStep, GetToken, UpstreamFails, ReadRoster, TokenExpires, Die
  <2>6. q = r
    BY <1>1, <2>5 DEF Finished, FInv, TypeOK
  <2>7. ticket[r].fetchGen = src[ticket[r].source].fetchGen
    BY <2>5, <2>6 DEF Current
  <2> QED
    BY <1>1, <2>7 DEF FInv, Tickets, LatestClaim
<1> QED
  BY <1>1, Invariance, PTL DEF Spec, OnlyLatestClaimCounts

-----------------------------------------------------------------------------
(* The slots keep the promise of FencedSlot.                                *)

\* The slots as FencedSlot sees them.
HolderOf(f) == IF auth[f].source = Nobody THEN Nobody
               ELSE <<auth[f].source, auth[f].sgen>>
\* A step of the abstract slots.
Steps == \/ \E f \in Fleets, h \in Sources \X (1..2) :
              /\ HolderOf(f) # h /\ HolderOf(f)' = h
              /\ auth'[f].agen = auth[f].agen + 1
              /\ \A g \in Fleets \ {f} : /\ HolderOf(g)' = HolderOf(g)
                                         /\ auth'[g].agen = auth[g].agen
         \/ \E F \in SUBSET Fleets : \A f \in Fleets :
              /\ f \in F => HolderOf(f) # Nobody
              /\ HolderOf(f)' = IF f \in F THEN Nobody ELSE HolderOf(f)
              /\ auth'[f].agen = IF f \in F THEN auth[f].agen + 1 ELSE auth[f].agen

LEMMA StepsAreFenced ==
  ASSUME Steps, TypeOK'
  PROVE  [Fenced!Next]_(Fenced!slotVars)
<1>0. \A g \in Fleets : [f \in Fleets |-> auth'[f].agen][g] <= MaxGeneration + 1
  <2>1. ASSUME NEW g \in Fleets PROVE auth'[g].agen <= MaxGeneration + 1
    <3>1. auth'[g] \in SlotType
      BY DEF TypeOK
    <3> QED
      BY <3>1, FleetSourceAssumption DEF SlotType
  <2> QED
    BY <2>1
<1>1. CASE \E f \in Fleets, h \in Sources \X (1..2) :
              /\ HolderOf(f) # h /\ HolderOf(f)' = h
              /\ auth'[f].agen = auth[f].agen + 1
              /\ \A g \in Fleets \ {f} : /\ HolderOf(g)' = HolderOf(g)
                                         /\ auth'[g].agen = auth[g].agen
  <2>1. PICK f \in Fleets, h \in Sources \X (1..2) :
              /\ HolderOf(f) # h /\ HolderOf(f)' = h
              /\ auth'[f].agen = auth[f].agen + 1
              /\ \A g \in Fleets \ {f} : /\ HolderOf(g)' = HolderOf(g)
                                         /\ auth'[g].agen = auth[g].agen
    BY <1>1
  <2>2. [g \in Fleets |-> HolderOf(g)'] =
          [[g \in Fleets |-> HolderOf(g)] EXCEPT ![f] = h]
    <3>1. \A g \in Fleets : HolderOf(g)' = IF g = f THEN h ELSE HolderOf(g)
      BY <2>1
    <3> QED
      BY <3>1, Zenon
  <2>3. [g \in Fleets |-> auth'[g].agen] =
          [[g \in Fleets |-> auth[g].agen] EXCEPT ![f] = auth[f].agen + 1]
    BY <2>1
  <2>4. HolderOf(f) # h /\ f \in Fleets
    BY <2>1
  <2>5. [g \in Fleets |-> auth[g].agen][f] = auth[f].agen
    BY <2>4
  <2>6. Fenced!Changes(f, h)
    BY <2>2, <2>3, <2>4, <2>5, Zenon DEF Fenced!Changes, HolderOf
  <2> QED
    BY <1>0, <2>6 DEF Fenced!Next, Fenced!Acquire
<1>2. ASSUME NEW F \in SUBSET Fleets,
             \A f \in Fleets :
              /\ f \in F => HolderOf(f) # Nobody
              /\ HolderOf(f)' = IF f \in F THEN Nobody ELSE HolderOf(f)
              /\ auth'[f].agen = IF f \in F THEN auth[f].agen + 1 ELSE auth[f].agen
      PROVE  [Fenced!Next]_(Fenced!slotVars)
  <2>1. CASE F = {}
    BY <1>2, <2>1 DEF Fenced!slotVars, HolderOf
  <2>2. CASE F # {}
    <3>1. Fenced!Withdraw(F)
      BY <1>2, <2>2 DEF Fenced!Withdraw, HolderOf
    <3> QED
      BY <1>0, <3>1 DEF Fenced!Next
  <2> QED
    BY <2>1, <2>2
<1> QED
  BY <1>1, <1>2 DEF Steps

LEMMA WithdrawnSteps == ASSUME FInv, Withdrawn PROVE Steps
<1> DEFINE F == {f \in Fleets : auth[f].source # Nobody /\ auth'[f].source = Nobody}
<1>1. ASSUME NEW f \in Fleets
      PROVE  /\ f \in F => HolderOf(f) # Nobody
             /\ HolderOf(f)' = IF f \in F THEN Nobody ELSE HolderOf(f)
             /\ auth'[f].agen = IF f \in F THEN auth[f].agen + 1 ELSE auth[f].agen
  <2>1. CASE f \in F
    <3>1. auth'[f] # auth[f]
      BY <2>1
    <3>2. auth'[f].agen = auth[f].agen + 1
      BY <3>1, WithdrawnSlot
    <3>3. HolderOf(f)' = Nobody
      BY <2>1 DEF HolderOf
    <3>4. HolderOf(f) # Nobody
      <4>1. /\ auth[f].source \in Sources /\ auth[f].sgen \in 1..2
        BY <2>1 DEF FInv, TypeOK, SlotType
      <4>2. HolderOf(f) \in Sources \X (1..2)
        BY <2>1, <4>1 DEF HolderOf
      <4> QED
        BY <4>2
    <3> QED
      BY <2>1, <3>2, <3>3, <3>4
  <2>2. CASE f \notin F
    <3>1. auth'[f] = auth[f]
      BY <2>2, WithdrawnSlot
    <3> QED
      BY <2>2, <3>1 DEF HolderOf
  <2> QED
    BY <2>1, <2>2
<1>2. F \in SUBSET Fleets
  OBVIOUS
<1> HIDE DEF F
<1> QED
  BY <1>1, <1>2 DEF Steps

LEMMA SameHolders ==
  ASSUME \A f \in Fleets : HolderOf(f)' = HolderOf(f) /\ auth'[f].agen = auth[f].agen
  PROVE  Steps
<1>1. {} \in SUBSET Fleets
  OBVIOUS
<1> QED
  BY <1>1 DEF Steps

LEMMA FillsSteps == ASSUME FInv, NEW r \in Runs, Fills(r) PROVE Steps
<1>0. SUFFICES ASSUME NEW s, NEW f, s = ticket[r].source, f = ticket[r].fleet,
                      NEW h, h = <<s, src[s].gen>>
               PROVE  Steps
  OBVIOUS
<1>1. /\ auth'[f].source = s /\ auth'[f].sgen = src[s].gen
      /\ auth'[f].agen = GenerationOnInstall(s, f)
      /\ \A g \in Fleets \ {f} : auth'[g] = auth[g]
  BY <1>0, InstallSlot DEF Fills, FInv
<1>2. f \in Fleets /\ s \in Sources
  BY <1>0 DEF Fills, MayInstall, TicketType
<1>3. h \in Sources \X (1..2)
  <2>1. src[s].gen \in 1..2
    BY <1>2 DEF FInv, TypeOK, SourceType
  <2> QED
    BY <1>0, <1>2, <2>1
<1>4. auth[f].agen \in Nat
  BY <1>2 DEF FInv, TypeOK, SlotType
<1>5. \A g \in Fleets \ {f} : HolderOf(g)' = HolderOf(g) /\ auth'[g].agen = auth[g].agen
  BY <1>1 DEF HolderOf
<1>6. s # Nobody
  BY <1>2
<1>7. HolderOf(f)' = h
  BY <1>0, <1>1, <1>6 DEF HolderOf
<1>8. CASE Owns(s, f)
  <2>1. HolderOf(f) = h
    BY <1>0, <1>6, <1>8 DEF HolderOf, Owns
  <2>2. auth'[f].agen = auth[f].agen
    BY <1>1, <1>4, <1>8 DEF GenerationOnInstall, Replaces
  <2> QED
    BY <1>5, <1>7, <2>1, <2>2, SameHolders
<1>9. CASE ~Owns(s, f)
  <2>1. HolderOf(f) # h
    <3>1. CASE auth[f].source = Nobody
      BY <1>3, <3>1 DEF HolderOf
    <3>2. CASE auth[f].source # Nobody
      BY <1>0, <1>9, <3>2 DEF HolderOf, Owns
    <3> QED
      BY <3>1, <3>2
  <2>2. auth'[f].agen = auth[f].agen + 1
    BY <1>1, <1>9 DEF GenerationOnInstall, Replaces
  <2> QED
    BY <1>2, <1>3, <1>5, <1>7, <2>1, <2>2 DEF Steps
<1> QED
  BY <1>8, <1>9

(* For any number of runs, sources and fleets, and any limits, every change *)
(* of a slot's holder shows in its generation.                              *)
THEOREM GenerationsFence == Spec => SlotsAreFenced
<1>1. Init => Fenced!Init
  BY DEF Init, EmptySlot, Fenced!Init
<1>2. ASSUME FInv, FInv', [Next]_vars PROVE [Fenced!Next]_(Fenced!slotVars)
  <2>1. ASSUME Tick \/ UNCHANGED auth PROVE Steps
    <3>1. ASSUME NEW f \in Fleets
          PROVE  HolderOf(f)' = HolderOf(f) /\ auth'[f].agen = auth[f].agen
      <4>1. auth[f] \in SlotType
        BY <1>2 DEF FInv, TypeOK
      <4>2. /\ auth'[f].source = auth[f].source /\ auth'[f].sgen = auth[f].sgen
            /\ auth'[f].agen = auth[f].agen
        <5>1. CASE Tick
          <6>1. auth'[f] = [auth[f] EXCEPT !.age = Older(auth[f].age)]
            BY <5>1 DEF Tick
          <6> QED
            BY <4>1, <6>1 DEF SlotType
        <5> QED
          BY <2>1, <5>1
      <4> QED
        BY <4>2 DEF HolderOf
    <3> QED
      BY <3>1, SameHolders
  <2>2. Steps
    BY <1>2, <2>1, WithdrawnSteps, FillsSteps, SlotSteps
  <2> QED
    BY <1>2, <2>2, StepsAreFenced DEF FInv
<1> QED
  BY <1>1, <1>2, Invariance, PTL DEF Spec, SlotsAreFenced, Fenced!Spec
=============================================================================
