--------------------------- MODULE CapacityProofs ---------------------------
(***************************************************************************)
(* Proofs about Capacity, for any runs, types, zones and price changes.    *)
(*                                                                         *)
(* What makes a run see every change is said of a set of records and one   *)
(* change at a time (Covers).  It speaks of two kinds of change: those     *)
(* that AWS had published when the records were asked for, and those that  *)
(* are older than the newest record by more than the overlap, for it is    *)
(* from there on that the next run asks again.  An entry written by a run  *)
(* whose window ended before that of the entry it merged is complete in    *)
(* the second sense only.                                                  *)
(***************************************************************************)
EXTENDS Capacity, FiniteSetTheorems, WellFoundedInduction, TLAPS

\* What the runs may hold.
Places == {"idle", "catalog", "fillCatalog", "spot", "write", "last", "fillLast", "ended"}
Histories == [step : {"todo", "fill", "done", "failed"}, records : SUBSET Changes,
              from : Int, upto : Int]
RunRecords == [pc : Places, req : RequestType, keep : BOOLEAN, cache : CacheModes,
               start : Int, end : Int, prices : SUBSET Types, sel : (Types \X Zones) \cup {None},
               hist : [Types -> Histories]]

\* AWS publishes each change in time.
ClockOK ==
    /\ now \in 0..MaxTime
    /\ pubAt \in [Changes -> (0..MaxTime) \cup {None}]
    /\ \A c \in Changes :
          IF pubAt[c] = None THEN now <= c.ts + MaxDelay
          ELSE c.ts <= pubAt[c] /\ pubAt[c] <= now /\ pubAt[c] <= c.ts + MaxDelay

\* The change is among the records, if it is due there.
Covers(h, d) ==
    (/\ d.ts >= h.from \/ \E c \in h.records : c.ts <= d.ts
     /\ pubAt[d] < h.upto \/ \E c \in h.records : d.ts + Buffer < c.ts)
        => d \in h.records

\* An entry of the cache holds published changes, all that were due in it.
EntryOK(t, e) ==
    /\ e.records \subseteq Of(t, Published)
    /\ e.from \in Int /\ e.upto \in Int /\ e.upto <= now
    /\ \A d \in Of(t, Published) : Covers(e, d)

\* So does what a worker fetched, cut off at the start of the window once it is done.
HistoryOK(t, h, start) ==
    /\ h.records \subseteq Of(t, Published)
    /\ h.step \in {"fill", "done"} =>
          /\ h.upto <= now
          /\ \A c \in h.records : c.ts >= start
          /\ \A d \in Of(t, Published) : h.step = "fill" \/ d.ts >= start => Covers(h, d)

\* What a run chooses from.
Offers(x) == IF x.req.market = "spot" THEN SpotOffers(x) ELSE OnDemandOffers(x)

\* What a run has found out is so, and the offer it selected is one of its offers.
RunOK(x) ==
    /\ x.end <= now
    /\ x.pc = "spot" => x.start < x.end /\ x.req.market = "spot"
    /\ x.pc \in {"catalog", "fillCatalog"} => \A t \in Types : x.hist[t].step = "todo"
    /\ x.pc = "fillCatalog" => x.prices = Types
    /\ \A t \in Types : HistoryOK(t, x.hist[t], x.start)
    /\ x.pc \in {"write", "last", "fillLast"} =>
          /\ x.sel \in Offers(x)
          /\ x.req.market = "spot" => x.hist[x.sel[1]].step = "done"
    /\ x.pc \in {"last", "fillLast"} => x.keep

\* The cache, the preset and the choice.
FilesOK ==
    /\ \A t \in Types : spot[t] # None => EntryOK(t, spot[t])
    /\ catalog # None => catalog.at \in 0..now /\ catalog.prices = Types
    /\ last \in RequestType \cup {None}
    /\ tfvars # None => tfvars.offer \in Types \X Zones

\* The inductive invariant.
IInv ==
    /\ ClockOK /\ FilesOK
    /\ spot = [t \in Types |-> spot[t]]
    /\ run \in [Runs -> RunRecords]
    /\ \A r \in Runs : RunOK(run[r])
-----------------------------------------------------------------------------
\* The choices that the code makes with max() and a sort.

\* A set of numbers has a least one,
LEMMA LeastExists ==
  ASSUME NEW T, T \subseteq Nat, T # {}
  PROVE  \E m \in T : \A n \in T : m <= n
<1>1. PICK m \in T : \A n \in T : ~ (<<n, m>> \in OpToRel(<, Nat))
  BY WFMin, NatLessThanWellFounded, Zenon
<1>2. ASSUME NEW n \in T PROVE m <= n
  <2>1. ~(n < m) BY <1>1 DEF OpToRel
  <2> QED BY <2>1
<1> QED BY <1>2

\* so records that are not of the future have a newest one,
LEMMA NewestIsLast ==
  ASSUME NEW S, S # {}, NEW latest \in Int, \A c \in S : c.ts \in Int /\ c.ts <= latest
  PROVE  Newest(S) \in S /\ \A d \in S : d.ts <= Newest(S).ts
<1> DEFINE Ages == {n \in Nat : \E c \in S : n = latest - c.ts}
<1>1. \A c \in S : latest - c.ts \in Ages OBVIOUS
<1>2. Ages # {} BY <1>1
<1>3. PICK m \in Ages : \A n \in Ages : m <= n
  <2> HIDE DEF Ages
  <2>1. Ages \subseteq Nat BY DEF Ages
  <2> QED BY <1>2, <2>1, LeastExists
<1>4. PICK c \in S : m = latest - c.ts OBVIOUS
<1>5. \A d \in S : d.ts <= c.ts
  <2> SUFFICES ASSUME NEW d \in S PROVE d.ts <= c.ts OBVIOUS
  <2>1. m <= latest - d.ts BY <1>1, <1>3
  <2>2. c.ts \in Int /\ d.ts \in Int OBVIOUS
  <2> HIDE DEF Ages
  <2> QED BY <1>4, <2>1, <2>2
<1> QED BY <1>5 DEF Newest

\* and the offers of a run a first one.
LEMMA FirstOffer ==
  ASSUME NEW x, NEW offers, offers # {}, offers \subseteq Types \X Zones,
         \A a \in offers : Ranks(x, a) \in Nat
  PROVE  \E a \in offers : \A b \in offers \ {a} : Before(x, a, b)
<1>1. PICK m \in {Ranks(x, a) : a \in offers} : \A n \in {Ranks(x, a) : a \in offers} : m <= n
  <2>1. {Ranks(x, a) : a \in offers} \subseteq Nat /\ {Ranks(x, a) : a \in offers} # {} OBVIOUS
  <2> QED BY <2>1, LeastExists
<1> DEFINE Ties == {a \in offers : Ranks(x, a) = m}
<1>2. PICK k \in {Order[a] : a \in Ties} : \A n \in {Order[a] : a \in Ties} : k <= n
  <2>1. {Order[a] : a \in Ties} \subseteq Nat /\ {Order[a] : a \in Ties} # {}
    BY OffersAssumption
  <2> QED BY <2>1, LeastExists
<1>3. PICK a \in Ties : Order[a] = k OBVIOUS
<1>4. ASSUME NEW b \in offers \ {a} PROVE Before(x, a, b)
  <2>1. Ranks(x, a) <= Ranks(x, b) /\ Ranks(x, a) = m BY <1>1
  <2>2. CASE Ranks(x, b) = m
    <3>1. Order[a] <= Order[b] BY <1>2, <1>3, <2>2
    <3>2. Order[a] # Order[b] BY OffersAssumption
    <3>3. Order[a] \in Nat /\ Order[b] \in Nat BY OffersAssumption
    <3> QED BY <2>1, <2>2, <3>1, <3>2, <3>3 DEF Before
  <2>3. CASE Ranks(x, b) # m
    <3>1. Ranks(x, a) \in Nat /\ Ranks(x, b) \in Nat OBVIOUS
    <3> QED BY <2>1, <2>3, <3>1 DEF Before
  <2> QED BY <2>2, <2>3
<1> QED BY <1>4

\* A sample that counts is one, so a Spot offer has a price.
LEMMA SpotRanks ==
  ASSUME ClockOK, NEW x \in RunRecords, NEW o \in SpotOffers(x), RunOK(x)
  PROVE  /\ o \in Types \X Zones
         /\ Newest(Samples(x, o)) \in Samples(x, o)
         /\ \A d \in Samples(x, o) : d.ts <= Newest(Samples(x, o)).ts
         /\ Score(x, o) \in Nat
<1>1. /\ o \in Types \X Zones /\ o[1] \in Types
      /\ Cardinality(Samples(x, o)) >= MinSamples
  BY DEF SpotOffers, Candidates
<1>2. Samples(x, o) # {} BY <1>1, FS_EmptySet, RequestsAssumption
<1>3. Samples(x, o) \subseteq Of(o[1], Published) BY <1>1 DEF Samples, RunOK, HistoryOK
<1>4. Samples(x, o) \subseteq Changes BY <1>3 DEF Of, Published
<1>5. \A c \in Samples(x, o) : c.ts \in Int /\ c.ts <= now
  BY <1>3, ChangesAssumption, HoursAssumption DEF Of, Published, ClockOK
<1>6. now \in Int BY DEF ClockOK
<1>7. /\ Newest(Samples(x, o)) \in Samples(x, o)
      /\ \A d \in Samples(x, o) : d.ts <= Newest(Samples(x, o)).ts
  BY <1>2, <1>5, <1>6, NewestIsLast
<1>8. Latest(Samples(x, o)) \in Nat BY <1>4, <1>7, ChangesAssumption DEF Latest
<1>9. Spread(Samples(x, o)) \in Nat BY <1>2, <1>4, OffersAssumption
<1> QED BY <1>1, <1>7, <1>8, <1>9 DEF Score

\* What is selected is an offer.
LEMMA SelectsAnOffer ==
  ASSUME ClockOK, NEW x \in RunRecords, RunOK(x), Offers(x) # {}
  PROVE  (CHOOSE a \in Offers(x) : \A b \in Offers(x) \ {a} : Before(x, a, b)) \in Offers(x)
<1>1. x.req.market \in {"spot", "on-demand"} BY DEF RunRecords, RequestType
<1>2. \A a \in Offers(x) : a \in Types \X Zones
  BY SpotRanks DEF Offers, OnDemandOffers, Candidates
<1>3. \A a \in Offers(x) : Ranks(x, a) \in Nat
  <2> SUFFICES ASSUME NEW a \in Offers(x) PROVE Ranks(x, a) \in Nat OBVIOUS
  <2>1. CASE x.req.market = "spot" BY <2>1, SpotRanks DEF Offers, Ranks
  <2>2. CASE x.req.market # "spot"
    <3>1. a[1] \in Types BY <1>2
    <3> QED BY <2>2, <3>1, OffersAssumption DEF Ranks
  <2> QED BY <2>1, <2>2
<1>4. \E a \in Offers(x) : \A b \in Offers(x) \ {a} : Before(x, a, b)
  BY <1>2, <1>3, FirstOffer
<1> QED BY <1>4
-----------------------------------------------------------------------------
\* The runs.

\* A run that begins, or is over, has found out nothing.
LEMMA IdleOK ==
  ASSUME ClockOK, NEW x \in RunRecords, x.pc \in {"idle", "ended", "catalog"},
         x.end = 0, x.hist = [t \in Types |-> NoHistory]
  PROVE  RunOK(x)
  BY DEF RunOK, ClockOK, HistoryOK, NoHistory

\* It holds what a run may hold,
LEMMA IdleType ==
  /\ Idle \in RunRecords /\ Ended \in RunRecords
  /\ \A req \in RequestType, keep \in BOOLEAN, cache \in CacheModes :
        [Idle EXCEPT !.pc = "catalog", !.cache = cache, !.req = req, !.keep = keep] \in RunRecords
<1>1. NoHistory \in Histories BY DEF NoHistory, Histories
<1>2. [t \in Types |-> NoHistory] \in [Types -> Histories] BY <1>1
<1>3. Idle \in RunRecords
  BY <1>2, RequestsAssumption DEF Idle, RunRecords, Places, CacheModes
<1>4. \A place \in Places : [Idle EXCEPT !.pc = place] \in RunRecords
  BY <1>3 DEF RunRecords
<1>5. ASSUME NEW req \in RequestType, NEW keep \in BOOLEAN, NEW cache \in CacheModes
      PROVE  [Idle EXCEPT !.pc = "catalog", !.cache = cache, !.req = req, !.keep = keep]
                 \in RunRecords
  BY <1>3 DEF RunRecords, Places
<1> QED BY <1>3, <1>4, <1>5 DEF Ended, Places

\* and is as it must be.
LEMMA OverOK ==
  ASSUME ClockOK
  PROVE  RunOK(Idle) /\ RunOK(Ended)
<1>1. /\ Idle.pc = "idle" /\ Idle.end = 0 /\ Idle.hist = [t \in Types |-> NoHistory]
      /\ Ended.pc = "ended" /\ Ended.end = 0 /\ Ended.hist = [t \in Types |-> NoHistory]
  BY DEF Idle, Ended
<1> QED BY <1>1, IdleType, IdleOK

\* The offers depend on the request and on what was found out.
LEMMA SameOffers ==
  ASSUME NEW x, NEW y, x.req = y.req, x.prices = y.prices, x.hist = y.hist
  PROVE  Offers(x) = Offers(y)
<1>1. \A o : Samples(x, o) = Samples(y, o) BY DEF Samples
<1>2. SpotOffers(x) = SpotOffers(y) BY <1>1 DEF SpotOffers
<1>3. OnDemandOffers(x) = OnDemandOffers(y) BY DEF OnDemandOffers
<1> QED BY <1>2, <1>3 DEF Offers

\* A run that selects among its offers.
LEMMA SelectingOK ==
  ASSUME ClockOK, NEW x \in RunRecords, RunOK(x),
         x.req.market = "spot" => \A t \in Candidates(x.req, x.prices) : x.hist[t].step = "done"
  PROVE  Selecting(x, Offers(x)) \in RunRecords /\ RunOK(Selecting(x, Offers(x)))
<1>1. CASE Offers(x) = {} BY <1>1, IdleType, OverOK DEF Selecting
<1>2. CASE Offers(x) # {}
  <2> DEFINE o == CHOOSE a \in Offers(x) : \A b \in Offers(x) \ {a} : Before(x, a, b)
  <2> DEFINE y == [x EXCEPT !.pc = "write", !.sel = o]
  <2>1. Selecting(x, Offers(x)) = y BY <1>2 DEF Selecting
  <2>2. o \in Offers(x) BY <1>2, SelectsAnOffer
  <2> HIDE DEF o
  <2>3. o \in Types \X Zones /\ o[1] \in Candidates(x.req, x.prices)
    BY <2>2 DEF Offers, SpotOffers, OnDemandOffers, Candidates
  <2>4. y \in RunRecords BY <2>3 DEF RunRecords, Places
  <2>5. /\ y.pc = "write" /\ y.sel = o /\ y.req = x.req /\ y.prices = x.prices
        /\ y.hist = x.hist /\ y.end = x.end /\ y.start = x.start
    BY DEF RunRecords
  <2> HIDE DEF y
  <2>6. Offers(y) = Offers(x) BY <2>5, SameOffers
  <2>7. RunOK(y) BY <2>2, <2>3, <2>5, <2>6 DEF RunOK
  <2> QED BY <2>1, <2>4, <2>7
<1> QED BY <1>1, <1>2

\* A run that has the price catalog.
LEMMA AfterCatalogOK ==
  ASSUME ClockOK, NEW x \in RunRecords, RunOK(x), x.pc \in {"catalog", "fillCatalog"}
  PROVE  AfterCatalog(x) \in RunRecords /\ RunOK(AfterCatalog(x))
<1>1. CASE Candidates(x.req, x.prices) = {} BY <1>1, IdleType, OverOK DEF AfterCatalog
<1>2. CASE Candidates(x.req, x.prices) # {} /\ x.req.market = "spot"
  <2> DEFINE y == [x EXCEPT !.pc = "spot", !.end = now, !.start = now - x.req.lookback]
  <2>1. AfterCatalog(x) = y BY <1>2 DEF AfterCatalog
  <2>2. now \in Int /\ x.req.lookback \in Nat \ {0} /\ now - x.req.lookback \in Int
    BY DEF ClockOK, RunRecords, RequestType
  <2>3. y \in RunRecords
    <3> DEFINE start == now - x.req.lookback
    <3>1. start \in Int BY <2>2
    <3> HIDE DEF start
    <3>2. [x EXCEPT !.pc = "spot", !.end = now, !.start = start] \in RunRecords
      BY <2>2, <3>1 DEF RunRecords, Places
    <3> QED BY <3>2 DEF start
  <2>4. /\ y.pc = "spot" /\ y.end = now /\ y.start = now - x.req.lookback
        /\ y.req = x.req /\ y.hist = x.hist
    BY DEF RunRecords
  <2> HIDE DEF y
  <2>5. \A t \in Types : HistoryOK(t, y.hist[t], y.start)
    BY <2>4 DEF RunOK, HistoryOK
  <2>6. RunOK(y) BY <1>2, <2>2, <2>4, <2>5 DEF RunOK
  <2> QED BY <2>1, <2>3, <2>6
<1>3. CASE Candidates(x.req, x.prices) # {} /\ x.req.market # "spot"
  <2>1. AfterCatalog(x) = Selecting(x, Offers(x)) BY <1>3 DEF AfterCatalog, Offers
  <2> QED BY <1>3, <2>1, SelectingOK
<1> QED BY <1>1, <1>2, <1>3

\* A run that goes on to a place that needs nothing more.
LEMMA PlaceOK ==
  ASSUME ClockOK, NEW x \in RunRecords, RunOK(x), NEW y \in RunRecords,
         y = [x EXCEPT !.pc = y.pc],
         \/ x.pc = "write" /\ y.pc = "last" /\ x.keep
         \/ x.pc = "last" /\ y.pc = "fillLast"
  PROVE  RunOK(y)
<1>1. /\ y.sel = x.sel /\ y.req = x.req /\ y.prices = x.prices /\ y.keep = x.keep
      /\ y.hist = x.hist /\ y.end = x.end /\ y.start = x.start
  BY DEF RunRecords
<1>2. Offers(y) = Offers(x) BY <1>1, SameOffers
<1> QED BY <1>1, <1>2 DEF RunOK

\* A run that has another history of one type.
LEMMA HistoryMoves ==
  ASSUME NEW x \in RunRecords, RunOK(x), x.pc = "spot", NEW t \in Types, NEW h \in Histories,
         HistoryOK(t, h, x.start)
  PROVE  [x EXCEPT !.hist[t] = h] \in RunRecords /\ RunOK([x EXCEPT !.hist[t] = h])
<1> DEFINE y == [x EXCEPT !.hist[t] = h]
<1>1. y \in RunRecords BY DEF RunRecords
<1>2. /\ y.pc = x.pc /\ y.req = x.req /\ y.start = x.start /\ y.end = x.end
      /\ y.hist = [x.hist EXCEPT ![t] = h]
  BY DEF RunRecords
<1>3. \A s \in Types : y.hist[s] = IF s = t THEN h ELSE x.hist[s]
  BY <1>2 DEF RunRecords
<1> HIDE DEF y
<1>4. RunOK(y) BY <1>2, <1>3 DEF RunOK
<1> QED BY <1>1, <1>4 DEF y

\* One step of a run, as what it makes of the run's record.
RunGoes(r) == \E x \in RunRecords : RunOK(x) /\ run' = [run EXCEPT ![r] = x]
-----------------------------------------------------------------------------
\* The histories.

\* What AWS has published are changes of the past.
LEMMA PublishedIsPast ==
  ASSUME ClockOK, NEW t, NEW c \in Of(t, Published)
  PROVE  /\ c \in Changes /\ c.ts \in Int /\ pubAt[c] \in Int
         /\ c.ts <= pubAt[c] /\ pubAt[c] <= now /\ pubAt[c] <= c.ts + MaxDelay
<1>1. c \in Changes /\ pubAt[c] # None BY DEF Of, Published
<1>2. pubAt[c] \in 0..MaxTime BY <1>1 DEF ClockOK
<1> QED BY <1>1, <1>2, ChangesAssumption DEF ClockOK

\* h is what a worker makes of the entry e and of AWS's answer for the window
\* from q on.
Merges(t, e, q, start, end, h) ==
    LET old == IF e = None THEN {} ELSE e.records
        answer == {c \in Of(t, Published) : q < end /\ q <= c.ts /\ c.ts <= end}
    IN  /\ q = (IF e = None THEN start ELSE MaxOf(start, Newest(e.records).ts - Buffer))
        /\ h.records = {c \in old \cup answer : c.ts >= start}
        /\ h.from = (IF e = None THEN start ELSE MaxOf(start, e.from))
        /\ h.upto = (IF q < end THEN end ELSE e.upto)

\* The window that is asked for and the entry that is merged cover all that is
\* due, as AWS is never later than the overlap.
LEMMA MergeCovers ==
  ASSUME ClockOK, NEW t,
         NEW e, e = None \/ (EntryOK(t, e) /\ e.records # {}),
         NEW start \in Int, NEW end \in Int, start < end, end <= now,
         NEW q, NEW h, Merges(t, e, q, start, end, h)
  PROVE  /\ h.from \in Int /\ h.upto \in Int /\ h.upto <= now
         /\ h.records \subseteq Of(t, Published)
         /\ \A d \in Of(t, Published) : Covers(h, d)
<1> DEFINE old == IF e = None THEN {} ELSE e.records
           answer == {c \in Of(t, Published) : q < end /\ q <= c.ts /\ c.ts <= end}
<1>0. /\ q = (IF e = None THEN start ELSE MaxOf(start, Newest(old).ts - Buffer))
      /\ h.records = {c \in old \cup answer : c.ts >= start}
      /\ h.from = (IF e = None THEN start ELSE MaxOf(start, e.from))
      /\ h.upto = (IF q < end THEN end ELSE e.upto)
      /\ \A c : c \in answer <=> c \in Of(t, Published) /\ q < end /\ q <= c.ts /\ c.ts <= end
      /\ e = None => old = {}
      /\ e # None => old = e.records
  BY DEF Merges
<1> HIDE DEF old, answer
<1> USE <1>0
<1>1. now \in Int /\ Buffer \in Nat /\ MaxDelay \in Nat /\ MaxDelay <= Buffer
  BY HoursAssumption DEF ClockOK
<1>2. old \subseteq Of(t, Published) BY DEF EntryOK
<1>3. e # None => Newest(old) \in old /\ \A c \in old : c.ts <= Newest(old).ts
  <2>1. \A c \in old : c.ts \in Int /\ c.ts <= now BY <1>1, <1>2, PublishedIsPast
  <2> QED BY <1>1, <2>1, NewestIsLast
<1>4. e # None => Newest(old).ts \in Int BY <1>2, <1>3, PublishedIsPast
<1>5. /\ q \in Int /\ start <= q
      /\ e # None => Newest(old).ts - Buffer <= q
      /\ q = start \/ (e # None /\ q = Newest(old).ts - Buffer)
  BY <1>1, <1>4 DEF MaxOf
<1>6. e # None => e.from \in Int /\ e.upto \in Int /\ e.upto <= now BY DEF EntryOK
<1>7. h.from \in Int /\ start <= h.from /\ (e # None => e.from <= h.from)
  BY <1>6 DEF MaxOf
<1>8. h.upto \in Int /\ h.upto <= now BY <1>1, <1>5, <1>6
<1>9. h.records \subseteq Of(t, Published) BY <1>2
<1>10. ASSUME NEW d \in Of(t, Published),
              d.ts >= h.from \/ \E c \in h.records : c.ts <= d.ts,
              pubAt[d] < h.upto \/ \E c \in h.records : d.ts + Buffer < c.ts
       PROVE  d \in h.records
  <2>1. /\ d.ts \in Int /\ pubAt[d] \in Int /\ d.ts <= pubAt[d]
        /\ pubAt[d] <= d.ts + MaxDelay
        /\ \A c \in h.records : c.ts \in Int
    BY <1>9, PublishedIsPast
  <2>2. start <= d.ts BY <1>7, <1>10, <2>1
  <2>3. CASE q < end /\ q <= d.ts
    <3>1. d.ts <= end
      <4>1. CASE pubAt[d] < h.upto BY <2>1, <2>3, <4>1
      <4>2. ASSUME NEW c \in h.records, d.ts + Buffer < c.ts PROVE d.ts <= end
        <5>1. CASE c \in answer BY <1>1, <2>1, <4>2, <5>1
        <5>2. CASE c \in old
          <6>1. e # None /\ c.ts <= Newest(old).ts BY <1>3, <5>2
          <6>2. c.ts - Buffer <= q BY <1>1, <1>4, <1>5, <2>1, <6>1
          <6> QED BY <1>1, <1>5, <2>1, <2>3, <4>2, <6>2
        <5> QED BY <5>1, <5>2
      <4> QED BY <1>10, <4>1, <4>2
    <3> QED BY <2>2, <2>3, <3>1
  <2>4. CASE ~(q < end /\ q <= d.ts)
    <3>1. e # None BY <1>5, <2>1, <2>2, <2>4
    <3>2. d.ts >= e.from \/ \E c \in e.records : c.ts <= d.ts
      <4>1. \A c \in answer : ~(c.ts <= d.ts) BY <1>5, <2>1, <2>4, PublishedIsPast
      <4>2. CASE d.ts >= h.from BY <1>6, <1>7, <2>1, <3>1, <4>2
      <4>3. CASE \E c \in h.records : c.ts <= d.ts BY <3>1, <4>1, <4>3
      <4> QED BY <1>10, <4>2, <4>3
    <3>3. pubAt[d] < e.upto \/ \E c \in e.records : d.ts + Buffer < c.ts
      <4>1. CASE q < end
        <5>1. q = Newest(old).ts - Buffer BY <1>5, <2>1, <2>2, <2>4, <4>1
        <5>2. d.ts + Buffer < Newest(old).ts BY <1>1, <1>4, <2>1, <2>4, <3>1, <4>1, <5>1
        <5> QED BY <1>3, <3>1, <5>2
      <4>2. CASE ~(q < end)
        <5>1. answer = {} /\ h.upto = e.upto BY <4>2
        <5> QED BY <1>10, <3>1, <5>1
      <4> QED BY <4>1, <4>2
    <3>4. d \in e.records BY <3>1, <3>2, <3>3 DEF EntryOK, Covers
    <3> QED BY <2>2, <3>1, <3>4
  <2> QED BY <2>3, <2>4
<1> QED BY <1>7, <1>8, <1>9, <1>10 DEF Covers
-----------------------------------------------------------------------------
\* Every step of a run keeps what the runs and the files must be.

LEMMA OffersType ==
  ASSUME NEW x, NEW o \in Offers(x)
  PROVE  o \in Types \X Zones /\ o[1] \in Candidates(x.req, x.prices)
  BY DEF Offers, SpotOffers, OnDemandOffers, Candidates

\* A preset under the flags given is a request.
LEMMA RequestedType ==
  ASSUME FilesOK, NEW flags \in Flags, NEW useLast \in BOOLEAN, Requested(flags, useLast) # None
  PROVE  Requested(flags, useLast) \in RequestType
<1>1. flags.given \in RequestType BY RequestsAssumption
<1>2. ASSUME last \in RequestType PROVE Resolve(flags, last) \in RequestType
  BY <1>1, <1>2 DEF Resolve, RequestType, Fields
<1> QED BY <1>1, <1>2 DEF Requested, FilesOK

\* A step on the way to the history, or after it, leaves the run as it must be.
LEMMA PlaceStep ==
  ASSUME IInv, NEW r \in Runs,
         \/ \E flags \in Flags, useLast \in BOOLEAN : Begin(r, flags, useLast)
         \/ CatalogHit(r) \/ CatalogPages(r) \/ FillCatalog(r)
         \/ Join(r) \/ WriteTfvars(r) \/ OpenLast(r) \/ FillLast(r) \/ Interrupt(r)
  PROVE  RunGoes(r)
<1>1. /\ ClockOK /\ FilesOK /\ run \in [Runs -> RunRecords]
      /\ run[r] \in RunRecords /\ RunOK(run[r])
  BY DEF IInv
<1> USE <1>1
<1>2. ASSUME NEW flags \in Flags, NEW useLast \in BOOLEAN, Begin(r, flags, useLast)
      PROVE  RunGoes(r)
  <2> DEFINE x == [Idle EXCEPT !.pc = "catalog", !.cache = flags.cache,
                               !.req = Requested(flags, useLast),
                               !.keep = useLast \/ flags.explicit # {}]
  <2>1. Requested(flags, useLast) \in RequestType BY <1>2, RequestedType DEF Begin
  <2>2. flags.cache \in CacheModes BY RequestsAssumption
  <2>3. x \in RunRecords BY <2>1, <2>2, IdleType
  <2>4. x.pc = "catalog" /\ x.end = 0 /\ x.hist = [t \in Types |-> NoHistory] BY DEF Idle
  <2>5. run' = [run EXCEPT ![r] = x] BY <1>2 DEF Begin
  <2> HIDE DEF x
  <2> QED BY <2>3, <2>4, <2>5, IdleOK DEF RunGoes
<1>3. CASE CatalogHit(r)
  <2> DEFINE x == [run[r] EXCEPT !.prices = catalog.prices]
  <2>1. catalog.prices = Types /\ run[r].pc = "catalog"
    BY <1>3 DEF CatalogHit, CatalogIsFresh, FilesOK
  <2>2. x \in RunRecords BY <2>1 DEF RunRecords
  <2>3. RunOK(x) /\ x.pc = "catalog" BY <2>1 DEF RunOK, RunRecords
  <2>4. run' = [run EXCEPT ![r] = AfterCatalog(x)] BY <1>3 DEF CatalogHit
  <2> HIDE DEF x
  <2> QED BY <2>2, <2>3, <2>4, AfterCatalogOK DEF RunGoes
<1>4. CASE CatalogPages(r)
  <2>1. PICK got \in SUBSET Types :
           LET x == [run[r] EXCEPT !.prices = got]
           IN  \/ got = Types /\ run' = [run EXCEPT ![r] = [x EXCEPT !.pc = "fillCatalog"]]
               \/ run' = [run EXCEPT ![r] = AfterCatalog(x)]
    BY <1>4 DEF CatalogPages, Caches
  <2> DEFINE x == [run[r] EXCEPT !.prices = got]
  <2> DEFINE y == [x EXCEPT !.pc = "fillCatalog"]
  <2>2. run[r].pc = "catalog" BY <1>4 DEF CatalogPages
  <2>3. x \in RunRecords /\ x.pc = "catalog" BY <2>2 DEF RunRecords
  <2>4. RunOK(x) BY <2>2 DEF RunOK, RunRecords
  <2>5. CASE got = Types /\ run' = [run EXCEPT ![r] = y]
    <3>1. y \in RunRecords BY <2>3 DEF RunRecords, Places
    <3>2. RunOK(y) BY <2>2, <2>5 DEF RunOK, RunRecords
    <3> QED BY <2>5, <3>1, <3>2 DEF RunGoes
  <2>6. CASE run' = [run EXCEPT ![r] = AfterCatalog(x)]
    <3> HIDE DEF x
    <3> QED BY <2>3, <2>4, <2>6, AfterCatalogOK DEF RunGoes
  <2> QED BY <2>1, <2>5, <2>6
<1>5. CASE FillCatalog(r)
  <2>1. run' = [run EXCEPT ![r] = AfterCatalog(run[r])] /\ run[r].pc = "fillCatalog"
    BY <1>5 DEF FillCatalog
  <2> QED BY <2>1, AfterCatalogOK DEF RunGoes
<1>6. CASE Join(r)
  <2>1. run[r].req.market = "spot" BY <1>6 DEF Join, RunOK
  <2>2. CASE run' = [run EXCEPT ![r] = Ended] BY <2>2, IdleType, OverOK DEF RunGoes
  <2>3. CASE run' # [run EXCEPT ![r] = Ended]
    <3>1. \A t \in Candidates(run[r].req, run[r].prices) : run[r].hist[t].step = "done"
      BY <1>6, <2>3 DEF Join, Cands
    <3>2. run' = [run EXCEPT ![r] = Selecting(run[r], Offers(run[r]))]
      BY <1>6, <2>1, <2>3 DEF Join, Offers
    <3> QED BY <3>1, <3>2, SelectingOK DEF RunGoes
  <2> QED BY <2>2, <2>3
<1>7. CASE WriteTfvars(r)
  <2> DEFINE x == [run[r] EXCEPT !.pc = "last"]
  <2>1. run[r].pc = "write" BY <1>7 DEF WriteTfvars
  <2>2. CASE run[r].keep
    <3>1. x \in RunRecords /\ x = [run[r] EXCEPT !.pc = x.pc] /\ x.pc = "last"
      BY DEF RunRecords, Places
    <3>2. run' = [run EXCEPT ![r] = x] BY <1>7, <2>2 DEF WriteTfvars
    <3> HIDE DEF x
    <3> QED BY <2>1, <2>2, <3>1, <3>2, PlaceOK DEF RunGoes
  <2>3. CASE ~run[r].keep
    <3>1. run' = [run EXCEPT ![r] = Ended] BY <1>7, <2>3 DEF WriteTfvars
    <3> QED BY <3>1, IdleType, OverOK DEF RunGoes
  <2> QED BY <2>2, <2>3
<1>8. CASE OpenLast(r)
  <2> DEFINE x == [run[r] EXCEPT !.pc = "fillLast"]
  <2>1. run[r].pc = "last" BY <1>8 DEF OpenLast
  <2>2. x \in RunRecords /\ x = [run[r] EXCEPT !.pc = x.pc] /\ x.pc = "fillLast"
    BY DEF RunRecords, Places
  <2>3. run' = [run EXCEPT ![r] = x] BY <1>8 DEF OpenLast
  <2> HIDE DEF x
  <2> QED BY <2>1, <2>2, <2>3, PlaceOK DEF RunGoes
<1>9. CASE FillLast(r) \/ Interrupt(r)
  <2>1. run' = [run EXCEPT ![r] = Ended] BY <1>9 DEF FillLast, Interrupt
  <2> QED BY <2>1, IdleType, OverOK DEF RunGoes
<1> QED BY <1>2, <1>3, <1>4, <1>5, <1>6, <1>7, <1>8, <1>9

\* A worker that fetches a complete history does too.
LEMMA HistoryStep ==
  ASSUME IInv, NEW r \in Runs, NEW t \in Types, run[r].pc = "spot",
         NEW h \in Histories, HistoryOK(t, h, run[r].start), SetHistory(r, t, h)
  PROVE  RunGoes(r)
<1>1. run \in [Runs -> RunRecords] /\ run[r] \in RunRecords /\ RunOK(run[r]) BY DEF IInv
<1>2. run' = [run EXCEPT ![r] = [run[r] EXCEPT !.hist[t] = h]] BY <1>1 DEF SetHistory
<1> QED BY <1>1, <1>2, HistoryMoves DEF RunGoes

\* A worker finds nothing in the cache, or a whole entry with records.
LEMMA CachedOK ==
  ASSUME IInv, NEW r, NEW t \in Types
  PROVE  \/ Cached(r, t) = None
         \/ /\ Cached(r, t) = spot[t] /\ spot[t] # None /\ spot[t].records # {}
            /\ EntryOK(t, spot[t])
  BY DEF Cached, IInv, FilesOK

\* It takes a fresh entry as it is,
LEMMA FreshHitGoes ==
  ASSUME IInv, NEW r \in Runs, NEW t \in Types, FreshHit(r, t)
  PROVE  RunGoes(r)
<1> DEFINE e == Cached(r, t)
<1> DEFINE h == [step |-> "done", from |-> e.from, upto |-> e.upto,
                 records |-> {c \in e.records : c.ts >= run[r].start}]
<1>1. ClockOK /\ run[r] \in RunRecords BY DEF IInv
<1>2. run[r].pc = "spot" /\ SetHistory(r, t, h) /\ e # None
  BY DEF FreshHit, Working, IsFresh
<1>3. EntryOK(t, e) BY <1>2, CachedOK
<1> HIDE DEF e
<1>4. h \in Histories BY <1>3 DEF EntryOK, Histories, Of, Published
<1>5. HistoryOK(t, h, run[r].start)
  <2>1. h.records \subseteq Of(t, Published) /\ h.upto <= now BY <1>3 DEF EntryOK
  <2>2. ASSUME NEW d \in Of(t, Published), d.ts >= run[r].start PROVE Covers(h, d)
    <3>1. Covers(e, d) BY <1>3 DEF EntryOK
    <3> QED BY <2>2, <3>1 DEF Covers
  <2> QED BY <2>1, <2>2 DEF HistoryOK
<1> HIDE DEF h
<1> QED BY <1>2, <1>4, <1>5, HistoryStep

\* or asks AWS for what the entry lacks.
LEMMA QueryGoes ==
  ASSUME IInv, NEW r \in Runs, NEW t \in Types, Query(r, t)
  PROVE  RunGoes(r)
<1> DEFINE e == Cached(r, t)
           q == QueryStart(r, e)
           old == IF e = None THEN {} ELSE e.records
           answer == {c \in Of(t, Published) : q < run[r].end /\ q <= c.ts /\ c.ts <= run[r].end}
           h == [step |-> IF Writes(r) THEN "fill" ELSE "done",
                 records |-> {c \in old \cup answer : c.ts >= run[r].start},
                 from |-> IF e = None THEN run[r].start ELSE MaxOf(run[r].start, e.from),
                 upto |-> IF q < run[r].end THEN run[r].end ELSE e.upto]
<1>1. /\ ClockOK /\ run[r] \in RunRecords /\ RunOK(run[r]) BY DEF IInv
<1>2. run[r].pc = "spot" /\ SetHistory(r, t, h) BY DEF Query, Working
<1>3. /\ run[r].start \in Int /\ run[r].end \in Int /\ run[r].start < run[r].end
      /\ run[r].end <= now
  BY <1>1, <1>2 DEF RunOK, RunRecords
<1>4. e = None \/ (EntryOK(t, e) /\ e.records # {}) BY CachedOK
<1>5. /\ Merges(t, e, q, run[r].start, run[r].end, h)
      /\ h.records = {c \in old \cup answer : c.ts >= run[r].start}
      /\ h = [step |-> h.step, records |-> h.records, from |-> h.from, upto |-> h.upto]
      /\ h.step \in {"fill", "done"}
  BY DEF QueryStart, Merges
<1> HIDE DEF h, answer, old, q, e
<1>6. /\ h.from \in Int /\ h.upto \in Int /\ h.upto <= now
      /\ h.records \subseteq Of(t, Published)
      /\ \A d \in Of(t, Published) : Covers(h, d)
  BY <1>1, <1>3, <1>4, <1>5, MergeCovers
<1>7. h \in Histories BY <1>5, <1>6 DEF Histories, Of, Published
<1>8. HistoryOK(t, h, run[r].start) BY <1>5, <1>6 DEF HistoryOK
<1> QED BY <1>2, <1>7, <1>8, HistoryStep

\* Every step of a worker leaves the run as it must be,
LEMMA WorkerStep ==
  ASSUME IInv, NEW r \in Runs, NEW t \in Types,
         FreshHit(r, t) \/ Query(r, t) \/ Fill(r, t) \/ QueryFails(r, t)
  PROVE  RunGoes(r)
<1>1. CASE FreshHit(r, t) BY <1>1, FreshHitGoes
<1>2. CASE Query(r, t) BY <1>2, QueryGoes
<1>3. CASE Fill(r, t)
  <2> DEFINE h == [run[r].hist[t] EXCEPT !.step = "done"]
  <2>1. run[r] \in RunRecords /\ RunOK(run[r]) BY DEF IInv
  <2>2. run[r].pc = "spot" /\ run[r].hist[t].step = "fill" /\ SetHistory(r, t, h)
    BY <1>3 DEF Fill, Working
  <2>3. h \in Histories BY <2>1 DEF RunRecords, Histories
  <2>4. HistoryOK(t, run[r].hist[t], run[r].start) BY <2>1 DEF RunOK
  <2>5. HistoryOK(t, h, run[r].start)
    BY <2>1, <2>2, <2>4 DEF HistoryOK, Covers, RunRecords, Histories
  <2> HIDE DEF h
  <2> QED BY <2>2, <2>3, <2>5, HistoryStep
<1>4. CASE QueryFails(r, t)
  <2> DEFINE h == [NoHistory EXCEPT !.step = "failed"]
  <2>1. run[r].pc = "spot" /\ SetHistory(r, t, h) BY <1>4 DEF QueryFails, Working
  <2>2. h \in Histories BY DEF NoHistory, Histories
  <2>3. HistoryOK(t, h, run[r].start) BY DEF HistoryOK, NoHistory
  <2> HIDE DEF h
  <2> QED BY <2>1, <2>2, <2>3, HistoryStep
<1> QED BY <1>1, <1>2, <1>3, <1>4

\* and so does every step of a run.
LEMMA CommandGoes ==
  ASSUME IInv, NEW r \in Runs, Command(r)
  PROVE  RunGoes(r)
  BY PlaceStep, WorkerStep DEF Command

\* The files that a run writes are whole, and it takes no time.
LEMMA CommandFiles ==
  ASSUME IInv, NEW r \in Runs, Command(r)
  PROVE  FilesOK' /\ spot' = [t \in Types |-> spot'[t]] /\ UNCHANGED <<now, pubAt>>
<1>1. ClockOK /\ FilesOK /\ spot = [t \in Types |-> spot[t]]
      /\ run[r] \in RunRecords /\ RunOK(run[r])
  BY DEF IInv
<1>2. UNCHANGED <<now, pubAt>>
  BY DEF Command, Begin, CatalogHit, CatalogPages, FillCatalog, FreshHit, Query, Fill, QueryFails,
         Join, WriteTfvars, OpenLast, FillLast, Interrupt
<1>3. spot' = [t \in Types |-> spot'[t]] /\ \A t \in Types : spot'[t] # None => EntryOK(t, spot[t])'
  <2>1. CASE UNCHANGED spot
    BY <1>1, <1>2, <2>1 DEF FilesOK, EntryOK, Covers, Of, Published
  <2>2. ASSUME NEW t \in Types, spot' = [spot EXCEPT ![t] = None]
        PROVE  /\ spot' = [s \in Types |-> spot'[s]]
               /\ \A s \in Types : spot'[s] # None => EntryOK(s, spot[s])'
    <3>1. spot' = [s \in Types |-> IF s = t THEN None ELSE spot[s]] BY <1>1, <2>2
    <3> QED BY <1>1, <1>2, <3>1 DEF FilesOK, EntryOK, Covers, Of, Published
  <2>3. ASSUME NEW t \in Types, Fill(r, t)
        PROVE  /\ spot' = [s \in Types |-> spot'[s]]
               /\ \A s \in Types : spot'[s] # None => EntryOK(s, spot[s])'
    <3> DEFINE h == run[r].hist[t]
               e == [at |-> now, records |-> h.records, from |-> h.from, upto |-> h.upto]
    <3>1. spot' = [spot EXCEPT ![t] = e] /\ h.step = "fill" BY <2>3 DEF Fill, Working
    <3>2. spot' = [s \in Types |-> IF s = t THEN e ELSE spot[s]] BY <1>1, <3>1
    <3>3. HistoryOK(t, h, run[r].start) /\ h \in Histories BY <1>1 DEF RunOK, RunRecords
    <3>4. EntryOK(t, e)
      BY <3>1, <3>3 DEF EntryOK, HistoryOK, Histories, Covers
    <3> HIDE DEF e
    <3> QED BY <1>1, <1>2, <3>2, <3>4 DEF FilesOK, EntryOK, Covers, Of, Published
  <2> QED BY <2>1, <2>2, <2>3
          DEF Command, Begin, CatalogHit, CatalogPages, FillCatalog, FreshHit, Query, QueryFails,
              Join, WriteTfvars, OpenLast, FillLast, Interrupt
<1>4. catalog' # None => catalog'.at \in 0..now' /\ catalog'.prices = Types
  <2>1. CASE FillCatalog(r)
    <3>1. catalog' = [at |-> now, prices |-> Types] BY <1>1, <2>1 DEF FillCatalog, RunOK
    <3> QED BY <1>1, <1>2, <3>1 DEF ClockOK
  <2>2. CASE ~FillCatalog(r)
    <3>1. catalog' \in {catalog, None}
      BY <2>2 DEF Command, Begin, CatalogHit, CatalogPages, FreshHit, Query, Fill, QueryFails,
                  Join, WriteTfvars, OpenLast, FillLast, Interrupt
    <3> QED BY <1>1, <1>2, <3>1 DEF FilesOK
  <2> QED BY <2>1, <2>2
<1>5. last' \in RequestType \cup {None}
  <2>1. run[r].req \in RequestType BY <1>1 DEF RunRecords
  <2>2. last' \in {last, None, run[r].req}
    BY DEF Command, Begin, CatalogHit, CatalogPages, FillCatalog, FreshHit, Query, Fill, QueryFails,
           Join, WriteTfvars, OpenLast, FillLast, Interrupt
  <2> QED BY <1>1, <2>1, <2>2 DEF FilesOK
<1>6. tfvars' # None => tfvars'.offer \in Types \X Zones
  <2>1. CASE WriteTfvars(r)
    <3>1. run[r].sel \in Types \X Zones
      BY <1>1, <2>1, OffersType DEF WriteTfvars, RunOK
    <3> QED BY <2>1, <3>1 DEF WriteTfvars
  <2>2. CASE ~WriteTfvars(r)
    <3>1. tfvars' \in {tfvars, None}
      BY <2>2 DEF Command, Begin, CatalogHit, CatalogPages, FillCatalog, FreshHit, Query, Fill,
                  QueryFails, Join, OpenLast, FillLast, Interrupt
    <3> QED BY <1>1, <3>1 DEF FilesOK
  <2> QED BY <2>1, <2>2
<1> QED BY <1>2, <1>3, <1>4, <1>5, <1>6 DEF FilesOK

-----------------------------------------------------------------------------
\* Time, and what AWS publishes.

\* Time goes on, and AWS publishes no change later than MaxDelay.
Later ==
    /\ now <= now'
    /\ \A c \in Changes :
          IF pubAt[c] # None THEN pubAt'[c] = pubAt[c]
          ELSE pubAt'[c] = None \/ (pubAt'[c] = now /\ now <= c.ts + MaxDelay)

\* What is published stays published.
LEMMA LaterPublished ==
  ASSUME ClockOK, Later, NEW t
  PROVE  Of(t, Published) \subseteq Of(t, Published)'
<1>1. \A c \in Changes : pubAt[c] # None => pubAt'[c] # None BY DEF Later
<1> QED BY <1>1 DEF Of, Published

\* A change that is published now was due in no record before: it is neither as
\* old as the overlap, nor was it out when they were asked for.
LEMMA CoversLater ==
  ASSUME ClockOK, Later, NEW t, NEW h, h.records \subseteq Of(t, Published),
         h.upto \in Int, h.upto <= now, NEW d \in Of(t, Published)',
         d \in Of(t, Published) => Covers(h, d)
  PROVE  Covers(h, d)'
<1>1. CASE d \in Of(t, Published)
  <2>1. d \in Changes /\ pubAt[d] # None BY <1>1 DEF Of, Published
  <2>2. pubAt'[d] = pubAt[d] BY <2>1 DEF Later
  <2> QED BY <1>1, <2>2 DEF Covers
<1>2. CASE d \notin Of(t, Published)
  <2>1. d \in Changes /\ pubAt[d] = None /\ pubAt'[d] # None BY <1>2 DEF Of, Published
  <2>2. pubAt'[d] = now /\ now <= d.ts + MaxDelay BY <2>1 DEF Later
  <2>3. /\ d.ts \in Int /\ now \in Int
        /\ Buffer \in Nat /\ MaxDelay \in Nat /\ MaxDelay <= Buffer
    BY <2>1, ChangesAssumption, HoursAssumption DEF ClockOK
  <2>4. \A c \in h.records : c.ts \in Int /\ c.ts <= now BY <2>3, PublishedIsPast
  <2>5. ~(pubAt'[d] < h.upto) BY <2>2, <2>3
  <2>6. \A c \in h.records : ~(d.ts + Buffer < c.ts) BY <2>2, <2>3, <2>4
  <2> QED BY <2>5, <2>6 DEF Covers
<1> QED BY <1>1, <1>2

\* So a history stays complete,
LEMMA HistoryLater ==
  ASSUME ClockOK, Later, now' \in Int,
         NEW t, NEW h \in Histories, NEW start, HistoryOK(t, h, start)
  PROVE  HistoryOK(t, h, start)'
<1>1. now \in Int /\ h.upto \in Int BY DEF ClockOK, Histories
<1>2. h.records \subseteq Of(t, Published)' BY LaterPublished DEF HistoryOK
<1>3. ASSUME h.step \in {"fill", "done"}, NEW d \in Of(t, Published)', h.step = "fill" \/ d.ts >= start
      PROVE  Covers(h, d)'
  <2>1. h.upto \in Int /\ h.upto <= now /\ h.records \subseteq Of(t, Published)
    BY <1>3 DEF HistoryOK, Histories
  <2>2. d \in Of(t, Published) => Covers(h, d) BY <1>3 DEF HistoryOK
  <2> QED BY <2>1, <2>2, CoversLater
<1>4. h.step \in {"fill", "done"} => h.upto <= now' /\ \A c \in h.records : c.ts >= start
  BY <1>1 DEF HistoryOK, Later
<1> QED BY <1>2, <1>3, <1>4 DEF HistoryOK

\* and a run stays as it must be.
LEMMA RunLater ==
  ASSUME ClockOK, Later, now' \in Int, NEW x \in RunRecords, RunOK(x)
  PROVE  RunOK(x)'
<1>1. \A t \in Types : HistoryOK(t, x.hist[t], x.start)'
  <2> SUFFICES ASSUME NEW t \in Types PROVE HistoryOK(t, x.hist[t], x.start)' OBVIOUS
  <2>1. x.hist[t] \in Histories BY DEF RunRecords
  <2>2. HistoryOK(t, x.hist[t], x.start) BY DEF RunOK
  <2> QED BY <2>1, <2>2, HistoryLater
<1>2. x.end <= now'
  BY DEF RunOK, RunRecords, Later, ClockOK
<1> QED BY <1>1, <1>2 DEF RunOK

\* What the runs found out stays so, whichever run takes a step.
LEMMA RunsLater ==
  ASSUME ClockOK, Later, now' \in Int, run \in [Runs -> RunRecords],
         \A r \in Runs : RunOK(run[r]),
         run' = run \/ \E r \in Runs : RunGoes(r)
  PROVE  run' \in [Runs -> RunRecords] /\ \A r \in Runs : RunOK(run[r])'
<1>1. run' \in [Runs -> RunRecords] BY DEF RunGoes
<1>2. ASSUME NEW s \in Runs PROVE RunOK(run[s])'
  <2>1. PICK x \in RunRecords : RunOK(x) /\ run'[s] = x
    BY DEF RunGoes
  <2>2. RunOK(x)' BY <2>1, RunLater
  <2> QED BY <2>1, <2>2 DEF RunOK, HistoryOK, Covers, Of, Published
<1> QED BY <1>1, <1>2

\* So do the entries.
LEMMA FilesLater ==
  ASSUME ClockOK, Later, now' \in Int, FilesOK, UNCHANGED <<spot, catalog, last, tfvars>>
  PROVE  FilesOK'
<1>1. ASSUME NEW t \in Types, spot[t] # None PROVE EntryOK(t, spot[t])'
  <2>1. PICK e : e = spot[t] /\ EntryOK(t, e) BY <1>1 DEF FilesOK
  <2>2. e.records \subseteq Of(t, Published)' BY <2>1, LaterPublished DEF EntryOK
  <2>3. e.from \in Int /\ e.upto \in Int /\ e.upto <= now' BY <2>1 DEF EntryOK, Later, ClockOK
  <2>4. ASSUME NEW d \in Of(t, Published)' PROVE Covers(e, d)'
    <3>1. e.upto \in Int /\ e.upto <= now /\ e.records \subseteq Of(t, Published)
      BY <2>1 DEF EntryOK
    <3>2. d \in Of(t, Published) => Covers(e, d) BY <2>1 DEF EntryOK
    <3> QED BY <3>1, <3>2, CoversLater
  <2>5. EntryOK(t, e)' BY <2>2, <2>3, <2>4 DEF EntryOK
  <2>6. spot'[t] = e BY <2>1
  <2> QED BY <2>5, <2>6 DEF EntryOK, Covers, Of, Published
<1>2. catalog # None => catalog.at \in 0..now' /\ catalog.prices = Types
  BY DEF FilesOK, Later, ClockOK
<1> QED BY <1>1, <1>2 DEF FilesOK

-----------------------------------------------------------------------------
\* The invariant holds with an empty cache and nothing published.
LEMMA InitInv == Init => IInv
<1> SUFFICES ASSUME Init PROVE IInv OBVIOUS
<1>1. ClockOK
  BY HoursAssumption, ChangesAssumption DEF Init, ClockOK
<1>2. FilesOK BY DEF Init, FilesOK
<1>3. run \in [Runs -> RunRecords] /\ \A r \in Runs : RunOK(run[r])
  BY <1>1, IdleType, OverOK DEF Init
<1> QED BY <1>1, <1>2, <1>3 DEF Init, IInv

\* Every step keeps the invariant.
LEMMA NextInv == IInv /\ [Next]_vars => IInv'
<1> SUFFICES ASSUME IInv, [Next]_vars PROVE IInv' OBVIOUS
<1>1. /\ ClockOK /\ FilesOK /\ spot = [t \in Types |-> spot[t]]
      /\ run \in [Runs -> RunRecords] /\ \A r \in Runs : RunOK(run[r])
      /\ now \in Int
  BY DEF IInv, ClockOK
<1>2. UNCHANGED <<now, pubAt>> => Later /\ ClockOK' /\ now' \in Int
  BY <1>1 DEF Later, ClockOK
<1>3. ASSUME NEW r \in Runs, Command(r) PROVE IInv'
  <2>1. /\ FilesOK' /\ spot' = [t \in Types |-> spot'[t]] /\ UNCHANGED <<now, pubAt>>
    BY <1>3, CommandFiles
  <2>2. RunGoes(r) BY <1>3, CommandGoes
  <2> QED BY <1>1, <1>2, <2>1, <2>2, RunsLater DEF IInv
<1>4. ASSUME NEW c \in Changes, Publish(c) PROVE IInv'
  <2>1. pubAt' = [pubAt EXCEPT ![c] = now] /\ now' = now /\ pubAt[c] = None /\ c.ts <= now
    BY <1>4 DEF Publish
  <2>2. now <= c.ts + MaxDelay BY <1>1, <2>1 DEF ClockOK
  <2>3. Later BY <1>1, <2>1, <2>2 DEF Later, ClockOK
  <2>4. ClockOK' BY <1>1, <2>1, <2>2, RequestsAssumption DEF ClockOK
  <2>5. UNCHANGED <<spot, catalog, last, tfvars, run>> BY <1>4 DEF Publish
  <2> QED BY <1>1, <2>1, <2>3, <2>4, <2>5, FilesLater, RunsLater DEF IInv
<1>5. CASE Tick
  <2>1. /\ now' = now + 1 /\ pubAt' = pubAt /\ now < MaxTime
        /\ \A c \in Changes : pubAt[c] = None => now < c.ts + MaxDelay
    BY <1>5 DEF Tick, Published
  <2>2. Later BY <1>1, <2>1 DEF Later
  <2>3. ClockOK'
    BY <1>1, <2>1, ChangesAssumption, HoursAssumption DEF ClockOK
  <2>4. UNCHANGED <<spot, catalog, last, tfvars, run>> /\ now' \in Int BY <1>1, <1>5, <2>1 DEF Tick
  <2> QED BY <1>1, <2>2, <2>3, <2>4, FilesLater, RunsLater DEF IInv
<1>6. CASE UNCHANGED vars
  BY <1>1, <1>2, <1>6, FilesLater, RunsLater DEF vars, IInv
<1> QED BY <1>3, <1>4, <1>5, <1>6 DEF Next

\* The inductive invariant holds in every reachable state.
THEOREM Invariance == Spec => []IInv
<1> QED BY InitInv, NextInv, PTL DEF Spec

-----------------------------------------------------------------------------
\* However runs overlap and are interrupted, the cache, the preset and the choice
\* in capacity.auto.tfvars.json are whole whenever they are there.
THEOREM TypeCorrect == Spec => []TypeOK
<1>1. ASSUME IInv PROVE TypeOK
  <2>1. /\ ClockOK /\ FilesOK /\ run \in [Runs -> RunRecords]
        /\ \A r \in Runs : RunOK(run[r])
    BY <1>1 DEF IInv
  <2>2. \A t \in Types : spot[t] # None => spot[t].records \subseteq Of(t, Published)
    BY <2>1 DEF FilesOK, EntryOK
  <2>3. \A r \in Runs :
           /\ run[r].req \in RequestType /\ run[r].cache \in CacheModes
           /\ run[r].sel \in (Types \X Zones) \cup {None}
           /\ \A t \in Types : run[r].hist[t].records \subseteq Of(t, Published)
    BY <2>1 DEF RunRecords, RunOK, HistoryOK
  <2> QED BY <2>1, <2>2, <2>3 DEF TypeOK, ClockOK, FilesOK
<1> QED BY <1>1, Invariance, PTL

\* Whatever runs share the cache, and however late within MaxDelay AWS publishes,
\* a run ranks every change of its window that was out when the records were
\* asked for (_spot_price_history_for_instance_type, _merge_spot_history).
THEOREM CompleteHistory == Spec => []HistoryComplete
<1>1. ASSUME IInv PROVE HistoryComplete
  <2> SUFFICES ASSUME NEW r \in Runs, NEW t \in Types,
                      run[r].hist[t].step \in {"fill", "done"}
               PROVE  /\ \A c \in run[r].hist[t].records : c.ts >= run[r].start
                      /\ run[r].hist[t].from <= run[r].start =>
                            \A c \in Of(t, Published) :
                               pubAt[c] < run[r].hist[t].upto /\ c.ts >= run[r].start
                                  => c \in run[r].hist[t].records
    BY DEF HistoryComplete
  <2>1. /\ ClockOK /\ HistoryOK(t, run[r].hist[t], run[r].start)
        /\ run[r].start \in Int /\ run[r].hist[t].from \in Int
    BY <1>1 DEF IInv, RunOK, RunRecords, Histories
  <2>2. ASSUME run[r].hist[t].from <= run[r].start, NEW c \in Of(t, Published),
               pubAt[c] < run[r].hist[t].upto, c.ts >= run[r].start
        PROVE  c \in run[r].hist[t].records
    <3>1. Covers(run[r].hist[t], c) BY <2>1, <2>2 DEF HistoryOK
    <3>2. c.ts >= run[r].hist[t].from BY <2>1, <2>2, PublishedIsPast
    <3> QED BY <2>2, <3>1, <3>2 DEF Covers
  <2> QED BY <2>1, <2>2 DEF HistoryOK
<1> QED BY <1>1, Invariance, PTL

\* The offer a run settles on meets its request by AWS's own data, as far as AWS
\* had published it (_filter_on_demand_price_ceiling, _rank_spot_candidates).
THEOREM MeetsRequest == Spec => []SelectionMeetsRequest
<1>1. ASSUME IInv, NEW r \in Runs, run[r].pc = "write"
      PROVE  LET o == run[r].sel
                 req == run[r].req
                 out == {c \in Of(o[1], Published) :
                            /\ c.zone = o[2]
                            /\ pubAt[c] < run[r].hist[o[1]].upto}
             IN  /\ Vcpu[o[1]] >= req.vcpu
                 /\ req.odCap # None => OnDemand[o[1]] <= req.odCap
                 /\ req.market = "spot" /\ req.spotCap # None =>
                       \E c \in Samples(run[r], o) :
                           c.price <= req.spotCap /\ \A d \in out : d.ts <= c.ts
  <2> DEFINE x == run[r]
             o == x.sel
             t == o[1]
             newest == Newest(Samples(x, o))
  <2>1. /\ ClockOK /\ x \in RunRecords /\ RunOK(x) /\ o \in Offers(x)
        /\ x.req.market = "spot" => x.hist[t].step = "done"
    BY <1>1 DEF IInv, RunOK
  <2>2. t \in Candidates(x.req, x.prices) /\ t \in Types
    BY <2>1, OffersType DEF Candidates
  <2>3. Vcpu[t] >= x.req.vcpu /\ (x.req.odCap # None => OnDemand[t] <= x.req.odCap)
    BY <2>2 DEF Candidates, UnderCap
  <2>4. ASSUME x.req.market = "spot", x.req.spotCap # None
        PROVE  /\ newest \in Samples(x, o) /\ newest.price <= x.req.spotCap
               /\ \A d \in Of(t, Published) :
                     d.zone = o[2] /\ pubAt[d] < x.hist[t].upto => d.ts <= newest.ts
    <3>1. o \in SpotOffers(x) BY <2>1, <2>4 DEF Offers
    <3>2. newest \in Samples(x, o) /\ \A d \in Samples(x, o) : d.ts <= newest.ts
      BY <2>1, <3>1, SpotRanks
    <3>3. newest.price <= x.req.spotCap BY <2>4, <3>1 DEF SpotOffers, Latest
    <3>4. /\ HistoryOK(t, x.hist[t], x.start) /\ x.hist[t].step = "done"
          /\ x.start \in Int
      BY <2>1, <2>2, <2>4 DEF RunOK, RunRecords
    <3>5. newest \in x.hist[t].records /\ newest.ts >= x.start /\ newest \in Of(t, Published)
      BY <3>2, <3>4 DEF Samples, HistoryOK
    <3>6. ASSUME NEW d \in Of(t, Published), d.zone = o[2], pubAt[d] < x.hist[t].upto,
                 ~(d.ts <= newest.ts)
          PROVE  FALSE
      <4>1. d.ts \in Int /\ newest.ts \in Int BY <2>1, <3>5, PublishedIsPast
      <4>2. d.ts >= x.start /\ newest.ts <= d.ts BY <3>4, <3>5, <3>6, <4>1
      <4>3. Covers(x.hist[t], d) BY <3>4, <4>2 DEF HistoryOK
      <4>4. d \in x.hist[t].records BY <3>5, <3>6, <4>2, <4>3 DEF Covers
      <4>5. d \in Samples(x, o) BY <3>6, <4>4 DEF Samples
      <4> QED BY <3>2, <3>6, <4>5
    <3> QED BY <3>2, <3>3, <3>6
  <2> QED BY <2>3, <2>4
<1>2. IInv => SelectionMeetsRequest BY <1>1 DEF SelectionMeetsRequest
<1> QED BY <1>2, Invariance, PTL

\* The preset `last` holds the request of a selection that succeeded and was
\* written out (infra_aws_disposable_ubuntu_capacity_select).
THEOREM LastSucceeded == Spec => LastIsASuccess
<1> DEFINE Succeeded == last' # last /\ last' # None =>
          \E r \in Runs :
              /\ run[r].keep /\ run[r].sel # None
              /\ last' = run[r].req /\ run'[r].pc = "ended"
<1>1. IInv /\ [Next]_vars => [Succeeded]_vars
  <2> SUFFICES ASSUME IInv, Next, last' # last, last' # None
               PROVE  \E r \in Runs :
                         /\ run[r].keep /\ run[r].sel # None
                         /\ last' = run[r].req /\ run'[r].pc = "ended"
    OBVIOUS
  <2>1. PICK r \in Runs : FillLast(r)
    <3>1. ~Tick /\ \A c \in Changes : ~Publish(c) BY DEF Tick, Publish
    <3>2. PICK r \in Runs : Command(r) BY <3>1 DEF Next
    <3>3. \A flags \in Flags, useLast \in BOOLEAN : ~Begin(r, flags, useLast) BY DEF Begin
    <3>4. ~CatalogHit(r) /\ ~CatalogPages(r) /\ ~FillCatalog(r)
      BY DEF CatalogHit, CatalogPages, FillCatalog
    <3>5. \A t \in Types : ~FreshHit(r, t) /\ ~Query(r, t)
      BY DEF FreshHit, Query
    <3>6. \A t \in Types : ~Fill(r, t) /\ ~QueryFails(r, t) BY DEF Fill, QueryFails
    <3>7. ~Join(r) /\ ~WriteTfvars(r) /\ ~OpenLast(r) /\ ~Interrupt(r)
      BY DEF Join, WriteTfvars, OpenLast, Interrupt
    <3>8. FillLast(r) BY <3>2, <3>3, <3>4, <3>5, <3>6, <3>7 DEF Command
    <3> QED BY <3>8
  <2>2. run[r].pc = "fillLast" /\ last' = run[r].req /\ run' = [run EXCEPT ![r] = Ended]
    BY <2>1 DEF FillLast
  <2>3. run \in [Runs -> RunRecords] /\ RunOK(run[r]) BY DEF IInv
  <2>4. run[r].keep /\ run[r].sel \in Types \X Zones
    BY <2>2, <2>3, OffersType DEF RunOK
  <2>5. run'[r].pc = "ended" BY <2>2, <2>3 DEF Ended, Idle
  <2> QED BY <2>2, <2>4, <2>5, RequestsAssumption
<1> QED BY <1>1, Invariance, PTL DEF Spec, LastIsASuccess
=============================================================================
