------------------------------ MODULE Capacity ------------------------------
(***************************************************************************)
(* `ft infra aws-disposable-ubuntu capacity select`: the command resolves  *)
(* a request from its flags and a preset (ft/cli.py), spot_select.py asks  *)
(* AWS through a cache of JSON files, one worker per instance type for the *)
(* Spot history, picks one offer and writes it to                          *)
(* capacity.auto.tfvars.json, which the next apply of the stack reads; the *)
(* command then saves the request as the preset `last`.                    *)
(*                                                                         *)
(* Several commands share the cache.  AWS publishes a price change up to   *)
(* MaxDelay hours after the hour the change bears.                         *)
(***************************************************************************)
EXTENDS Integers, FiniteSets

CONSTANTS
    Runs,       \* the commands, each given once
    Types,      \* instance types that AWS describes
    Zones,      \* availability zones with a default subnet
    Changes,    \* the Spot price changes: [type, zone, ts, price]
    OnDemand,   \* on-demand price of every type
    Vcpu,       \* vCPU count of every type
    Offered,    \* the <<type, zone>> pairs AWS offers on demand
    Order,      \* <<type, zone>> -> its place in the order of names
    Spread(_),  \* weighted standard deviation of a set of changes
    Flags,      \* what a command may be asked: its values, the fields that a
                \* flag gives, and its use of the cache ([given, explicit, cache])
    Default,    \* the request of a command with no flags
    MinSamples, \* --min-samples
    Buffer,     \* SPOT_HISTORY_BUFFER_HOURS
    FreshTtl,   \* --spot-history-fresh-ttl-minutes
    CatalogTtl, \* --pricing-cache-ttl-hours
    MaxDelay,   \* AWS publishes a change within this many hours
    MaxTime,    \* bound on the clock
    None

ASSUME HoursAssumption ==
    /\ Buffer \in Nat /\ MaxDelay \in Nat /\ FreshTtl \in Nat /\ MaxTime \in Nat
    /\ MaxDelay <= Buffer
\* A change that is still to be published when the clock starts is not overdue.
ASSUME ChangesAssumption ==
    \A c \in Changes : /\ c.ts \in Int /\ c.ts + MaxDelay >= 0
                       /\ c.type \in Types /\ c.zone \in Zones /\ c.price \in Nat
\* Prices and spreads are in some smallest unit; names tell all offers apart.
ASSUME OffersAssumption ==
    /\ OnDemand \in [Types -> Nat] /\ Vcpu \in [Types -> Nat]
    /\ \A S \in SUBSET Changes : S # {} => Spread(S) \in Nat
    /\ \A a, b \in Types \X Zones : Order[a] \in Nat /\ (Order[a] = Order[b] => a = b)

\* The fields a preset holds, and the options they are given by.
Fields == {"market", "lookback", "vcpu", "odCap", "spotCap"}
RequestType == [market : {"spot", "on-demand"}, lookback : Nat \ {0}, vcpu : Nat,
                odCap : Nat \cup {None}, spotCap : Nat \cup {None}]
CacheModes == {"use", "refresh", "off"}

ASSUME RequestsAssumption ==
    /\ None \notin Nat /\ None \notin Types \X Zones
    /\ MinSamples \in Nat \ {0} /\ Default \in RequestType
    /\ \A flags \in Flags : flags.given \in RequestType /\ flags.cache \in CacheModes

VARIABLES
    now,      \* hours
    pubAt,    \* when AWS published each change, None before
    spot,     \* cache file of each type's history, None when absent or torn
    catalog,  \* cache file of the on-demand price catalog, None likewise
    last,     \* capacity-presets/last.json, None when absent or torn
    tfvars,   \* capacity.auto.tfvars.json, None when absent or cut short
    run       \* the commands

vars == <<now, pubAt, spot, catalog, last, tfvars, run>>

MaxOf(a, b) == IF a >= b THEN a ELSE b
Of(t, S) == {c \in S : c.type = t}
Published == {c \in Changes : pubAt[c] # None}
Newest(S) == CHOOSE c \in S : \A d \in S : d.ts <= c.ts

-----------------------------------------------------------------------------
(* The request.                                                            *)

\* The values of a loaded preset hold for every field that no flag gives.
Resolve(flags, preset) ==
    [f \in Fields |-> IF f \in flags.explicit THEN flags.given[f] ELSE preset[f]]

NoHistory == [step |-> "todo", records |-> {}, from |-> 0, upto |-> 0]
Idle == [pc |-> "idle", req |-> Default, keep |-> FALSE, cache |-> "use",
         start |-> 0, end |-> 0, prices |-> {}, sel |-> None,
         hist |-> [t \in Types |-> NoHistory]]

Reads(r) == run[r].cache = "use"
Writes(r) == run[r].cache # "off"

\* A preset that cannot be read, or is not there, ends the command.
Requested(flags, useLast) ==
    IF ~useLast THEN flags.given
    ELSE IF last # None THEN Resolve(flags, last) ELSE None

\* `keep`: a preset or a selecting flag was given, so `last` will be saved.
Begin(r, flags, useLast) ==
    /\ run[r].pc = "idle"
    /\ Requested(flags, useLast) # None
    /\ run' = [run EXCEPT ![r] =
          [Idle EXCEPT !.pc = "catalog", !.cache = flags.cache,
                       !.req = Requested(flags, useLast),
                       !.keep = useLast \/ flags.explicit # {}]]
    /\ UNCHANGED <<now, pubAt, spot, catalog, last, tfvars>>

-----------------------------------------------------------------------------
(* Candidates, and the choice among the offers of the candidates.          *)

\* Faulty: a type whose price is not known passes the ceiling.
UnderCapUnlessKnown(t, req, prices) ==
    req.odCap # None /\ t \in prices => OnDemand[t] <= req.odCap
UnderCap(t, req, prices) ==
    req.odCap # None => t \in prices /\ OnDemand[t] <= req.odCap

Candidates(req, prices) ==
    {t \in Types : Vcpu[t] >= req.vcpu /\ UnderCap(t, req, prices)}

\* Faulty: the lowest price of the window stands for the current one.
LatestAsLowest(S) == CHOOSE p \in {c.price : c \in S} : \A c \in S : p <= c.price
Latest(S) == Newest(S).price

\* An offer is an instance type in a zone with a default subnet; a Spot offer
\* carries the samples it is ranked by.
Samples(x, o) == {c \in x.hist[o[1]].records : c.zone = o[2]}

SpotOffers(x) ==
    {o \in Candidates(x.req, x.prices) \X Zones :
        /\ Cardinality(Samples(x, o)) >= MinSamples
        /\ x.req.spotCap # None => Latest(Samples(x, o)) <= x.req.spotCap}
OnDemandOffers(x) == (Candidates(x.req, x.prices) \X Zones) \cap Offered

Score(x, o) == Latest(Samples(x, o)) + Spread(Samples(x, o))

Ranks(x, o) == IF x.req.market = "spot" THEN Score(x, o) ELSE Vcpu[o[1]]
Before(x, a, b) == \/ Ranks(x, a) < Ranks(x, b)
                   \/ Ranks(x, a) = Ranks(x, b) /\ Order[a] < Order[b]

Ended == [Idle EXCEPT !.pc = "ended"]

\* Faulty: the request is saved though the selector failed.
SelectingOrSaving(x, offers) ==
    IF offers = {} THEN [x EXCEPT !.pc = "last"]
    ELSE [x EXCEPT !.pc = "write", !.sel = CHOOSE a \in offers : TRUE]
\* The run x goes on to write the offer it selects, or fails without one.
Selecting(x, offers) ==
    IF offers = {} THEN Ended
    ELSE [x EXCEPT !.pc = "write",
                   !.sel = CHOOSE a \in offers :
                               \A b \in offers \ {a} : Before(x, a, b)]

\* What follows the catalog: the specification and the ceiling are filtered,
\* then the Spot history is fetched, or the on-demand offer is selected.
AfterCatalog(x) ==
    IF Candidates(x.req, x.prices) = {} THEN Ended
    ELSE IF x.req.market = "spot"
    THEN [x EXCEPT !.pc = "spot", !.end = now, !.start = now - x.req.lookback]
    ELSE Selecting(x, OnDemandOffers(x))

-----------------------------------------------------------------------------
(* The on-demand price catalog, page by page.                              *)

CatalogIsFresh(r) ==
    Reads(r) /\ catalog # None /\ now - catalog.at <= CatalogTtl

CatalogHit(r) ==
    /\ run[r].pc = "catalog" /\ CatalogIsFresh(r)
    /\ run' = [run EXCEPT ![r] = AfterCatalog([@ EXCEPT !.prices = catalog.prices])]
    /\ UNCHANGED <<now, pubAt, spot, catalog, last, tfvars>>

\* Faulty: the cut listing is cached as if it were whole.
CachesAny(got) == TRUE
Caches(got) == got = Types

\* A page that AWS refuses ends the listing: the prices so far are used, and
\* only a listing that reached its last page is cached.
CatalogPages(r) ==
    /\ run[r].pc = "catalog" /\ ~CatalogIsFresh(r)
    /\ \E got \in SUBSET Types :
        LET x == [run[r] EXCEPT !.prices = got]
        IN  IF Writes(r) /\ Caches(got)
            THEN /\ run' = [run EXCEPT ![r] = [x EXCEPT !.pc = "fillCatalog"]]
                 /\ catalog' = None
            ELSE run' = [run EXCEPT ![r] = AfterCatalog(x)] /\ UNCHANGED catalog
    /\ UNCHANGED <<now, pubAt, spot, last, tfvars>>

FillCatalog(r) ==
    /\ run[r].pc = "fillCatalog"
    /\ catalog' = [at |-> now, prices |-> run[r].prices]
    /\ run' = [run EXCEPT ![r] = AfterCatalog(@)]
    /\ UNCHANGED <<now, pubAt, spot, last, tfvars>>

-----------------------------------------------------------------------------
(* The Spot history of one type, fetched by a worker of its own.           *)

Cands(r) == Candidates(run[r].req, run[r].prices)

SetHistory(r, t, h) == run' = [run EXCEPT ![r].hist[t] = h]

Working(r, t, step) ==
    run[r].pc = "spot" /\ t \in Cands(r) /\ run[r].hist[t].step = step

\* What the worker finds in the cache: nothing when it may not read it.
Cached(r, t) ==
    IF Reads(r) /\ spot[t] # None /\ spot[t].records # {} THEN spot[t] ELSE None

IsFresh(e) == e # None /\ now - e.at <= FreshTtl

FreshHit(r, t) ==
    LET e == Cached(r, t)
    IN  /\ Working(r, t, "todo")
        /\ IsFresh(e)
        /\ SetHistory(r, t, [step |-> "done", from |-> e.from, upto |-> e.upto,
                             records |-> {c \in e.records : c.ts >= run[r].start}])
        /\ UNCHANGED <<now, pubAt, spot, catalog, last, tfvars>>

\* Faulty: all is taken as known up to the newest cached change.
QueryStartAtNewest(r, e) ==
    IF e = None THEN run[r].start ELSE MaxOf(run[r].start, Newest(e.records).ts)
QueryStart(r, e) ==
    IF e = None THEN run[r].start
    ELSE MaxOf(run[r].start, Newest(e.records).ts - Buffer)

\* AWS answers with what it has published of the window; the merge drops what
\* is older than this run's own window, and the file is opened for writing.
\* `from` and `upto` (of the model only) say what the records are complete for.
Query(r, t) ==
    LET e == Cached(r, t)
        q == QueryStart(r, e)
        old == IF e = None THEN {} ELSE e.records
        asked == q < run[r].end
        answer == {c \in Of(t, Published) : asked /\ q <= c.ts /\ c.ts <= run[r].end}
    IN  /\ Working(r, t, "todo")
        /\ ~IsFresh(e)
        /\ SetHistory(r, t,
             [step |-> IF Writes(r) THEN "fill" ELSE "done",
              records |-> {c \in old \cup answer : c.ts >= run[r].start},
              from |-> IF e = None THEN run[r].start ELSE MaxOf(run[r].start, e.from),
              upto |-> IF asked THEN run[r].end ELSE e.upto])
        /\ spot' = IF Writes(r) THEN [spot EXCEPT ![t] = None] ELSE spot
        /\ UNCHANGED <<now, pubAt, catalog, last, tfvars>>

Fill(r, t) ==
    LET h == run[r].hist[t]
    IN  /\ Working(r, t, "fill")
        /\ spot' = [spot EXCEPT ![t] = [at |-> now, records |-> h.records,
                                        from |-> h.from, upto |-> h.upto]]
        /\ SetHistory(r, t, [h EXCEPT !.step = "done"])
        /\ UNCHANGED <<now, pubAt, catalog, last, tfvars>>

\* AWS refuses the call: the other workers still end, then the run fails.
QueryFails(r, t) ==
    /\ Working(r, t, "todo")
    /\ ~IsFresh(Cached(r, t))
    /\ SetHistory(r, t, [NoHistory EXCEPT !.step = "failed"])
    /\ UNCHANGED <<now, pubAt, spot, catalog, last, tfvars>>

Join(r) ==
    /\ run[r].pc = "spot"
    /\ \A t \in Cands(r) : run[r].hist[t].step \in {"done", "failed"}
    /\ run' = [run EXCEPT ![r] =
                 IF \E t \in Cands(r) : run[r].hist[t].step = "failed"
                 THEN Ended ELSE Selecting(@, SpotOffers(@))]
    /\ UNCHANGED <<now, pubAt, spot, catalog, last, tfvars>>

-----------------------------------------------------------------------------
(* What a selection leaves.                                                *)

WriteTfvars(r) ==
    /\ run[r].pc = "write"
    /\ tfvars' = [market |-> run[r].req.market, offer |-> run[r].sel]
    /\ run' = [run EXCEPT ![r] = IF @.keep THEN [@ EXCEPT !.pc = "last"] ELSE Ended]
    /\ UNCHANGED <<now, pubAt, spot, catalog, last>>

OpenLast(r) ==
    /\ run[r].pc = "last"
    /\ last' = None
    /\ run' = [run EXCEPT ![r].pc = "fillLast"]
    /\ UNCHANGED <<now, pubAt, spot, catalog, tfvars>>

FillLast(r) ==
    /\ run[r].pc = "fillLast"
    /\ last' = run[r].req
    /\ run' = [run EXCEPT ![r] = Ended]
    /\ UNCHANGED <<now, pubAt, spot, catalog, tfvars>>

Interrupt(r) ==
    /\ run[r].pc \notin {"idle", "ended"}
    /\ run' = [run EXCEPT ![r] = Ended]
    /\ tfvars' \in {tfvars, IF run[r].pc = "write" THEN None ELSE tfvars}
    /\ UNCHANGED <<now, pubAt, spot, catalog, last>>

-----------------------------------------------------------------------------
(* AWS and time.                                                           *)

Publish(c) ==
    /\ pubAt[c] = None /\ c.ts <= now
    /\ pubAt' = [pubAt EXCEPT ![c] = now]
    /\ UNCHANGED <<now, spot, catalog, last, tfvars, run>>

Tick ==
    /\ now < MaxTime
    /\ \A c \in Changes \ Published : now < c.ts + MaxDelay
    /\ now' = now + 1
    /\ UNCHANGED <<pubAt, spot, catalog, last, tfvars, run>>

Init ==
    /\ now = 0
    /\ pubAt = [c \in Changes |-> None]
    /\ spot = [t \in Types |-> None]
    /\ catalog = None /\ last = None /\ tfvars = None
    /\ run = [r \in Runs |-> Idle]

Command(r) ==
    \/ \E flags \in Flags, useLast \in BOOLEAN : Begin(r, flags, useLast)
    \/ CatalogHit(r) \/ CatalogPages(r) \/ FillCatalog(r)
    \/ \E t \in Types : FreshHit(r, t) \/ Query(r, t) \/ Fill(r, t) \/ QueryFails(r, t)
    \/ Join(r) \/ WriteTfvars(r) \/ OpenLast(r) \/ FillLast(r)
    \/ Interrupt(r)

Next == (\E r \in Runs : Command(r)) \/ (\E c \in Changes : Publish(c)) \/ Tick

Spec == Init /\ [][Next]_vars

-----------------------------------------------------------------------------
TypeOK ==
    /\ now \in 0..MaxTime
    /\ pubAt \in [Changes -> (0..MaxTime) \cup {None}]
    /\ \A t \in Types : spot[t] # None => spot[t].records \subseteq Of(t, Published)
    /\ catalog # None => catalog.at \in 0..now /\ catalog.prices = Types
    /\ last \in RequestType \cup {None}
    /\ tfvars # None => tfvars.offer \in Types \X Zones
    /\ \A r \in Runs :
          /\ run[r].req \in RequestType /\ run[r].cache \in CacheModes
          /\ run[r].sel \in (Types \X Zones) \cup {None}
          /\ \A t \in Types : run[r].hist[t].records \subseteq Of(t, Published)

\* However runs share and overwrite the cache, and however late AWS publishes,
\* a run ranks every price change that was out when it (or the run it took its
\* fresh entry from) asked and that lies in its lookback window, and nothing
\* older: the two hours of overlap make up for what was published late
\* (_spot_price_history_for_instance_type, _merge_spot_history).  It is said of
\* entries that reach back to the window's start: one that a run with a shorter
\* lookback wrote does not, and is not refilled.
HistoryComplete ==
    \A r \in Runs, t \in Types :
        LET h == run[r].hist[t]
        IN  h.step \in {"fill", "done"} =>
              /\ \A c \in h.records : c.ts >= run[r].start
              /\ h.from <= run[r].start =>
                    \A c \in Of(t, Published) :
                        pubAt[c] < h.upto /\ c.ts >= run[r].start => c \in h.records

\* The offer a run settles on meets its request by AWS's own data, not only by
\* what the run could see: the type is large enough, its on-demand price is
\* within the ceiling though the price listing may have been cut short, and the
\* newest Spot price that was out is within the Spot ceiling
\* (_filter_on_demand_price_ceiling, _rank_spot_candidates).
SelectionMeetsRequest ==
    \A r \in Runs :
        run[r].pc = "write" =>
            LET o == run[r].sel
                req == run[r].req
                out == {c \in Of(o[1], Published) :
                           /\ c.zone = o[2]
                           /\ pubAt[c] < run[r].hist[o[1]].upto}
            IN  /\ Vcpu[o[1]] >= req.vcpu
                /\ req.odCap # None => OnDemand[o[1]] <= req.odCap
                /\ req.market = "spot" /\ req.spotCap # None =>
                      \E c \in Samples(run[r], o) :
                          c.price <= req.spotCap /\ \A d \in out : d.ts <= c.ts

\* The preset `last` holds the values of a selection that succeeded and was
\* written out, never those of one that failed, was interrupted or was plain
\* (infra/aws-disposable-ubuntu/README.md).
LastIsASuccess ==
    [][last' # last /\ last' # None =>
          \E r \in Runs :
              /\ run[r].keep /\ run[r].sel # None
              /\ last' = run[r].req /\ run'[r].pc = "ended"]_vars
=============================================================================
