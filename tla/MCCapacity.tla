----------------------------- MODULE MCCapacity -----------------------------
(* Two types in two zones; the Spot price of the cheap one moves.          *)
EXTENDS Capacity, TLC

MCSymmetry == Permutations(Runs)

MCTypes == {"dear", "cheap"}
MCZones == {"a", "b"}
Change(t, z, ts, p) == [type |-> t, zone |-> z, ts |-> ts, price |-> p]
MCChanges == {Change("cheap", "a", 0, 1), Change("cheap", "a", 1, 2),
              Change("cheap", "b", 1, 1)}
MCOnDemand == [t \in MCTypes |-> IF t = "dear" THEN 6 ELSE 4]
MCVcpu == [t \in MCTypes |-> IF t = "dear" THEN 2 ELSE 4]
MCOffered == {<<"dear", "b">>, <<"cheap", "a">>}
MCOrder == [o \in MCTypes \X MCZones |->
              CASE o = <<"cheap", "a">> -> 1 [] o = <<"cheap", "b">> -> 2
                [] o = <<"dear", "a">> -> 3 [] OTHER -> 4]
MCSpread(S) == LET P == {c.price : c \in S}
               IN  CHOOSE d \in 0..3 : \E p, q \in P : d = p - q /\ \A x, y \in P : x - y <= d
MCDefault == [market |-> "spot", lookback |-> 4, vcpu |-> 4, odCap |-> None, spotCap |-> None]
Flag(fs, mode, req) == [given |-> req, explicit |-> fs, cache |-> mode]
MCFlags == {Flag({}, "use", MCDefault),
            Flag({"lookback", "spotCap"}, "refresh",
                 [MCDefault EXCEPT !.lookback = 1, !.spotCap = 1]),
            Flag({"market", "vcpu", "odCap"}, "off",
                 [MCDefault EXCEPT !.market = "on-demand", !.vcpu = 2, !.odCap = 4])}
=============================================================================
