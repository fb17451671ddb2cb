--------------------------- MODULE Pricing_proofs ---------------------------
(***************************************************************************)
(* Proofs about Pricing, for any handlers, bands and worker threads.       *)
(***************************************************************************)
EXTENDS Pricing, TLAPS

\* What a handler serves, by its place.
Serving ==
    \A h \in Handlers :
        /\ pc[h] \in {"set", "band"} => req[h].kind = "set"
        /\ pc[h] = "market" => req[h].kind = "market"

TInv == TypeOK /\ Serving

LEMMA RequestType ==
    ASSUME NEW r \in Requests
    PROVE  /\ r.side \in Sides /\ r.kind \in {"set", "confirm", "market"} /\ r # None
           /\ r.kind = "set" => r.mode \in PriceModes /\ r.band \in Bands
           /\ r.kind = "market" => r.to \in MarketModes
BY QuotesAssumption DEF Requests

LEMMA BusyType == ASSUME TypeOK, NEW h \in Handlers, pc[h] # "idle" PROVE req[h] \in Requests
BY DEF TypeOK

\* A step of a deal moves it on, and quotes or ends it.
LEMMA DealStep ==
    ASSUME TInv, UNCHANGED <<accepted, market, priceVars, held, pc, req, approved>>,
           dpc' \in DealPlaces,
           \/ UNCHANGED <<quote, fresh>>
           \/ DealEnds
           \/ \E s \in Sides, q \in Quotes, ok \in BOOLEAN : QuoteOf(s, q, ok)
    PROVE  TInv'
<1>1. quote' \in [Sides -> Quotes] /\ fresh' \in [Sides -> BOOLEAN]
  BY DEF TInv, TypeOK, DealEnds, QuoteOf, Quotes
<1> QED
  BY <1>1 DEF TInv, TypeOK, Serving, priceVars

LEMMA PriceType ==
    ASSUME TInv, NEW s \in Sides, NEW at, NEW next \in DealPlaces,
           \/ \E f \in DealPlaces : PriceMode(s, at, f, next)
           \/ PriceFlag(s, at, next) \/ PriceHash(s, at, next) \/ PriceBand(s, at, next)
    PROVE  TInv'
<1>1. CASE \E f \in DealPlaces : PriceMode(s, at, f, next)
  <2>1. dpc' \in DealPlaces
    BY <1>1 DEF PriceMode
  <2> QED
    BY <1>1, <2>1, DealStep DEF PriceMode, Quotes
<1>2. CASE PriceFlag(s, at, next)
  BY <1>2, DealStep DEF PriceFlag, DealEnds, DealPlaces
<1>3. CASE PriceHash(s, at, next)
  BY <1>3, DealStep DEF PriceHash, DealEnds, DealPlaces
<1>4. CASE PriceBand(s, at, next)
  <2>1. rec[s] \in Quotes /\ (approved[s] = rec[s]) \in BOOLEAN
    BY DEF TInv, TypeOK, Quotes
  <2> QED
    BY <1>4, <2>1, DealStep DEF PriceBand
<1> QED
  BY <1>1, <1>2, <1>3, <1>4

LEMMA TypeInvariant == Spec => []TInv
<1>1. Init => TInv
  <2> SUFFICES ASSUME Init PROVE TInv
    OBVIOUS
  <2>1. \A h \in Handlers : pc[h] = "idle" /\ req[h] = None
    BY DEF Init
  <2> QED
    BY <2>1, BandsAssumption DEF Init, TInv, TypeOK, Serving, Places, DealPlaces,
                                 PriceModes, Quotes
<1>2. TInv /\ [Next]_vars => TInv'
  <2> SUFFICES ASSUME TInv, [Next]_vars PROVE TInv'
    OBVIOUS
  <2> USE DEF TInv, priceVars
  <2>1. ASSUME NEW s \in Sides, AcceptAgreement(s) \/ RevokeAgreement(s) \/ HoldEnds
        PROVE  TInv'
    BY <2>1 DEF AcceptAgreement, RevokeAgreement, HoldEnds, TypeOK, Serving
  <2>2. ASSUME NEW s \in Sides, Restart(s) PROVE TInv'
    <3>1. /\ dpc' \in DealPlaces /\ quote' \in [Sides -> Quotes]
          /\ fresh' \in [Sides -> BOOLEAN]
      BY <2>2 DEF Restart, DealEnds, TypeOK, DealPlaces, Quotes
    <3>2. /\ pc' \in [Handlers -> Places] /\ req' \in [Handlers -> Requests \cup {None}]
          /\ \A h \in Handlers : pc'[h] = "idle" <=> req'[h] = None
          /\ Serving'
      BY <2>2 DEF Restart, TypeOK, Serving, Places
    <3>3. market' \in [Sides -> MarketModes]
      BY <2>2 DEF Restart, TypeOK
    <3> QED
      BY <2>2, <3>1, <3>2, <3>3, BandsAssumption DEF Restart, TypeOK, PriceModes
  <2>3. ASSUME NEW h \in Handlers, NEW r \in Requests, Gate(h, r) PROVE TInv'
    BY <2>3, RequestType DEF Gate, Goto, TypeOK, Serving, Places
  <2>4. ASSUME NEW h \in Handlers, SetMode(h) PROVE TInv'
    <3>1. req[h] \in Requests /\ req[h].kind = "set"
      BY <2>4, BusyType DEF SetMode, Serving
    <3> QED
      BY <2>4, <3>1, RequestType DEF SetMode, Done, Idle, Goto, TypeOK, Serving, Places
  <2>5. ASSUME NEW h \in Handlers, SetBand(h) PROVE TInv'
    <3>1. req[h] \in Requests /\ req[h].kind = "set"
      BY <2>5, BusyType DEF SetBand, Serving
    <3> QED
      BY <2>5, <3>1, RequestType DEF SetBand, Goto, TypeOK, Serving, Places
  <2>6. ASSUME NEW h \in Handlers, Unconfirm(h) \/ Unhash(h) PROVE TInv'
    BY <2>6 DEF Unconfirm, Unhash, Done, Idle, Goto, TypeOK, Serving, Places
  <2>7. ASSUME NEW h \in Handlers, ConfirmContext(h) PROVE TInv'
    <3>1. req[h] \in Requests
      BY <2>7, BusyType DEF ConfirmContext
    <3> QED
      BY <2>7, <3>1, RequestType DEF ConfirmContext, Goto, TypeOK, Serving, Places
  <2>8. ASSUME NEW h \in Handlers, ConfirmFlag(h) \/ ConfirmHash(h) PROVE TInv'
    BY <2>8 DEF ConfirmFlag, ConfirmHash, Done, Idle, Goto, TypeOK, Serving, Places
  <2>9. ASSUME NEW h \in Handlers, SetMarketMode(h) PROVE TInv'
    <3>1. req[h] \in Requests /\ req[h].kind = "market"
      BY <2>9, BusyType DEF SetMarketMode, Serving
    <3> QED
      BY <2>9, <3>1, RequestType DEF SetMarketMode, Idle, Goto, TypeOK, Serving, Places
  <2>10. CASE DealBegins \/ SellAsked \/ Deal
    <3>1. "agentd" \in Sides /\ "plain" \in Quotes
      BY DEF Sides, Quotes
    <3> QED
      BY <2>10, <3>1, DealStep DEF DealBegins, SellAsked, Deal, DealEnds, DealPlaces
  <2>11. CASE BuyPrice
    BY <2>11, PriceType DEF BuyPrice, DealPlaces, Sides
  <2>12. CASE SellPrice
    <3>1. CASE SellAgain
      BY <3>1, DealStep DEF SellAgain, DealEnds, DealPlaces, Sides, Quotes
    <3> QED
      BY <2>12, <3>1, PriceType DEF SellPrice, DealPlaces, Sides
  <2>13. CASE CreateManualBuyOrder
    BY <2>13 DEF CreateManualBuyOrder, TypeOK, Serving
  <2>14. CASE UNCHANGED vars
    BY <2>14 DEF vars, priceVars, TypeOK, Serving
  <2> QED
    BY <2>1, <2>2, <2>3, <2>4, <2>5, <2>6, <2>7, <2>8, <2>9, <2>10, <2>11, <2>12, <2>13,
       <2>14
       DEF Next
<1> QED
  BY <1>1, <1>2, PTL DEF Spec

\* Every variable keeps its type, and a handler has a request while it serves one.
THEOREM PricingTypes == Spec => []TypeOK
BY TypeInvariant, PTL DEF TInv

-----------------------------------------------------------------------------
(* A daemon with one worker thread.  A handler runs there to its end, alone and *)
(* not in the middle of a pricing, so a confirmation can only be pending in one *)
(* place, and what a pricing has read of it is still so.                        *)

HashPlace(s) == IF s = "agentd" THEN "buy_hash" ELSE "sell_hash"
BandPlace(s) == IF s = "agentd" THEN "buy_band" ELSE "sell_band"

\* Handlers exclude each other and the pricing of a deal.
Alone(s) ==
    /\ \A g, h \in Busy(s) : g = h
    /\ Dealing(s) => Busy(s) = {}

\* What can be executed is approved, except between the change of the context and
\* the loss of the flag.
Approved(s) ==
    /\ \A h \in Busy(s) :
        /\ pc[h] = "unhash" => ~confirmed[s]
        /\ pc[h] \in {"confirmed", "hashed"} => approved[s] = rec[s]
    /\ (\A h \in Busy(s) : pc[h] # "unconfirm") /\ Executable(s) => approved[s] = rec[s]

\* A pricing has found flag and hash set.
Priced(s) ==
    /\ dpc = HashPlace(s) => confirmed[s]
    /\ dpc = BandPlace(s) => Executable(s)
    /\ fresh[s]

SideInv(s) == Alone(s) /\ Approved(s) /\ Priced(s)

\* A step that leaves the side alone.
LEMMA OtherSide ==
    ASSUME NEW s \in Sides, SideInv(s),
           /\ rec'[s] = rec[s] /\ approved'[s] = approved[s]
           /\ confirmed'[s] = confirmed[s] /\ hashed'[s] = hashed[s],
           Busy(s)' = Busy(s), \A h \in Busy(s) : pc'[h] = pc[h],
           \/ dpc' = dpc /\ fresh'[s] = fresh[s]
           \/ DealEnds
           \/ dpc' \notin BuyPlaces \cup SellPlaces /\ fresh'[s] = fresh[s]
    PROVE  SideInv(s)'
<1>1. Dealing(s)' => Dealing(s)
  BY DEF DealEnds, Dealing, BuyPlaces, SellPlaces
<1>2. fresh'[s]
  BY DEF SideInv, Priced, DealEnds
<1>3. /\ dpc' = HashPlace(s) => dpc = HashPlace(s)
      /\ dpc' = BandPlace(s) => dpc = BandPlace(s)
  BY DEF HashPlace, BandPlace, DealEnds, BuyPlaces, SellPlaces
<1>4. Alone(s)'
  BY <1>1 DEF SideInv, Alone
<1>5. Approved(s)'
  BY DEF SideInv, Approved, Executable
<1>6. Priced(s)'
  BY <1>2, <1>3 DEF SideInv, Priced, Executable, HashPlace, BandPlace
<1> QED
  BY <1>4, <1>5, <1>6 DEF SideInv

\* A step of the handler that runs on the side.
LEMMA OwnSide ==
    ASSUME TInv, NEW s \in Sides \ Parallel, SideInv(s), NEW h \in Handlers,
           HandlerRuns(h, s), Busy(s)' \subseteq {h},
           UNCHANGED <<dpc, fresh>>,
           h \in Busy(s)' /\ pc'[h] = "unhash" => ~confirmed'[s],
           h \in Busy(s)' /\ pc'[h] \in {"confirmed", "hashed"} => approved'[s] = rec'[s],
           (h \in Busy(s)' => pc'[h] # "unconfirm") /\ Executable(s)' => approved'[s] = rec'[s]
    PROVE  SideInv(s)'
<1>1. ~Dealing(s)
  BY DEF HandlerRuns
<1>2. ~Dealing(s)' /\ dpc' # HashPlace(s) /\ dpc' # BandPlace(s)
  BY <1>1 DEF Dealing, HashPlace, BandPlace, BuyPlaces, SellPlaces, Sides
<1>3. Alone(s)'
  BY <1>2 DEF Alone
<1>4. Approved(s)'
  BY DEF Approved
<1>5. Priced(s)'
  BY <1>2 DEF Priced, SideInv, HashPlace, BandPlace
<1> QED
  BY <1>3, <1>4, <1>5 DEF SideInv

\* A handler's step, seen from the side it works on and from the other.
LEMMA HandlerStep ==
    ASSUME TInv, NEW s \in Sides \ Parallel, SideInv(s), NEW h \in Handlers,
           \/ SetMode(h) \/ SetBand(h) \/ Unconfirm(h) \/ Unhash(h)
           \/ ConfirmContext(h) \/ ConfirmFlag(h) \/ ConfirmHash(h) \/ SetMarketMode(h)
    PROVE  SideInv(s)'
<1> DEFINE t == req[h].side
<1>1. pc[h] # "idle" /\ req[h] \in Requests /\ t \in Sides /\ req[h] # None /\ HandlerRuns(h, t)
  <2>1. pc[h] # "idle" /\ HandlerRuns(h, t)
    BY DEF SetMode, SetBand, Unconfirm, Unhash, ConfirmContext, ConfirmFlag, ConfirmHash,
           SetMarketMode
  <2> QED
    BY <2>1, BusyType, RequestType DEF TInv
<1>2. /\ UNCHANGED <<dpc, fresh>>
      /\ \A g \in Handlers \ {h} : pc'[g] = pc[g] /\ req'[g] = req[g]
      /\ req'[h] = req[h] \/ req'[h] = None
  BY DEF SetMode, SetBand, Unconfirm, Unhash, ConfirmContext, ConfirmFlag, ConfirmHash,
         SetMarketMode, Done, Idle, Goto, TInv, TypeOK
<1>3. CASE s # t
  <2>1. Busy(s)' = Busy(s) /\ h \notin Busy(s)
    BY <1>1, <1>2, <1>3 DEF Busy
  <2>2. \A g \in Busy(s) : pc'[g] = pc[g]
    BY <1>2, <2>1 DEF Busy
  <2>3. /\ rec'[s] = rec[s] /\ approved'[s] = approved[s]
        /\ confirmed'[s] = confirmed[s] /\ hashed'[s] = hashed[s]
    BY <1>3 DEF SetMode, SetBand, Unconfirm, Unhash, ConfirmContext, ConfirmFlag,
                ConfirmHash, SetMarketMode, TInv, TypeOK, priceVars
  <2> QED
    BY <1>2, <2>1, <2>2, <2>3, OtherSide
<1>4. CASE s = t
  <2>1. h \in Busy(s) /\ Busy(s) = {h}
    BY <1>1, <1>4 DEF Busy, HandlerRuns
  <2>2. Busy(s)' \subseteq {h}
    BY <1>2, <2>1 DEF Busy
  <2>3. /\ pc[h] = "unhash" => ~confirmed[s]
        /\ pc[h] \in {"confirmed", "hashed"} => approved[s] = rec[s]
        /\ pc[h] # "unconfirm" /\ Executable(s) => approved[s] = rec[s]
    BY <2>1 DEF SideInv, Approved
  <2>4. HandlerRuns(h, s)
    BY <1>1, <1>4
  <2>5. /\ req'[h] = None => h \notin Busy(s)'
        /\ Executable(s) <=> confirmed[s] /\ hashed[s]
        /\ Executable(s)' <=> confirmed'[s] /\ hashed'[s]
    BY DEF Busy, Executable
  <2> USE DEF TInv, TypeOK, Goto
  <2>6. CASE SetMode(h)
    <3>1. \/ pc'[h] = "band"
          \/ req'[h] = None
      BY <2>6 DEF SetMode, Done, Idle
    <3>2. UNCHANGED <<rec, confirmed, hashed, approved>> /\ pc[h] = "set"
      BY <2>6 DEF SetMode
    <3>3. Executable(s)' => approved'[s] = rec'[s]
      BY <2>3, <2>5, <3>2
    <3>4. h \in Busy(s)' => pc'[h] = "band"
      BY <2>5, <3>1
    <3> QED
      BY <1>2, <2>2, <2>4, <3>3, <3>4, OwnSide
  <2>7. CASE SetBand(h) \/ (SetMarketMode(h) /\ pc'[h] = "unconfirm")
    <3>1. pc'[h] = "unconfirm" /\ req'[h] = req[h]
      BY <2>7 DEF SetBand, SetMarketMode, Idle
    <3>2. h \in Busy(s)'
      BY <1>1, <1>4, <3>1 DEF Busy
    <3> QED
      BY <1>2, <2>2, <2>4, <3>1, <3>2, OwnSide
  <2>8. CASE SetMarketMode(h) /\ pc'[h] # "unconfirm"
    <3>1. UNCHANGED <<rec, confirmed, hashed, approved>> /\ pc[h] = "market" /\ req'[h] = None
      BY <2>8 DEF SetMarketMode, Idle, priceVars
    <3> QED
      BY <1>2, <2>2, <2>3, <2>4, <2>5, <3>1, OwnSide
  <2>9. CASE Unconfirm(h)
    <3>1. ~confirmed'[s] /\ pc'[h] = "unhash"
      BY <1>4, <2>9 DEF Unconfirm
    <3> QED
      BY <1>2, <2>2, <2>4, <2>5, <3>1, OwnSide
  <2>10. CASE Unhash(h)
    <3>1. ~hashed'[s] /\ req'[h] = None
      BY <1>4, <2>10 DEF Unhash, Done, Idle
    <3> QED
      BY <1>2, <2>2, <2>4, <2>5, <3>1, OwnSide
  <2>11. CASE ConfirmContext(h)
    <3>1. approved'[s] = rec'[s] /\ pc'[h] = "confirmed"
      BY <1>4, <2>11 DEF ConfirmContext, priceVars
    <3> QED
      BY <1>2, <2>2, <2>4, <3>1, OwnSide
  <2>12. CASE ConfirmFlag(h)
    <3>1. approved'[s] = rec'[s] /\ pc'[h] = "hashed"
      BY <2>3, <2>12 DEF ConfirmFlag
    <3> QED
      BY <1>2, <2>2, <2>4, <3>1, OwnSide
  <2>13. CASE ConfirmHash(h)
    <3>1. approved'[s] = rec'[s] /\ req'[h] = None
      BY <2>3, <2>13 DEF ConfirmHash, Done, Idle
    <3> QED
      BY <1>2, <2>2, <2>4, <2>5, <3>1, OwnSide
  <2> QED
    BY <2>6, <2>7, <2>8, <2>9, <2>10, <2>11, <2>12, <2>13
<1> QED
  BY <1>3, <1>4

\* A step of the pricing of side t.
LEMMA PriceStep ==
    ASSUME TInv, NEW s \in Sides \ Parallel, SideInv(s), NEW t \in Sides,
           \/ PriceMode(t, IF t = "agentd" THEN "buy" ELSE "sell",
                           IF t = "agentd" THEN "buy_flag" ELSE "sell_flag",
                           IF t = "agentd" THEN "asked" ELSE "answered")
           \/ PriceFlag(t, IF t = "agentd" THEN "buy_flag" ELSE "sell_flag", HashPlace(t))
           \/ PriceHash(t, HashPlace(t), BandPlace(t))
           \/ PriceBand(t, BandPlace(t), IF t = "agentd" THEN "asked" ELSE "answered")
    PROVE  SideInv(s)'
<1> USE DEF priceVars
<1>1. UNCHANGED <<rec, approved, confirmed, hashed, pc, req>> /\ Busy(s)' = Busy(s)
  BY DEF PriceMode, PriceFlag, PriceHash, PriceBand, Busy
<1>2. DealRuns(t) /\ Dealing(t)
  BY DEF PriceMode, PriceFlag, PriceHash, PriceBand, Dealing, BuyPlaces, SellPlaces,
         HashPlace, BandPlace, Sides
<1>3. CASE s # t
  <2>1. \/ dpc' \notin BuyPlaces \cup SellPlaces
        \/ ~Dealing(s)' /\ dpc' \notin {HashPlace(s), BandPlace(s)}
    BY <1>3 DEF PriceMode, PriceFlag, PriceHash, PriceBand, DealEnds, Dealing, BuyPlaces,
                SellPlaces, HashPlace, BandPlace, Sides
  <2>2. fresh'[s] = fresh[s] \/ DealEnds
    BY <1>3 DEF PriceMode, PriceFlag, PriceHash, PriceBand, QuoteOf, TInv, TypeOK
  <2>3. ~Dealing(s)' /\ dpc' \notin {HashPlace(s), BandPlace(s)}
    BY <2>1 DEF Dealing, BuyPlaces, SellPlaces, HashPlace, BandPlace
  <2>4. fresh'[s]
    BY <2>2 DEF DealEnds, SideInv, Priced
  <2>5. Alone(s)' /\ Approved(s)'
    BY <1>1, <2>3 DEF SideInv, Alone, Approved, Executable
  <2>6. Priced(s)'
    BY <2>3, <2>4 DEF Priced, HashPlace, BandPlace
  <2> QED
    BY <2>5, <2>6 DEF SideInv
<1>4. CASE s = t
  <2>1. Busy(s) = {}
    BY <1>2, <1>4 DEF DealRuns
  <2>2. Executable(s) => approved[s] = rec[s]
    BY <2>1 DEF SideInv, Approved
  <2>3. Alone(s)' /\ Approved(s)'
    BY <1>1, <2>1 DEF SideInv, Alone, Approved, Executable
  <2>4. CASE DealEnds
    BY <2>3, <2>4 DEF DealEnds, SideInv, Priced, HashPlace, BandPlace
  <2>5. CASE PriceMode(t, IF t = "agentd" THEN "buy" ELSE "sell",
                          IF t = "agentd" THEN "buy_flag" ELSE "sell_flag",
                          IF t = "agentd" THEN "asked" ELSE "answered")
    <3>1. dpc' \notin {HashPlace(s), BandPlace(s)} /\ fresh'[s]
      BY <1>4, <2>5 DEF PriceMode, QuoteOf, HashPlace, BandPlace, SideInv, Priced, TInv,
                        TypeOK, Sides
    <3> QED
      BY <2>3, <3>1 DEF SideInv, Priced, HashPlace, BandPlace
  <2>6. CASE /\ ~DealEnds
             /\ PriceFlag(t, IF t = "agentd" THEN "buy_flag" ELSE "sell_flag", HashPlace(t))
    <3>1. /\ dpc' # BandPlace(s) /\ fresh'[s]
          /\ dpc' = HashPlace(s) => confirmed'[s]
      BY <1>4, <2>6 DEF PriceFlag, HashPlace, BandPlace, SideInv, Priced, Sides
    <3> QED
      BY <2>3, <3>1 DEF SideInv, Priced, HashPlace, BandPlace
  <2>7. CASE ~DealEnds /\ PriceHash(t, HashPlace(t), BandPlace(t))
    <3>1. dpc = HashPlace(s) /\ confirmed[s]
      BY <1>4, <2>7 DEF PriceHash, SideInv, Priced
    <3>2. /\ dpc' # HashPlace(s) /\ fresh'[s]
          /\ dpc' = BandPlace(s) => confirmed'[s] /\ hashed'[s]
      BY <1>4, <2>7, <3>1 DEF PriceHash, HashPlace, BandPlace, SideInv, Priced, Sides
    <3> QED
      BY <2>3, <3>2 DEF SideInv, Priced, Executable, HashPlace, BandPlace
  <2>8. CASE PriceBand(t, BandPlace(t), IF t = "agentd" THEN "asked" ELSE "answered")
    <3>1. Executable(s)
      BY <1>4, <2>8 DEF PriceBand, SideInv, Priced
    <3>2. dpc' \notin {HashPlace(s), BandPlace(s)} /\ fresh'[s]
      BY <1>4, <2>2, <2>8, <3>1 DEF PriceBand, QuoteOf, HashPlace, BandPlace, TInv, TypeOK,
                                   Sides
    <3> QED
      BY <2>3, <3>2 DEF SideInv, Priced, HashPlace, BandPlace
  <2> QED
    BY <2>4, <2>5, <2>6, <2>7, <2>8
<1> QED
  BY <1>3, <1>4

LEMMA SideInvariant == Spec => [](\A s \in Sides \ Parallel : SideInv(s))
<1> DEFINE Inv == \A s \in Sides \ Parallel : SideInv(s)
<1>1. Init => Inv
  <2> SUFFICES ASSUME Init, NEW s \in Sides \ Parallel PROVE SideInv(s)
    OBVIOUS
  <2>1. Busy(s) = {}
    BY DEF Init, Busy
  <2> QED
    BY <2>1 DEF Init, SideInv, Alone, Approved, Priced, Dealing, BuyPlaces, SellPlaces,
                Executable, HashPlace, BandPlace
<1>2. TInv /\ Inv /\ [Next]_vars => Inv'
  <2> SUFFICES ASSUME TInv, Inv, [Next]_vars, NEW s \in Sides \ Parallel PROVE SideInv(s)'
    OBVIOUS
  <2>1. SideInv(s)
    OBVIOUS
  <2> HIDE DEF Inv
  <2> USE DEF priceVars
  <2>2. ASSUME NEW t \in Sides, AcceptAgreement(t) \/ RevokeAgreement(t) \/ HoldEnds
        PROVE  SideInv(s)'
    BY <2>1, <2>2, OtherSide DEF AcceptAgreement, RevokeAgreement, HoldEnds, Busy
  <2>3. ASSUME NEW t \in Sides, Restart(t) PROVE SideInv(s)'
    <3>1. CASE s # t
      <4>1. Busy(s)' = Busy(s)
        BY <2>3, <3>1 DEF Restart, Busy
      <4>2. \A h \in Busy(s) : pc'[h] = pc[h]
        BY <2>3, <3>1 DEF Restart, Busy
      <4>3. /\ rec'[s] = rec[s] /\ approved'[s] = approved[s]
            /\ confirmed'[s] = confirmed[s] /\ hashed'[s] = hashed[s]
        BY <2>3, <3>1 DEF Restart, TInv, TypeOK
      <4>4. (dpc' = dpc /\ fresh'[s] = fresh[s]) \/ DealEnds
        BY <2>3 DEF Restart
      <4> QED
        BY <2>1, <4>1, <4>2, <4>3, <4>4, OtherSide
    <3>2. CASE s = t
      <4>1. Busy(s)' = {} /\ ~confirmed'[s]
        BY <2>3, <3>2 DEF Restart, Busy, TInv, TypeOK
      <4>2. fresh'[s] /\ dpc' \notin {HashPlace(s), BandPlace(s)}
        BY <2>1, <2>3, <3>2 DEF Restart, DealEnds, SideInv, Priced, HashPlace, BandPlace,
                                SellPlaces, Sides
      <4> QED
        BY <4>1, <4>2 DEF SideInv, Alone, Approved, Priced, Executable, HashPlace, BandPlace
    <3> QED
      BY <3>1, <3>2
  <2>4. ASSUME NEW h \in Handlers, NEW r \in Requests, Gate(h, r) PROVE SideInv(s)'
    <3>1. /\ UNCHANGED <<rec, confirmed, hashed, approved, dpc, fresh>>
          /\ HandlerRuns(h, r.side) /\ h \notin Busy(s)
          /\ \A g \in Handlers \ {h} : pc'[g] = pc[g] /\ req'[g] = req[g]
          /\ req'[h] = r /\ r # None /\ pc'[h] = r.kind
      BY <2>4, RequestType DEF Gate, Goto, TInv, TypeOK, Busy
    <3>2. CASE s # r.side
      <4>1. Busy(s)' = Busy(s) /\ \A g \in Busy(s) : pc'[g] = pc[g]
        BY <3>1, <3>2 DEF Busy
      <4> QED
        BY <2>1, <3>1, <4>1, OtherSide
    <3>3. CASE s = r.side
      <4>1. Busy(s) = {} /\ HandlerRuns(h, s)
        BY <3>1, <3>3 DEF HandlerRuns
      <4>2. Busy(s)' \subseteq {h}
        BY <3>1, <4>1 DEF Busy
      <4>3. Executable(s)' => approved'[s] = rec'[s]
        BY <2>1, <3>1, <4>1 DEF SideInv, Approved, Executable
      <4>4. pc'[h] \notin {"unhash", "confirmed", "hashed", "unconfirm"}
        BY <3>1, RequestType
      <4> QED
        BY <2>1, <3>1, <4>1, <4>2, <4>3, <4>4, OwnSide
    <3> QED
      BY <3>2, <3>3
  <2>5. ASSUME NEW h \in Handlers,
               \/ SetMode(h) \/ SetBand(h) \/ Unconfirm(h) \/ Unhash(h)
               \/ ConfirmContext(h) \/ ConfirmFlag(h) \/ ConfirmHash(h) \/ SetMarketMode(h)
        PROVE  SideInv(s)'
    BY <2>1, <2>5, HandlerStep
  <2>6. CASE DealBegins \/ SellAsked
    <3>1. PICK t \in Sides : /\ DealRuns(t)
                             /\ dpc' \in {IF t = "agentd" THEN "buy" ELSE "sell", "asked"}
                             /\ UNCHANGED <<priceVars, pc, req, approved>>
                             /\ fresh'[s] = fresh[s] \/ fresh'[s]
      BY <2>6 DEF DealBegins, SellAsked, QuoteOf, Sides, TInv, TypeOK
    <3>2. Busy(s)' = Busy(s) /\ (Dealing(s)' => Busy(s) = {})
      BY <3>1 DEF Busy, Dealing, DealRuns, BuyPlaces, SellPlaces, Sides
    <3>3. dpc' \notin {HashPlace(s), BandPlace(s)}
      BY <3>1 DEF HashPlace, BandPlace
    <3>4. Alone(s)'
      BY <2>1, <3>2 DEF SideInv, Alone
    <3>5. Approved(s)'
      BY <2>1, <3>1, <3>2 DEF SideInv, Approved, Executable
    <3>6. Priced(s)'
      BY <2>1, <3>1, <3>3 DEF SideInv, Priced, HashPlace, BandPlace
    <3> QED
      BY <3>4, <3>5, <3>6 DEF SideInv
  <2>7. CASE BuyPrice
    BY <2>1, <2>7, PriceStep DEF BuyPrice, HashPlace, BandPlace, Sides
  <2>8. CASE SellAgain \/ Deal
    <3>1. UNCHANGED <<rec, approved, confirmed, hashed, pc>> /\ Busy(s)' = Busy(s)
      BY <2>8 DEF SellAgain, Deal, Busy
    <3>2. DealEnds \/ (dpc' \notin BuyPlaces \cup SellPlaces /\ fresh'[s] = fresh[s])
      BY <2>1, <2>8 DEF SellAgain, Deal, QuoteOf, BuyPlaces, SellPlaces, TInv, TypeOK,
                        SideInv, Priced
    <3> QED
      BY <2>1, <3>1, <3>2, OtherSide
  <2>9. CASE SellPrice
    BY <2>1, <2>8, <2>9, PriceStep DEF SellPrice, HashPlace, BandPlace, Sides
  <2>10. CASE CreateManualBuyOrder
    BY <2>1, <2>10, OtherSide DEF CreateManualBuyOrder, Busy
  <2>11. CASE UNCHANGED vars
    BY <2>1, <2>11, OtherSide DEF vars, Busy
  <2> QED
    BY <2>2, <2>3, <2>4, <2>5, <2>6, <2>7, <2>8, <2>9, <2>10, <2>11 DEF Next
<1> QED
  BY <1>1, <1>2, TypeInvariant, PTL DEF Spec

\* Between the requests a daemon with one worker thread has no executable band but
\* the one that was confirmed, whatever the handlers do to mode, band and market.
THEOREM ConfirmationsHold == Spec => []ExecutableApproved
<1>1. (\A s \in Sides \ Parallel : SideInv(s)) => ExecutableApproved
  BY DEF SideInv, Approved, ExecutableApproved
<1> QED
  BY <1>1, SideInvariant, PTL

\* Such a daemon never quotes a band that is not confirmed when it is read.
THEOREM QuotesHold == Spec => []QuotedApproved
<1>1. (\A s \in Sides \ Parallel : SideInv(s)) => QuotedApproved
  BY DEF SideInv, Priced, QuotedApproved
<1> QED
  BY <1>1, SideInvariant, PTL
=============================================================================
