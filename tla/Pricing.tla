------------------------------ MODULE Pricing ------------------------------
(***************************************************************************)
(* The prices the two daemons quote, and who may change them.              *)
(*                                                                         *)
(* Each daemon has a pricing mode.  In recommended_band it quotes a band   *)
(* that the daemon or a request proposed, and only while an operator has   *)
(* confirmed it: every change of the band and every switch of the market   *)
(* mode takes the confirmation back.  Mode, band, the flag and the hash of *)
(* the confirmation are a mutex each, taken and given back one by one, and *)
(* the hash is stored but never compared.                                  *)
(*                                                                         *)
(* A deal is made on quotes: accept_match prices its buy orders, waits for *)
(* the provider's priced sell orders, and then accepts.                    *)
(*                                                                         *)
(* Prices themselves are left out: whether two quotes meet is a choice.    *)
(* So are audit lines, events and the dispute of an invalidation.          *)
(***************************************************************************)
EXTENDS Integers, FiniteSets

CONSTANTS
    Handlers,   \* the tokio tasks that serve the operators' requests
    Bands,      \* recommended bands
    Default,    \* the band both daemons start with
    None,
    Parallel    \* the daemons that run on more than one worker thread

Sides == {"agentd", "providerd"}

ASSUME BandsAssumption == Default \in Bands /\ None \notin Bands
ASSUME ParallelAssumption == Parallel \subseteq Sides

VARIABLES
    accepted,          \* the automation agreement of the daemon, with its scopes
    market,            \* market_mode
    pmode,             \* pricing_mode, "plain" for fixed and band
    rec,               \* recommended_band
    confirmed, hashed, \* recommended_confirmed, recommended_confirmed_hash.is_some()
    held,              \* agentd: auto_pause_until_tick is not reached
    pc, req,           \* the place of each handler, and its request
    dpc, quote,        \* the place of accept_match, and what each side has quoted
    approved,          \* of the model: the band an operator last confirmed, None
                       \* since it was replaced or the context changed
    fresh              \* of the model: the quote was of a band so approved

priceVars == <<pmode, rec, confirmed, hashed>>
vars == <<accepted, market, priceVars, held, pc, req, dpc, quote, approved, fresh>>

-----------------------------------------------------------------------------
MarketModes == {"manual", "auto", "hybrid"}
PriceModes  == {"plain", "recommended"}

Requests ==
    [kind : {"set"}, side : Sides, mode : PriceModes, band : Bands]
    \cup [kind : {"confirm"}, side : Sides]
    \cup [kind : {"market"}, side : Sides, to : MarketModes]

\* set_market_pricing, confirm_recommended_band and set_market_mode, the last
\* two statements of invalidate_recommended_confirmation in all of them.
Places == {"idle", "set", "band", "confirm", "confirmed", "hashed", "market",
           "unconfirm", "unhash"}
\* accept_match: pricing the buy orders, the request for sell orders under way,
\* their pricing at the provider, their answer under way, the acceptance.
DealPlaces == {"idle", "buy", "buy_flag", "buy_hash", "buy_band", "asked",
               "sell", "sell_flag", "sell_hash", "sell_band", "sell_again", "answered"}

BuyPlaces  == {"buy", "buy_flag", "buy_hash", "buy_band"}
SellPlaces == {"sell", "sell_flag", "sell_hash", "sell_band", "sell_again"}

Quotes == {"none", "plain"} \cup Bands
ASSUME QuotesAssumption ==
    {"none", "plain"} \cap (Bands \cup {None}) = {} /\ None \notin Requests

TypeOK ==
    /\ accepted \in [Sides -> BOOLEAN]
    /\ market \in [Sides -> MarketModes]
    /\ pmode \in [Sides -> PriceModes]
    /\ rec \in [Sides -> Bands]
    /\ confirmed \in [Sides -> BOOLEAN] /\ hashed \in [Sides -> BOOLEAN]
    /\ held \in BOOLEAN
    /\ pc \in [Handlers -> Places]
    /\ req \in [Handlers -> Requests \cup {None}]
    /\ \A h \in Handlers : pc[h] = "idle" <=> req[h] = None
    /\ dpc \in DealPlaces
    /\ quote \in [Sides -> Quotes]
    /\ approved \in [Sides -> Bands \cup {None}]
    /\ fresh \in [Sides -> BOOLEAN]

\* Who is in the middle of something that has no await on side s.
Busy(s) == {h \in Handlers : req[h] # None /\ req[h].side = s}
Dealing(s) == IF s = "agentd" THEN dpc \in BuyPlaces ELSE dpc \in SellPlaces

\* With one worker thread a daemon runs a task from await to await.
HandlerRuns(h, s) == s \in Parallel \/ (Busy(s) \subseteq {h} /\ ~Dealing(s))
DealRuns(s)       == s \in Parallel \/ Busy(s) = {}

\* The environment may start a daemon in any market mode.
Init ==
    /\ accepted = [s \in Sides |-> FALSE]
    /\ market \in [Sides -> MarketModes]
    /\ pmode = [s \in Sides |-> "plain"]
    /\ rec = [s \in Sides |-> Default]
    /\ confirmed = [s \in Sides |-> FALSE] /\ hashed = [s \in Sides |-> FALSE]
    /\ held = FALSE
    /\ pc = [h \in Handlers |-> "idle"]
    /\ req = [h \in Handlers |-> None]
    /\ dpc = "idle" /\ quote = [s \in Sides |-> "none"]
    /\ approved = [s \in Sides |-> None] /\ fresh = [s \in Sides |-> TRUE]

Goto(h, place) == pc' = [pc EXCEPT ![h] = place]

-----------------------------------------------------------------------------
(* The agreement, without which no price and no automatic mode is accepted. *)

AcceptAgreement(s) ==
    /\ accepted' = [accepted EXCEPT ![s] = TRUE]
    /\ UNCHANGED <<market, priceVars, held, pc, req, dpc, quote, approved, fresh>>

RevokeAgreement(s) ==
    /\ accepted' = [accepted EXCEPT ![s] = FALSE]
    /\ UNCHANGED <<market, priceVars, held, pc, req, dpc, quote, approved, fresh>>

\* A switch to manual needs no agreement.
Gated(r) == r.kind # "market" \/ r.to # "manual"

\* The gate: a request that is refused changes nothing.
Gate(h, r) ==
    /\ HandlerRuns(h, r.side)
    /\ pc[h] = "idle"
    /\ Gated(r) => accepted[r.side]
    /\ req' = [req EXCEPT ![h] = r]
    /\ Goto(h, r.kind)
    /\ UNCHANGED <<accepted, market, priceVars, held, dpc, quote, approved, fresh>>

\* A mutant of Idle: the handler keeps its request.
IdleKeepsRequest(h) == Goto(h, "idle") /\ UNCHANGED req

Idle(h) == Goto(h, "idle") /\ req' = [req EXCEPT ![h] = None]

\* set_auto_pause_for_manual_override, the last of each handler.  That of the
\* provider delays nothing that is modelled here.
Done(h, s) ==
    /\ held' = (held \/ (s = "agentd" /\ market[s] = "auto"))
    /\ Idle(h)

HoldEnds ==
    /\ held /\ held' = FALSE
    /\ UNCHANGED <<accepted, market, priceVars, pc, req, dpc, quote, approved, fresh>>

\* POST /internal/market/orders/buy/manual, in any market mode and without the
\* gate.  The orders are not kept here: whenever a deal may begin on one in a manual
\* market, one may have been created just before.
CreateManualBuyOrder ==
    /\ "agentd" \in Parallel \/ (Busy("agentd") = {} /\ ~Dealing("agentd"))
    /\ held' = (held \/ market["agentd"] = "auto")
    /\ UNCHANGED <<accepted, market, priceVars, pc, req, dpc, quote, approved, fresh>>

-----------------------------------------------------------------------------
(* POST /internal/market/pricing                                           *)

SetMode(h) ==
    LET r == req[h] IN
    /\ pc[h] = "set" /\ HandlerRuns(h, r.side)
    /\ pmode' = [pmode EXCEPT ![r.side] = r.mode]
    /\ IF r.mode = "recommended" THEN Goto(h, "band") /\ UNCHANGED <<held, req>>
                                 ELSE Done(h, r.side)
    /\ UNCHANGED <<accepted, market, rec, confirmed, hashed, dpc, quote,
                   approved, fresh>>

\* A mutant of SetBand: the old confirmation is not taken back.
SetBandSilently(h) ==
    LET r == req[h] IN
    /\ pc[h] = "band" /\ HandlerRuns(h, r.side)
    /\ rec' = [rec EXCEPT ![r.side] = r.band]
    /\ approved' = [approved EXCEPT ![r.side] = None]
    /\ Done(h, r.side)
    /\ UNCHANGED <<accepted, market, pmode, confirmed, hashed, dpc, quote, fresh>>

\* The band of the request, or the one the daemon suggests.
SetBand(h) ==
    LET r == req[h] IN
    /\ pc[h] = "band" /\ HandlerRuns(h, r.side)
    /\ rec' = [rec EXCEPT ![r.side] = r.band]
    /\ approved' = [approved EXCEPT ![r.side] = None]
    /\ Goto(h, "unconfirm")
    /\ UNCHANGED <<accepted, market, pmode, confirmed, hashed, held, req, dpc, quote, fresh>>

-----------------------------------------------------------------------------
(* invalidate_recommended_confirmation                                     *)

Unconfirm(h) ==
    LET s == req[h].side IN
    /\ pc[h] = "unconfirm" /\ HandlerRuns(h, s)
    /\ confirmed' = [confirmed EXCEPT ![s] = FALSE]
    /\ Goto(h, "unhash")
    /\ UNCHANGED <<accepted, market, pmode, rec, hashed, held, req, dpc, quote,
                   approved, fresh>>

Unhash(h) ==
    LET s == req[h].side IN
    /\ pc[h] = "unhash" /\ HandlerRuns(h, s)
    /\ hashed' = [hashed EXCEPT ![s] = FALSE]
    /\ Done(h, s)
    /\ UNCHANGED <<accepted, market, pmode, rec, confirmed, dpc, quote, approved, fresh>>

-----------------------------------------------------------------------------
(* POST /internal/market/pricing/recommended/confirm                       *)

\* current_recommended_context_hash: what the operator confirms is read here.
ConfirmContext(h) ==
    LET s == req[h].side IN
    /\ pc[h] = "confirm" /\ HandlerRuns(h, s)
    /\ approved' = [approved EXCEPT ![s] = rec[s]]
    /\ Goto(h, "confirmed")
    /\ UNCHANGED <<accepted, market, priceVars, held, req, dpc, quote, fresh>>

ConfirmFlag(h) ==
    LET s == req[h].side IN
    /\ pc[h] = "confirmed" /\ HandlerRuns(h, s)
    /\ confirmed' = [confirmed EXCEPT ![s] = TRUE]
    /\ Goto(h, "hashed")
    /\ UNCHANGED <<accepted, market, pmode, rec, hashed, held, req, dpc, quote,
                   approved, fresh>>

ConfirmHash(h) ==
    LET s == req[h].side IN
    /\ pc[h] = "hashed" /\ HandlerRuns(h, s)
    /\ hashed' = [hashed EXCEPT ![s] = TRUE]
    /\ Done(h, s)
    /\ UNCHANGED <<accepted, market, pmode, rec, confirmed, dpc, quote, approved, fresh>>

-----------------------------------------------------------------------------
(* POST /internal/market/mode                                              *)

\* A mutant of SetMarketMode: converge_mode_state keeps the confirmation.
SetMarketModeOnly(h) ==
    LET r == req[h] IN
    /\ pc[h] = "market" /\ HandlerRuns(h, r.side)
    /\ market' = [market EXCEPT ![r.side] = r.to]
    /\ approved' = [approved EXCEPT ![r.side] = IF market[r.side] = r.to THEN @ ELSE None]
    /\ Idle(h)
    /\ UNCHANGED <<accepted, priceVars, held, dpc, quote, fresh>>

\* converge_mode_state does nothing if the mode is the same.  It pauses the
\* automatic actions if the new mode is auto.
SetMarketMode(h) ==
    LET r == req[h] IN
    /\ pc[h] = "market" /\ HandlerRuns(h, r.side)
    /\ market' = [market EXCEPT ![r.side] = r.to]
    /\ IF market[r.side] = r.to
       THEN Idle(h) /\ UNCHANGED approved
       ELSE /\ approved' = [approved EXCEPT ![r.side] = None]
            /\ Goto(h, "unconfirm") /\ UNCHANGED req
    /\ UNCHANGED <<accepted, priceVars, held, dpc, quote, fresh>>

-----------------------------------------------------------------------------
(* A deal.                                                                 *)

QuoteOf(s, q, ok) ==
    /\ quote' = [quote EXCEPT ![s] = q]
    /\ fresh' = [fresh EXCEPT ![s] = ok]

DealEnds ==
    /\ dpc' = "idle"
    /\ quote' = [s \in Sides |-> "none"] /\ fresh' = [s \in Sides |-> TRUE]

\* collect_buy_orders: a manual market has the orders an operator created, at
\* their own prices; a paused automatic one has none; otherwise the orders of the
\* tasks are priced.
DealBegins ==
    /\ dpc = "idle" /\ DealRuns("agentd")
    /\ \/ /\ market["agentd"] = "manual"
          /\ dpc' = "asked" /\ QuoteOf("agentd", "plain", TRUE)
       \/ /\ market["agentd"] = "hybrid" \/ (market["agentd"] = "auto" /\ ~held)
          /\ dpc' = "buy" /\ UNCHANGED <<quote, fresh>>
    /\ UNCHANGED <<accepted, market, priceVars, held, pc, req, approved>>

\* configured_buy_price and configured_provider_price are alike: mode, then
\* recommended_confirmation_is_current (flag, then hash), then the band.
PriceMode(s, at, flag, next) ==
    /\ dpc = at /\ DealRuns(s)
    /\ IF pmode[s] = "recommended"
       THEN dpc' = flag /\ UNCHANGED <<quote, fresh>>
       ELSE dpc' = next /\ QuoteOf(s, "plain", TRUE)
    /\ UNCHANGED <<accepted, market, priceVars, held, pc, req, approved>>

\* Without a price the agent has no buy orders and accepts nothing.
PriceFlag(s, at, hash) ==
    /\ dpc = at /\ DealRuns(s)
    /\ IF confirmed[s] THEN dpc' = hash /\ UNCHANGED <<quote, fresh>>
       ELSE IF s = "agentd" THEN DealEnds
       ELSE dpc' = "sell_again" /\ UNCHANGED <<quote, fresh>>
    /\ UNCHANGED <<accepted, market, priceVars, held, pc, req, approved>>

PriceHash(s, at, band) ==
    /\ dpc = at /\ DealRuns(s)
    /\ IF hashed[s] THEN dpc' = band /\ UNCHANGED <<quote, fresh>>
       ELSE IF s = "agentd" THEN DealEnds
       ELSE dpc' = "sell_again" /\ UNCHANGED <<quote, fresh>>
    /\ UNCHANGED <<accepted, market, priceVars, held, pc, req, approved>>

PriceBand(s, at, next) ==
    /\ dpc = at /\ DealRuns(s)
    /\ QuoteOf(s, rec[s], approved[s] = rec[s])
    /\ dpc' = next
    /\ UNCHANGED <<accepted, market, priceVars, held, pc, req, approved>>

BuyPrice ==
    \/ PriceMode("agentd", "buy", "buy_flag", "asked")
    \/ PriceFlag("agentd", "buy_flag", "buy_hash")
    \/ PriceHash("agentd", "buy_hash", "buy_band")
    \/ PriceBand("agentd", "buy_band", "asked")

\* The request reaches the provider.
SellAsked ==
    /\ dpc = "asked" /\ DealRuns("providerd")
    /\ dpc' = "sell"
    /\ UNCHANGED <<accepted, market, priceVars, held, pc, req, quote, approved, fresh>>

\* An order without a price is blocked if the mode, read again, is still
\* recommended; otherwise it is listed with the price stored in it.
SellAgain ==
    /\ dpc = "sell_again" /\ DealRuns("providerd")
    /\ IF pmode["providerd"] = "recommended"
       THEN DealEnds
       ELSE dpc' = "answered" /\ QuoteOf("providerd", "plain", TRUE)
    /\ UNCHANGED <<accepted, market, priceVars, held, pc, req, approved>>

SellPrice ==
    \/ PriceMode("providerd", "sell", "sell_flag", "answered")
    \/ PriceFlag("providerd", "sell_flag", "sell_hash")
    \/ PriceHash("providerd", "sell_hash", "sell_band")
    \/ PriceBand("providerd", "sell_band", "answered")
    \/ SellAgain

\* compute_matches on the two quotes: they meet and the match is accepted, or not.
Deal ==
    /\ dpc = "answered" /\ DealRuns("agentd")
    /\ DealEnds
    /\ UNCHANGED <<accepted, market, priceVars, held, pc, req, approved>>

-----------------------------------------------------------------------------
\* Neither the agreement nor anything about prices is persisted; manual orders are.
Restart(s) ==
    /\ accepted' = [accepted EXCEPT ![s] = FALSE]
    /\ market' \in {[market EXCEPT ![s] = m] : m \in MarketModes}
    /\ pmode' = [pmode EXCEPT ![s] = "plain"]
    /\ rec' = [rec EXCEPT ![s] = Default]
    /\ confirmed' = [confirmed EXCEPT ![s] = FALSE]
    /\ hashed' = [hashed EXCEPT ![s] = FALSE]
    /\ held' = (held /\ s # "agentd")
    /\ pc' = [h \in Handlers |-> IF h \in Busy(s) THEN "idle" ELSE pc[h]]
    /\ req' = [h \in Handlers |-> IF h \in Busy(s) THEN None ELSE req[h]]
    /\ IF s = "agentd" \/ dpc \in SellPlaces
       THEN DealEnds ELSE UNCHANGED <<dpc, quote, fresh>>
    /\ approved' = [approved EXCEPT ![s] = None]

Next ==
    \/ \E s \in Sides :
        AcceptAgreement(s) \/ RevokeAgreement(s) \/ HoldEnds \/ Restart(s)
    \/ \E h \in Handlers :
        \/ \E r \in Requests : Gate(h, r)
        \/ SetMode(h) \/ SetBand(h) \/ Unconfirm(h) \/ Unhash(h)
        \/ ConfirmContext(h) \/ ConfirmFlag(h) \/ ConfirmHash(h)
        \/ SetMarketMode(h)
    \/ CreateManualBuyOrder
    \/ DealBegins \/ BuyPrice \/ SellAsked \/ SellPrice \/ Deal

Spec == Init /\ [][Next]_vars

-----------------------------------------------------------------------------
(* Properties.                                                             *)

Executable(s) == confirmed[s] /\ hashed[s]

\* On a daemon with one worker thread a recommended band is executable, between
\* the requests, only if it is the one an operator confirmed, and neither band
\* nor market mode was set since (docs/acceptance.md:289, 458).
ExecutableApproved ==
    \A s \in Sides \ Parallel :
        Busy(s) = {} /\ Executable(s) => approved[s] = rec[s]

\* Such a daemon has never quoted a recommended band that was not so confirmed
\* when it was read, although flag, hash and band are read one after the other.
QuotedApproved == \A s \in Sides \ Parallel : fresh[s]

\* A band is executable only if it is the one that was confirmed, on any number of
\* worker threads: the confirmation is bound to the hash of its context
\* (docs/technical-breakdown.md:154, docs/acceptance.md:289).
BandConfirmed == \A s \in Sides : Busy(s) = {} /\ Executable(s) => approved[s] = rec[s]
=============================================================================
