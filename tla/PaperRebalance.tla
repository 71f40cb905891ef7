--------------------------- MODULE PaperRebalance ---------------------------
(***************************************************************************)
(* Rebalancing the paper account: preview, confirmation token and          *)
(* execution (api/v1/endpoints/rebalance.py, oms/rebalance_service.py,     *)
(* oms/rebalance_token.py), executed directly or as a copilot draft        *)
(* (copilot/execute.py), next to the orders of PaperTrading.               *)
(*                                                                         *)
(* An execution reads the positions, checks the token and sends its first  *)
(* leg in one step, since nothing on that way suspends with the paper      *)
(* gateway; it suspends after each leg, where event and audit are written. *)
(* The token is what was signed: positions, legs and time.  Executions     *)
(* send back the legs of their preview.                                    *)
(***************************************************************************)
EXTENDS PaperTrading, Sequences, SequencesExt

CONSTANTS
    Manual,         \* order ids of submit_order requests
    Invalid,        \* order requests for which submit_order raises
    Previews,
    Executions,
    Moving,         \* bound: the symbols whose price changes
    Preview,        \* Preview[e]: the preview whose token e sends
    Draft,          \* Draft[x]: the draft an execution or an order confirms, or None
    None,
    SymbolOrder,    \* the symbols, sorted
    Weight, Whole,  \* the target weights asked for, in parts of Whole
    Reference,      \* Reference[s]: the close of the latest bar, 0 if there is none
    MinTrade, Lot,
    MaxRemembered   \* MAX_REMEMBERED_DRAFTS

ASSUME RebalanceAssumption ==
    /\ Lot \in Nat \ {0} /\ Whole \in Nat \ {0} /\ MinTrade \in Nat
    /\ MaxRemembered \in Nat \ {0}

\* sorted(target_weights): every symbol, once.
ASSUME SymbolAssumption ==
    /\ SymbolOrder \in Seq(Symbols) /\ IsInjective(SymbolOrder) /\ Range(SymbolOrder) = Symbols
    /\ Weight \in [Symbols -> Nat] /\ Reference \in [Symbols -> Nat] /\ Moving \subseteq Symbols

\* Every order has an id of its own (uuid4).
ASSUME IdAssumption ==
    /\ Preview \in [Executions -> Previews] /\ Manual \subseteq Ids
    /\ \A e \in Executions, k \in 1..Len(SymbolOrder) : <<e, k>> \in Ids \ Manual

VARIABLES
    preview,        \* preview[p]: what the request has read, and its answer
    run,            \* run[e]: where execution e is
    outcome,        \* outcome[e]: what became of its legs
    consumed,       \* _consumed_ids, the oldest first
    lookup,         \* _consumed_lookup
    claims,         \* history: the drafts that were claimed
    traded,         \* history: the executions that traded
    outside,        \* history: the previews since whose snapshot others traded
    replayed        \* history: executions of a preview already traded on alone

drafts == <<consumed, lookup, claims>>
history == <<traded, outside, replayed>>
rebalancing == <<preview, run, outcome, drafts, history>>

-----------------------------------------------------------------------------
(* plan_rebalance (engine/portfolio/rebalance.py): from target weights to   *)
(* the orders that lead there, sales first.  A weight is a number of parts  *)
(* of a whole; a price of 0 stands for one that is missing or unusable.     *)

\* int(a / b), for a positive b: toward zero.
Truncated(a, b) == IF a < 0 THEN -((-a) \div b) ELSE a \div b

\* _truncate_to_lot of value * weight / price.
target_qty(value, weight, whole, quote, lot) ==
    Truncated(value * weight, whole * quote * lot) * lot

Delta(target, held) == target - held

\* _build_leg: is there a leg?
Worthwhile(delta, quote, min) == delta # 0 /\ Abs(delta) * quote >= min

\* What a loop over syms appends to its list for the members of S.
Kept(syms, S) ==
    LET upTo[n \in 0..Len(syms)] ==
          IF n = 0 THEN <<>>
          ELSE IF syms[n] \in S THEN Append(upTo[n - 1], syms[n]) ELSE upTo[n - 1]
    IN  upTo[Len(syms)]

\* The legs for the symbols of the sequence syms, which is sorted.
plan_rebalance(syms, weight, whole, held, quote, value, min, lot) ==
    LET delta(s) == Delta(target_qty(value, weight[s], whole, quote[s], lot), held[s])
        due == {s \in Range(syms) : quote[s] > 0 /\ Worthwhile(delta(s), quote[s], min)}
        sells == Kept(syms, {s \in due : delta(s) < 0})
        buys == Kept(syms, {s \in due : delta(s) > 0})
        legs == sells \o buys
    IN  [i \in DOMAIN legs |-> [sym |-> legs[i], delta |-> delta(legs[i])]]

-----------------------------------------------------------------------------
\* snapshot_hash of what get_positions returns.
Holdings == position

RInit ==
    /\ Init
    /\ preview = [p \in Previews |-> [at |-> "idle"]]
    /\ run = [e \in Executions |-> "idle"]
    /\ outcome = [e \in Executions |-> <<>>]
    /\ consumed = <<>> /\ lookup = {} /\ claims = <<>>
    /\ traded = {} /\ outside = {} /\ replayed = {}

-----------------------------------------------------------------------------
(* Preview.                                                                 *)

\* PaperGateway.get_account: the positions it keeps have no market value.
portfolio_value == cash

\* load_snapshot up to the await of the reference prices: positions, their
\* prices and the account.  A worthless account ends the request.
PreviewReads(p) ==
    /\ preview[p].at = "idle" /\ portfolio_value > 0
    /\ preview' = [preview EXCEPT ![p] =
         [at |-> "pricing", holdings |-> Holdings, held |-> position, value |-> portfolio_value,
          prices |-> [s \in Symbols |-> IF position[s] # 0 THEN price[s] ELSE Reference[s]]]]
    /\ UNCHANGED <<vars, run, outcome, drafts, history>>

Legs(q) ==
    plan_rebalance(SymbolOrder, Weight, Whole, q.held, q.prices, q.value, MinTrade, Lot)

\* The legs and the token.
PreviewIssues(p) ==
    /\ preview[p].at = "pricing"
    /\ preview' = [preview EXCEPT ![p] =
         [at |-> "issued", holdings |-> @.holdings, held |-> @.held, value |-> @.value,
          prices |-> @.prices, legs |-> Legs(@)]]
    /\ UNCHANGED <<vars, run, outcome, drafts, history>>

\* REBALANCE_TOKEN_TTL_SECONDS have passed.
Expires(p) ==
    /\ preview[p].at = "issued"
    /\ preview' = [preview EXCEPT ![p].at = "expired"]
    /\ UNCHANGED <<vars, run, outcome, drafts, history>>

-----------------------------------------------------------------------------
(* Drafts.                                                                  *)

Claimable(x) == Draft[x] \notin lookup

Forgotten == IF Len(consumed) = MaxRemembered THEN {Head(consumed)} ELSE {}

\* _claim: once the request is valid, before it is executed, for good.
Claims(x) ==
    IF Draft[x] = None THEN UNCHANGED <<consumed, lookup, claims>>
    ELSE /\ Claimable(x)
         /\ lookup' = (lookup \ Forgotten) \cup {Draft[x]}
         /\ consumed' = Append(IF Len(consumed) = MaxRemembered THEN Tail(consumed) ELSE consumed, Draft[x])
         /\ claims' = Append(claims, Draft[x])

-----------------------------------------------------------------------------
(* Execution.                                                               *)

Plan(e) == preview[Preview[e]]

\* Mutant: the positions are not compared.
VerifiedByAge(q) == q.at = "issued"

\* verify_token.
Verified(q) == q.at = "issued" /\ q.holdings = Holdings

LegId(e, k) == <<e, k>>
Side(leg) == IF leg.delta > 0 THEN "BUY" ELSE "SELL"

\* An order that comes back rejected is listed as rejected.
Reported(o) == IF orders'[o].status = "rejected" THEN "rejected" ELSE "submitted"

\* One leg: submit_order raises, or comes back with the order.
SendsLeg(e, k) ==
    LET leg == Plan(e).legs[k]
        o == LegId(e, k)
    IN  \/ /\ UNCHANGED <<vars, traded, outside>>
           /\ outcome' = [outcome EXCEPT ![e] = Append(@, "rejected")]
        \/ /\ SubmitRefused(o, leg.sym, Side(leg), Abs(leg.delta), "MARKET")
           /\ UNCHANGED <<traded, outside>>
           /\ outcome' = [outcome EXCEPT ![e] = Append(@, Reported(o))]
        \/ /\ SubmitMarket(o, leg.sym, Side(leg), Abs(leg.delta))
           /\ traded' = traded \cup {e}
           /\ outside' = outside \cup ({p \in Previews : preview[p].at # "idle"} \ {Preview[e]})
           /\ outcome' = [outcome EXCEPT ![e] = Append(@, Reported(o))]

\* A request with the legs of an answered preview, of which there is at least one.
Answers(e) ==
    run[e] = "idle" /\ Plan(e).at \in {"issued", "expired"} /\ Plan(e).legs # <<>>

\* Claim, check and first leg.
Executes(e) ==
    /\ Answers(e)
    /\ Claims(e)
    /\ Verified(Plan(e))
    /\ run' = [run EXCEPT ![e] = "sending"]
    /\ replayed' = IF Preview[e] \notin outside /\ (\E d \in traded : Preview[d] = Preview[e])
                   THEN replayed \cup {e} ELSE replayed
    /\ SendsLeg(e, 1)
    /\ UNCHANGED preview

\* A token that does not verify: the draft stays claimed.
Refuses(e) ==
    /\ Answers(e)
    /\ Claims(e)
    /\ ~Verified(Plan(e))
    /\ run' = [run EXCEPT ![e] = "refused"]
    /\ UNCHANGED <<vars, preview, outcome, history>>

\* Whatever became of a leg, the next one is sent.
GoesOn(e) == TRUE

NextLeg(e) ==
    /\ run[e] = "sending" /\ Len(outcome[e]) < Len(Plan(e).legs) /\ GoesOn(e)
    /\ SendsLeg(e, Len(outcome[e]) + 1)
    /\ UNCHANGED <<preview, run, drafts, replayed>>

Reports(e) ==
    /\ run[e] = "sending" /\ (Len(outcome[e]) = Len(Plan(e).legs) \/ ~GoesOn(e))
    /\ run' = [run EXCEPT ![e] = "done"]
    /\ UNCHANGED <<vars, preview, outcome, drafts, history>>

-----------------------------------------------------------------------------
\* An order of a user, placed directly or as a draft.
Places(o) ==
    /\ Claims(o)
    /\ Submit(o)
    /\ outside' = IF gateway' = gateway THEN outside
                  ELSE outside \cup {p \in Previews : preview[p].at # "idle"}
    /\ UNCHANGED <<preview, run, outcome, traded, replayed>>

\* Its draft stays claimed.
Raises(o) ==
    /\ Claims(o)
    /\ UNCHANGED <<vars, preview, run, outcome, history>>

Account ==
    /\ PollRound \/ (\E o \in Manual : Cancel(o)) \/ (\E sym \in Moving : UpdatePrice(sym))
    /\ UNCHANGED rebalancing

RNext ==
    \/ \E p \in Previews : PreviewReads(p) \/ PreviewIssues(p) \/ Expires(p)
    \/ \E e \in Executions : Executes(e) \/ Refuses(e) \/ NextLeg(e) \/ Reports(e)
    \/ \E o \in Manual : Places(o)
    \/ \E o \in Invalid : Raises(o)
    \/ Account

RSpec == RInit /\ [][RNext]_<<vars, rebalancing>>

-----------------------------------------------------------------------------
(* Properties.                                                              *)

\* What an execution reports is what the order book and the account did: every
\* leg is listed, as submitted if and only if it was filled.
OutcomeIsTrue ==
    \A e \in Executions : run[e] = "done" =>
        /\ Len(outcome[e]) = Len(Plan(e).legs)
        /\ \A k \in DOMAIN outcome[e] :
             outcome[e][k] = "submitted" <=>
                 LegId(e, k) \in Recorded /\ orders[LegId(e, k)].filled_qty > 0

\* An execution that nobody traded beside and none of whose legs was rejected has
\* brought the account to the target, to within what is too small to be traded.
SoleExecutionReachesTarget ==
    \A e \in Executions :
        /\ run[e] = "done" /\ ToSet(outcome[e]) = {"submitted"}
        /\ Preview[e] \notin outside
        /\ \A d \in traded \ {e} : Preview[d] # Preview[e]
        => \A s \in Symbols : Plan(e).prices[s] > 0 =>
             LET short == position[s]
                          - target_qty(Plan(e).value, Weight[s], Whole, Plan(e).prices[s], Lot)
             IN  short = 0 \/ Abs(short) * Plan(e).prices[s] < MinTrade

\* The token carries no memory, but the positions do: a preview that has been
\* traded on is executed again only after trades of others since its snapshot.
ReplayNeedsOthers == replayed = {}

\* A draft is executed once, until MaxRemembered others have been.
DraftOnce ==
    \A i, j \in DOMAIN claims : i < j /\ claims[i] = claims[j] =>
        Cardinality({claims[k] : k \in i + 1..j - 1}) >= MaxRemembered

\* What executions of previews and drafts report is true: of every leg, of the
\* target reached, of the token they were given, and of a draft's first execution
\* (rebalance_service.py, copilot/execute.py).
ExecutionsAreTrue ==
  /\ OutcomeIsTrue /\ SoleExecutionReachesTarget
  /\ ReplayNeedsOthers /\ DraftOnce
=============================================================================
