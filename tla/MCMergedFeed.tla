---- MODULE MCMergedFeed ----
(* Small instances of MergedFeed for TLC, and of PriceEstimates, which prices the updates
   a feed shows: a behaviour is of one of them, for an estimate that fails leaves the
   feed as it is. *)
EXTENDS MergedFeed

CONSTANTS
  v1, v2, Price, MaxDay, MaxGap,
  Paid, Amulet, Bought    \* what an update cost, and what a purchase paid and bought

\* The providers are two, OKX and Bybit; a price, an amount or a purchase that is not positive
\* is none (parsePrice, parsePositiveDecimal, estimateDetails).
ASSUME PricesAssumption ==
  /\ v1 # v2 /\ MaxDay \in Nat /\ MaxGap \in Nat \ {0}
  /\ Price \subseteq Nat \ {0} /\ Paid \subseteq Nat
  /\ Amulet \subseteq Nat \ {0} /\ Bought \subseteq Nat \ {0}

VARIABLES showing, today, closes, cache, estimate
priceVars == <<today, closes, cache, estimate>>

Prices ==
  INSTANCE PriceEstimates WITH
    Venue <- {v1, v2}, Costs <- [paid : Paid, amulet : Amulet, bought : Bought]

MCInit ==
  /\ showing \in {"feed", "prices"}
  /\ Init /\ Prices!Init
  /\ showing = "prices" => feed = "updates" /\ rows = {}
  /\ showing = "feed" => today = 2 /\ closes = Prices!NoHistory

MCNext ==
  /\ UNCHANGED showing
  /\ \/ showing = "feed" /\ Next /\ UNCHANGED priceVars
     \/ showing = "prices" /\ Prices!Next /\ UNCHANGED vars

MCSpec == MCInit /\ [][MCNext]_<<showing, vars, priceVars>> /\ Fairness

(* PriceEstimates, EstimatesAreOfNearestDay. *)
EstimatesAreOfNearestDay == Prices!EstimatesAreOfNearestDay
====
