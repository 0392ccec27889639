-------------------------- MODULE CapitalProtection --------------------------
(***************************************************************************)
(* The capital protection layer (core/safety/capital_protection.py): the   *)
(* checks a proposed position passes after the Risk Manager's verdict and  *)
(* again just before its order, and the largest position that passes them. *)
(* Money is in whole units, limits are in percent.                         *)
(***************************************************************************)
EXTENDS Integers, Functions

CONSTANTS
    Protection,  \* the CapitalProtectionConfig: position, exposure, cash,
                 \* drawdown, group and crypto limits in percent
    CryptoAssets \* the symbols counted as crypto

GroupOf(symbol) == IF symbol \in CryptoAssets THEN "crypto" ELSE "equity"

(* Holdings are a function from symbols to their value.                    *)
Exposure(holdings) == SumFunction(holdings)
GroupExposure(holdings, group) ==
    SumFunctionOnSet(holdings, {s \in DOMAIN holdings : GroupOf(s) = group})

ShareOf(pct, total) == (pct * total) \div 100

(* No drawdown is handed over by the runtime: it is 0 at every call.       *)
Passes(stopped, paused, symbol, size, total, cash, holdings, drawdown) ==
    /\ ~stopped
    /\ ~paused
    /\ total > 0
    /\ size <= ShareOf(Protection.position, total)
    /\ Exposure(holdings) + size <= ShareOf(Protection.exposure, total)
    /\ 100 * (cash - size) >= Protection.cash * total
    /\ drawdown < Protection.drawdown
    /\ GroupExposure(holdings, GroupOf(symbol)) + size
         <= ShareOf(IF GroupOf(symbol) = "crypto" THEN Protection.crypto ELSE Protection.group,
                    total)

(* An equity counts against everything held, crypto against crypto alone.  *)
NonNegative(n) == IF n < 0 THEN 0 ELSE n
Smaller(a, b) == IF a < b THEN a ELSE b

(* Mutant: the group limit is forgotten.                                   *)
MaxAllowedUngrouped(symbol, total, cash, holdings) ==
    LET room == NonNegative(ShareOf(Protection.exposure, total) - Exposure(holdings))
        byCash == NonNegative((100 * cash - Protection.cash * total) \div 100)
    IN  Smaller(ShareOf(Protection.position, total), Smaller(room, byCash))

MaxAllowed(symbol, total, cash, holdings) ==
    LET room == NonNegative(ShareOf(Protection.exposure, total) - Exposure(holdings))
        byCash == NonNegative((100 * cash - Protection.cash * total) \div 100)
        byGroup == NonNegative(
            IF GroupOf(symbol) = "crypto"
            THEN ShareOf(Protection.crypto, total) - GroupExposure(holdings, "crypto")
            ELSE ShareOf(Protection.group, total) - Exposure(holdings))
    IN  IF total <= 0 THEN 0
        ELSE Smaller(Smaller(ShareOf(Protection.position, total), room), Smaller(byCash, byGroup))
=============================================================================
