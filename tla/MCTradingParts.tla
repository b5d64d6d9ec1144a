-------------------------- MODULE MCTradingParts --------------------------
(* TLC instance of five parts of the live program that share no state here: *)
(* the guards of the quotes, the write gate, the exposure cap, the fill     *)
(* accounting and the session.  As in MCExchangeLinks one behaviour runs    *)
(* one of them, and part says which.                                        *)
EXTENDS QuoteGuards, RateLimiter, ExposureCap, FillAccounting, Session

VARIABLE part
partsVars == <<guardVars, rateVars, capVars, fillVars, sessionVars, part>>

PartsInit ==
    /\ GuardInit /\ RateInit /\ CapInit /\ FillInit /\ SessionInit
    /\ part \in {"guards", "gate", "cap", "fills", "session"}
    /\ part # "guards" => sticky = FALSE /\ limit = 0
    /\ part # "session" => quote = "none" /\ pos = 0

Only(p) == part = p /\ UNCHANGED part

\* A step of one part leaves the others as they are.
PartsNext ==
    \/ Only("guards") /\ GuardNext /\ UNCHANGED <<rateVars, capVars, fillVars, sessionVars>>
    \/ Only("gate") /\ RateNext /\ UNCHANGED <<guardVars, capVars, fillVars, sessionVars>>
    \/ Only("cap") /\ CapNext /\ UNCHANGED <<guardVars, rateVars, fillVars, sessionVars>>
    \/ Only("fills") /\ FillNext
       /\ UNCHANGED <<guardVars, rateVars, capVars, sessionVars>>
    \/ Only("session") /\ SessionNext
       /\ UNCHANGED <<guardVars, rateVars, capVars, fillVars>>

PartsSpec == PartsInit /\ [][PartsNext]_partsVars
=============================================================================
