------------------------------ MODULE CostRates ------------------------------
(***************************************************************************)
(* What a run costs (worker: computeCost; api: routes/costRates.ts).  A    *)
(* rate is for one agent or is a global default, from a date on that the   *)
(* admin may choose.  A run's cost is looked up in two queries with the    *)
(* time it ended, stored with the run and never computed again.            *)
(*                                                                         *)
(* A rate's amount is its id: two rates never cost the same.               *)
(***************************************************************************)
EXTENDS Naturals

CONSTANTS
    Agents,         \* agents with runs
    RateIds,        \* ids a rate may get
    CostedRuns,     \* runs that end with token counts
    LastDate,       \* bound on dates
    MaxRateCalls,   \* bound: changes of the rates
    Global, NoRate

ASSUME RateAssumption ==
    /\ Global \notin Agents /\ NoRate \notin RateIds
    /\ LastDate \in Nat /\ MaxRateCalls \in Nat

VARIABLES
    today,      \* the clock
    rates,      \* id -> whose rate it is and from when, or NoRate
    rateCalls,  \* changes made
    costing,    \* run -> how far its lookup has come and what it found
    snapshot    \* a history: run -> the rates its last query saw

rateVars == <<today, rates, rateCalls, costing, snapshot>>

Dates == 0..LastDate
Rate == [agent : Agents \cup {Global}, from : Dates]
Lookup == [phase : {"none", "agent", "global", "costed", "uncosted"}, agent : Agents,
           asOf : Dates, rate : RateIds \cup {NoRate}]
Table == [RateIds -> Rate \cup {NoRate}]

RateTypeOK ==
    /\ today \in Dates /\ rates \in Table /\ rateCalls \in 0..MaxRateCalls
    /\ costing \in [CostedRuns -> Lookup] /\ snapshot \in [CostedRuns -> Table]

RateInit ==
    /\ today = 0 /\ rates = [i \in RateIds |-> NoRate] /\ rateCalls = 0
    /\ costing \in [CostedRuns -> {l \in Lookup : l.phase = "none" /\ l.asOf = 0 /\ l.rate = NoRate}]
    /\ snapshot = [r \in CostedRuns |-> rates]

\* Rates of a party that are in effect at a date, and the latest of them.
InEffect(table, party, asOf) ==
    {i \in RateIds : table[i] # NoRate /\ table[i].agent = party /\ table[i].from <= asOf}
Latest(table, party, asOf) ==
    {i \in InEffect(table, party, asOf) :
        \A k \in InEffect(table, party, asOf) : table[k].from <= table[i].from}

\* The unique index: NULLs, the global rates, are never equal.
Unique(table) ==
    \A i, k \in RateIds :
        i # k /\ table[i] # NoRate /\ table[i] = table[k] => table[i].agent = Global

Change(table) ==
    /\ rateCalls < MaxRateCalls /\ rateCalls' = rateCalls + 1
    /\ rates' = table
    /\ UNCHANGED <<today, costing, snapshot>>

\* A create or update that no index checks.
PutRateAnyway(i, rate) == Change([rates EXCEPT ![i] = rate])

\* POST and PATCH; a duplicate is answered with 409.
PutRate(i, rate) ==
    LET table == [rates EXCEPT ![i] = rate] IN Unique(table) /\ Change(table)

DeleteRate(i) == rates[i] # NoRate /\ Change([rates EXCEPT ![i] = NoRate])

\* The run has its answer: computeCost is called with the present time.
BeginCost(r) ==
    /\ costing[r].phase = "none"
    /\ costing' = [costing EXCEPT ![r].phase = "agent", ![r].asOf = today]
    /\ UNCHANGED <<today, rates, rateCalls, snapshot>>

Found(r, found, otherwise) ==
    /\ snapshot' = [snapshot EXCEPT ![r] = rates]
    /\ \/ \E i \in found : costing' = [costing EXCEPT ![r].phase = "costed", ![r].rate = i]
       \/ found = {} /\ costing' = [costing EXCEPT ![r].phase = otherwise]
    /\ UNCHANGED <<today, rates, rateCalls>>

QueryAgentRate(r) ==
    /\ costing[r].phase = "agent"
    /\ Found(r, Latest(rates, costing[r].agent, costing[r].asOf), "global")

QueryGlobalRate(r) ==
    /\ costing[r].phase = "global"
    /\ Found(r, Latest(rates, Global, costing[r].asOf), "uncosted")

DayPasses ==
    /\ today < LastDate /\ today' = today + 1
    /\ UNCHANGED <<rates, rateCalls, costing, snapshot>>

RateNext ==
    \/ \E i \in RateIds : DeleteRate(i) \/ \E rate \in Rate : PutRate(i, rate)
    \/ \E r \in CostedRuns : BeginCost(r) \/ QueryAgentRate(r) \/ QueryGlobalRate(r)
    \/ DayPasses

RateSpec == RateInit /\ [][RateNext]_rateVars

-----------------------------------------------------------------------------
(* Properties.                                                             *)

\* What another database, with the same rates, might have found in place of it.
Alternatives(r) ==
    LET table == snapshot[r]  i == costing[r].rate IN
    Latest(table, table[i].agent, costing[r].asOf)

\* A run costed by a rate of its own agent could have been costed by no other: the
\* rates the query saw name one rate in effect, however they were put and moved.
AgentCostDetermined ==
    \A r \in CostedRuns :
        costing[r].phase = "costed" /\ snapshot[r][costing[r].rate].agent # Global
            => Alternatives(r) = {costing[r].rate}

\* schema.prisma:573-578: two global rates with the same date "would require two
\* creates at literally the same microsecond"; here nobody creates two rates on
\* one day without saying so.
CostDetermined ==
    \A r \in CostedRuns : costing[r].phase = "costed" => Alternatives(r) = {costing[r].rate}
=============================================================================
