---------------------------- MODULE DatasetBuild ----------------------------
(***************************************************************************)
(* The research dataset, features/dataset.py with features/point_in_time.py: *)
(* what the market, the issuers and the statistical agencies publish, and   *)
(* the datasets that are built from checkpoints of it at different moments. *)
(* Session d opens at time 2d - 1 and closes at 2d; features and labels are *)
(* kept as the source rows they were computed from, which is what tells a   *)
(* feature of its time from one that looks ahead.                           *)
(***************************************************************************)
EXTENDS Integers, FiniteSets, Sequences, FiniteSetsExt

CONSTANTS Symbols,          \* candidate securities
          Sessions,         \* what a session may say of them: symbol -> liquidity
          MonthLength,      \* sessions of a month
          Horizon,          \* evaluation.horizon_sessions
          MinHistory,       \* data.minimum_history_sessions
          UniverseSize,     \* data.universe_size
          MaxAge,           \* MAXIMUM_FACT_AGE_DAYS
          Spans, Ages,      \* lengths of reported flows, and how long ago they ended
          Usable,           \* MINIMUM_FLOW_DAYS..MAXIMUM_FLOW_DAYS
          Days, MaxFilings, MaxReleases, MaxDatasets,  \* bounds
          None

VARIABLES time,             \* half sessions since the first open
          bars,             \* symbol -> its sessions' levels, in order
          filings,          \* accepted periodic reports, in order
          releases,         \* initial releases of the macro series, in order
          datasets,         \* the datasets that were saved complete
          taken             \* identities whose directory exists

vars == <<time, bars, filings, releases, datasets, taken>>

DatasetAssumption ==
  /\ {MonthLength, Horizon, MinHistory, UniverseSize, Days} \subseteq Nat \ {0}
  /\ Usable \subseteq Spans

Init ==
  /\ time = 1
  /\ bars = [s \in Symbols |-> <<>>]
  /\ filings = <<>> /\ releases = <<>>
  /\ datasets = {} /\ taken = {}

Month(d)   == (d - 1) \div MonthLength
(* Mutant: a bar is stamped with the open of its session.                   *)
OpenedBy(d) == 2 * d - 1
(* market_features["available_at"]: the close of the row's session.         *)
ClosedBy(d) == 2 * d
(* _event_timing: the first open after the acceptance, and the close of the *)
(* horizon's last session; the calendar reaches past every horizon.         *)
Entry(at)  == Min({d \in 1..(Days + 1) : 2 * d - 1 > at})
Exit(at)   == Entry(at) + Horizon - 1

(* The world publishes: a session closes with a bar of every symbol, an     *)
(* issuer files a report with one flow of some span and age, an agency      *)
(* releases a value, which the build trusts from the next midnight on.      *)
Advance ==
  /\ time < 2 * Days
  /\ time' = time + 1
  /\ IF time' % 2 = 0
     THEN \E level \in Sessions :
            bars' = [s \in Symbols |-> Append(bars[s], level[s])]
     ELSE UNCHANGED bars
  /\ UNCHANGED <<filings, releases, datasets, taken>>

(* What is published at a time is there for a checkpoint of that time.      *)
Unread == \A b \in taken : b[1] < time

File(s, span, age) ==
  /\ Len(filings) < MaxFilings /\ Unread
  /\ \A i \in DOMAIN filings : filings[i].symbol = s => filings[i].at < time
  /\ filings' = Append(filings, [symbol |-> s, at |-> time, span |-> span,
                                 end |-> time - age])
  /\ UNCHANGED <<time, bars, releases, datasets, taken>>

Release ==
  /\ Len(releases) < MaxReleases /\ Unread
  /\ releases' = Append(releases, time)
  /\ UNCHANGED <<time, bars, filings, datasets, taken>>

-----------------------------------------------------------------------------
(* build_dynamic_universe: the last row of each month that the checkpoint   *)
(* has, with enough history, ranked by its liquidity (ties in symbol order  *)
(* are a choice of the frame; here they all keep their place).              *)
SessionsOf(m)      == {d \in 1..(time \div 2) : Month(d) = m}
Ranked(s, m) == Cardinality({q \in Symbols : bars[q][Max(SessionsOf(m))] > bars[s][Max(SessionsOf(m))]}) + 1
Member(s, m) ==
  /\ SessionsOf(m) # {} /\ Max(SessionsOf(m)) >= MinHistory
  /\ Ranked(s, m) <= UniverseSize

(* _latest_market_row: the newest row available at the cutoff.              *)
MarketRow(cutoff) == Max({0} \cup {d \in 1..(time \div 2) : ClosedBy(d) <= cutoff})

(* extract_company_facts keeps a flow with the acceptance of its filing;    *)
(* _duration_aware_fundamentals then takes the newest period end, then the  *)
(* shortest usable span, then the newest acceptance.                        *)
Eligible(s, cutoff, period) ==
  {i \in DOMAIN filings :
     /\ filings[i].symbol = s /\ filings[i].at <= cutoff
     /\ filings[i].end \in (period - MaxAge)..period
     /\ filings[i].span \in Usable}
Outranks(i, j) ==
  \/ filings[i].end > filings[j].end
  \/ filings[i].end = filings[j].end /\ filings[i].span < filings[j].span
  \/ filings[i].end = filings[j].end /\ filings[i].span = filings[j].span /\ i >= j
Newest(facts) == {i \in facts : \A j \in facts : Outranks(i, j)}
The(set)      == CHOOSE i \in set : TRUE
Fundamental(s, cutoff, period) ==
  LET facts == Eligible(s, cutoff, period)
  IN IF facts = {} THEN None ELSE The(Newest(facts))

(* _regime_vector: the newest release whose availability precedes it.       *)
NextMidnight(t) == 2 * ((t + 1) \div 2)
Regime(cutoff) ==
  Max({0} \cup {i \in DOMAIN releases : NextMidnight(releases[i]) <= cutoff})

(* _abnormal_return_target: from the entry's open to the horizon's close.   *)
Target(at) == IF Exit(at) > time \div 2 THEN None ELSE <<Entry(at), Exit(at)>>

(* The filings that reach the matrix: downloaded, in the prior month's      *)
(* universe, with a market row before their acceptance.                     *)
Reaches(i) ==
  LET f == filings[i]
  IN /\ Entry(f.at) <= Days
     /\ Member(f.symbol, Month(Entry(f.at)) - 1)
     /\ MarketRow(f.at) # 0
Included(ok) == {i \in ok : Reaches(i)}

(* previous_text: the change features compare with the issuer's last        *)
(* included report, in the order of acceptance.                             *)
Previous(i, included) ==
  Max({0} \cup {j \in included : j < i /\ filings[j].symbol = filings[i].symbol})

Event(i, included) ==
  LET f == filings[i]
  IN [market |-> [d \in 1..MarketRow(f.at) |-> bars[f.symbol][d]],
      fundamental |-> Fundamental(f.symbol, f.at, f.end),
      regime |-> Regime(f.at),
      previous |-> Previous(i, included),
      target |-> Target(f.at)]

Matrix(ok) == LET included == Included(ok) IN [i \in included |-> Event(i, included)]

(* assert_point_in_time over the availability records.                      *)
Audited(ok) ==
  LET events == Matrix(ok)
  IN \A i \in DOMAIN events :
    LET f == filings[i] e == events[i]
    IN /\ ClosedBy(MarketRow(f.at)) <= f.at
       /\ e.fundamental # None => filings[e.fundamental].at <= f.at
       /\ e.regime # 0 => NextMidnight(releases[e.regime]) <= f.at

(* build-dataset: some downloads failed; the identity carries the digest of *)
(* the checkpoint, and save() refuses a directory that exists, also one an  *)
(* interrupted save left without its manifest.                              *)
Build(ok, saved) ==
  /\ <<time, ok>> \notin taken /\ Cardinality(taken) < MaxDatasets
  /\ Included(ok) # {} /\ Audited(ok)
  /\ taken' = taken \cup {<<time, ok>>}
  /\ datasets' = IF saved
                 THEN datasets \cup {[at |-> time, ok |-> ok, events |-> Matrix(ok)]}
                 ELSE datasets
  /\ UNCHANGED <<time, bars, filings, releases>>

Next ==
  \/ Advance \/ Release
  \/ \E s \in Symbols, span \in Spans, age \in Ages : File(s, span, age)
  \/ \E ok \in SUBSET DOMAIN filings, saved \in BOOLEAN : Build(ok, saved)

Spec == Init /\ [][Next]_vars

-----------------------------------------------------------------------------
(* No feature looks ahead: whatever is published after a filing's           *)
(* acceptance, a dataset that would be built now has the features of one    *)
(* that was built before, a label that was there stays, and once the        *)
(* selection month has ended the universe has the same say; only a download *)
(* that failed in one of them may tell their text changes apart.            *)
Settled(d, i) == d.at >= 2 * MonthLength * Month(Entry(filings[i].at))

NothingLooksAhead ==
  \A d \in datasets : \A ok \in SUBSET DOMAIN filings :
    LET now == Matrix(ok)
    IN /\ \A i \in DOMAIN d.events \cap DOMAIN now :
            LET x == d.events[i] y == now[i]
            IN /\ x.market = y.market /\ x.fundamental = y.fundamental /\ x.regime = y.regime
               /\ x.target # None => x.target = y.target
               /\ {j \in DOMAIN d.events : j < i} = {j \in DOMAIN now : j < i}
                    => x.previous = y.previous
       /\ \A i \in d.ok \cap ok :
            Settled(d, i) => (i \in DOMAIN d.events <=> i \in DOMAIN now)
=============================================================================
