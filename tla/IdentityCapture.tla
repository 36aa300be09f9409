-------------------------- MODULE IdentityCapture --------------------------
(***************************************************************************)
(* The private capture of SEC identity evidence and its offline replay: runs *)
(* over one output directory fetch filings through a cache of source pairs,  *)
(* are interrupted, defer sources that fail, and are resumed; a result       *)
(* commits what each member's sources say.  Nothing keeps two runs apart but *)
(* the exclusive creation of files.  Dates are days before the cutoff.       *)
(***************************************************************************)
EXTENDS Naturals, Sequences, FiniteSets, SequencesExt, FiniteSetsExt

CONSTANTS Members,        \* the roster, in the order of its key: [issuer, symbol]
          Lists,          \* issuer -> its submissions pages
          Rows,           \* page -> filings: [source, kind, issuer, age, series]
          Docs,           \* filing source -> what its bytes say
          Leads,          \* issuer -> the filings its submissions lead to, as LeadsOf gives
          Retained,       \* sources committed by the original checkpoint
          Oversized,      \* sources over the document bound
          Runs, MaxStarts,                       \* processes, bound on their starts
          PeriodicLimit, Latest, PerSeries, OwnershipLimit,
          MaxRequests, CircuitLimit,
          None

VARIABLES binding,        \* binding.json: the number of members, or the directory's lack of it
          bodies, metas,  \* source pairs: <digest>.body, and <digest>.json by what it says
          results,        \* result-<digest>.json
          run,            \* process -> its state
          starts

vars == <<binding, bodies, metas, results, run, starts>>

Lag      == 7             \* PUBLICATION_LAG_DAYS
Lookback == 730
Urls  == (UNION Range(Lists)) \cup DOMAIN Docs
RowsOf(i) == UNION {Rows[p] : p \in Lists[i]}    \* an issuer's filings

\* The members of a finite set in a strict order.
Sorted(S, Precedes(_, _)) ==
  CHOOSE s \in [1 .. Cardinality(S) -> S] :
    \A i, j \in 1 .. Cardinality(S) : i < j => Precedes(s[i], s[j])

(* choose_filings: recent enough, and public at the cutoff; newest first.    *)
Newest(rows) == Sorted(rows, LAMBDA x, y : x.age < y.age)
Eligible(rows, kind) == {r \in rows : r.kind = kind /\ r.age \in Lag .. Lookback}
ChooseFilings(rows, kind, limit) ==
  LET s == Newest(Eligible(rows, kind)) IN SubSeq(s, 1, Min({limit, Len(s)}))

(* choose_ownership_filings: the latest, then one of each other series, the  *)
(* frequent first, then the rest.                                            *)
ChooseOwnership(rows) ==
  LET all     == Newest(Eligible(rows, "ownership"))
      latest  == SubSeq(all, 1, Min({Latest, Len(all)}))
      count   == [x \in Range(all) |-> Cardinality({r \in Range(all) : r.series = x.series})]
      others  == {r \in Range(all) : /\ r.series # None
                                     /\ r.series \notin {x.series : x \in Range(latest)}
                                     /\ \A x \in Range(all) : x.series = r.series => x.age >= r.age}
      series  == Sorted(others, LAMBDA x, y : \/ count[x] > count[y]
                                              \/ count[x] = count[y] /\ x.age < y.age)
      chosen  == latest \o SubSeq(series, 1, Min({PerSeries, Len(series)}))
      rest    == Newest(Range(all) \ Range(chosen))
  IN SubSeq(chosen \o rest, 1, Max({Len(chosen), Min({OwnershipLimit, Len(all)})}))

(* What an issuer's submissions lead to; they are pinned once they are read.  *)
LeadsOf(i) == [periodic |-> ChooseFilings(RowsOf(i), "periodic", PeriodicLimit),
               ownership |-> ChooseOwnership(RowsOf(i))]

\* What an instance must satisfy; the modules that use one assume it.  Two filings of a
\* kind are never of one age: the accession number orders those accepted together.
CaptureAssumption ==
  /\ Len(Members) \in Nat /\ DOMAIN Members = 1 .. Len(Members)
  /\ \A m \in Range(Members) : m.issuer \in DOMAIN Lists
  /\ \A i \in DOMAIN Lists :
       /\ IsFiniteSet(Lists[i]) /\ IsFiniteSet(RowsOf(i))
       /\ \A x \in RowsOf(i) : x.source \in DOMAIN Docs /\ x.age \in Nat
       /\ \A x, y \in RowsOf(i) : x.kind = y.kind /\ x.age = y.age => x = y
  /\ Leads = [i \in DOMAIN Lists |-> LeadsOf(i)]
  /\ {PeriodicLimit, Latest, PerSeries, OwnershipLimit, MaxRequests, CircuitLimit} \subseteq Nat
  /\ None \notin Nat \cup Urls \cup {"page", "large", "unavailable"}

-----------------------------------------------------------------------------
(* Which filings are read, and what they say (historical_identity)           *)

(* periodic_anchor: the one class that the cover gives the symbol, failing    *)
(* that the one class in a cover row of its own; of the issuer's context.     *)
PeriodicClass(m, doc) ==
  LET facts == {f \in doc.cover : f.symbol = m.symbol}
      all   == {f.class : f \in facts}
      rows  == {f.class : f \in {g \in facts : g.row}}
  IN IF \E f \in facts : f.issuer # m.issuer THEN None
     ELSE IF Cardinality(all) = 1 THEN CHOOSE c \in all : TRUE
     ELSE IF Cardinality(rows) = 1 THEN CHOOSE c \in rows : TRUE ELSE None

(* ownership_subject, ownership_identity and join_identity: the subject, not  *)
(* the reporting owner, one CUSIP, and the class of the periodic filing.      *)
Owns(m, doc, class) ==
  doc.subject = m.issuer /\ Cardinality(doc.cusips) = 1 /\ doc.class = class

-----------------------------------------------------------------------------
(* collect_member over what its sources are to the run: "page", "large",      *)
(* "unavailable", or None where the run has to ask.                           *)

(* Mutant: a filing that is unavailable is passed over like one too large.    *)
StopsAtPages(m, row, read) ==
  \/ read[row.source] = None
  \/ read[row.source] = "page" /\ PeriodicClass(m, Docs[row.source]) # None
\* A loop ends at an anchor, or at what is not a size refusal.
Stops(m, row, read) ==
  \/ read[row.source] \in {None, "unavailable"}
  \/ read[row.source] = "page" /\ PeriodicClass(m, Docs[row.source]) # None
Joins(m, row, read, class) ==
  \/ read[row.source] \in {None, "unavailable"}
  \/ read[row.source] = "page" /\ Owns(m, Docs[row.source], class)

Outcome(status, periodic, ownership) ==
  [status |-> status, periodic |-> periodic, ownership |-> ownership]
Unresolved(read, asked, status) ==
  Outcome(IF \E u \in asked : read[u] = "large" THEN "source_size_unresolved" ELSE status,
          None, None)

\* [needs, asked, of]: the source to ask for, the sources gone through, the outcome.
Step(needs, asked, of) == [needs |-> needs, asked |-> asked, of |-> of]
Interrupted(read, source, asked) ==
  CASE read[source] = None -> Step(source, asked, None)
    [] read[source] = "unavailable" -> Step(None, asked, Outcome("source_temporarily_unavailable", None, None))
    [] read[source] = "large" -> Step(None, asked, Outcome("source_size_unresolved", None, None))

CollectOwnership(m, read, asked, periodic) ==
  LET seq   == Leads[m.issuer].ownership
      class == PeriodicClass(m, Docs[periodic.source])
      stop  == {i \in DOMAIN seq : Joins(m, seq[i], read, class)}
      last  == IF stop = {} THEN Len(seq) ELSE Min(stop)
      gone  == asked \cup {seq[i].source : i \in 1 .. last}
  IN IF stop = {} THEN Step(None, gone, Unresolved(read, gone, "ownership_identity_unresolved"))
     ELSE IF read[seq[last].source] # "page" THEN Interrupted(read, seq[last].source, gone)
     ELSE Step(None, gone, Outcome("pre_cutoff_SEC_identity_anchored", periodic.source, seq[last].source))

CollectPeriodic(m, read, asked) ==
  LET seq   == Leads[m.issuer].periodic
      stop  == {i \in DOMAIN seq : Stops(m, seq[i], read)}
      last  == IF stop = {} THEN Len(seq) ELSE Min(stop)
      gone  == asked \cup {seq[i].source : i \in 1 .. last}
  IN IF stop = {} THEN Step(None, gone, Unresolved(read, gone, "periodic_anchor_unresolved"))
     ELSE IF read[seq[last].source] # "page" THEN Interrupted(read, seq[last].source, gone)
     ELSE CollectOwnership(m, read, gone, seq[last])

(* submissions: every page, in turn.                                          *)
Collect(m, read) ==
  LET pages == SetToSeq(Lists[m.issuer])
      stop  == {i \in DOMAIN pages : read[pages[i]] # "page"}
      last  == IF stop = {} THEN Len(pages) ELSE Min(stop)
      gone  == {pages[i] : i \in 1 .. last}
  IN IF stop # {} THEN Interrupted(read, pages[last], gone) ELSE CollectPeriodic(m, read, gone)

-----------------------------------------------------------------------------
(* SourceCache, main                                                         *)

Live == Urls \ Retained

\* What a source is to a reader to whom some are unavailable.
Reading(unavailable) ==
  [u \in Urls |-> IF u \in unavailable THEN "unavailable"
                     ELSE IF u \in Live THEN metas[u]
                     ELSE IF u \in Oversized THEN "large" ELSE "page"]

Init ==
  /\ binding = None /\ bodies = {} /\ metas = [u \in Live |-> None]
  /\ results = {}
  /\ run = [r \in Runs |-> None] /\ starts = 0

Fresh(phase, n) ==
  [phase |-> phase, limit |-> n, done |-> <<>>, requests |-> 0, failures |-> 0,
   deferred |-> {}, used |-> {}, source |-> None]

Start(r, process) ==
  /\ run[r] = None /\ starts < MaxStarts
  /\ starts' = starts + 1
  /\ run' = [run EXCEPT ![r] = process]
  /\ UNCHANGED <<bodies, metas, results>>

(* A directory is made by one process, which binds it to a prefix of the     *)
(* roster; a resume must name the same.                                      *)
Create(r, n) == binding = None /\ binding' = 0 /\ Start(r, Fresh("bind", n))
WriteBinding(r) ==
  /\ run[r] # None /\ run[r].phase = "bind"
  /\ binding' = run[r].limit
  /\ run' = [run EXCEPT ![r].phase = "collect"]
  /\ UNCHANGED <<bodies, metas, results, starts>>
Resume(r, n) == binding = n /\ Start(r, Fresh("collect", n)) /\ UNCHANGED binding

Collecting(r) == run[r] # None /\ run[r].phase = "collect" /\ Len(run[r].done) < run[r].limit
Upcoming(r) == Collect(Members[Len(run[r].done) + 1], Reading(run[r].deferred))

(* _get: half a pair is refused, and so is a request over the budget or the  *)
(* circuit; a run that is refused ends, as one that crashes (Stop).          *)
MayAsk(r, u) ==
  /\ u # None /\ u \notin bodies
  /\ run[r].requests < MaxRequests /\ run[r].failures < CircuitLimit

Answered(r, u) ==
  IF u \in Oversized
  THEN /\ metas' = [metas EXCEPT ![u] = "large"]
       /\ run' = [run EXCEPT ![r].requests = @ + 1]
       /\ UNCHANGED bodies
  ELSE /\ bodies' = bodies \cup {u}
       /\ run' = [run EXCEPT ![r].requests = @ + 1, ![r].phase = "meta", ![r].source = u]
       /\ UNCHANGED metas
(* A timeout or a 5xx; with Retry-After it opens the circuit.                *)
Deferred(r, u, retryAfter) ==
  /\ run' = [run EXCEPT ![r].requests = @ + 1, ![r].deferred = @ \cup {u},
                        ![r].failures = IF retryAfter THEN CircuitLimit ELSE @ + 1]
  /\ UNCHANGED <<bodies, metas>>

Request(r) ==
  /\ Collecting(r)
  /\ LET u == Upcoming(r).needs
     IN MayAsk(r, u) /\ (Answered(r, u) \/ \E retryAfter \in BOOLEAN : Deferred(r, u, retryAfter))
  /\ UNCHANGED <<binding, results, starts>>

WriteMeta(r) ==
  /\ run[r] # None /\ run[r].phase = "meta"
  /\ metas' = [metas EXCEPT ![run[r].source] = "page"]
  /\ run' = [run EXCEPT ![r].phase = "collect", ![r].source = None, ![r].failures = 0]
  /\ UNCHANGED <<binding, bodies, results, starts>>

\* The cached sources that were read to the end (cache.used).
Read(asked, unavailable) == {u \in asked \cap Live : u \notin unavailable}

(* A member is settled; with the circuit open the run ends without a result. *)
Finish(r) ==
  /\ Collecting(r)
  /\ LET step == Upcoming(r)
     IN /\ step.needs = None
        /\ run' = [run EXCEPT ![r] =
             IF run[r].failures >= CircuitLimit THEN None
             ELSE [run[r] EXCEPT !.done = Append(run[r].done, step.of),
                                 !.used = run[r].used \cup Read(step.asked, run[r].deferred)]]
  /\ UNCHANGED <<binding, bodies, metas, results, starts>>

WriteResult(r) ==
  /\ run[r] # None /\ run[r].phase = "collect" /\ Len(run[r].done) = run[r].limit
  /\ results' = results \cup {[results |-> run[r].done, used |-> run[r].used,
                               unavailable |-> run[r].deferred]}
  /\ run' = [run EXCEPT ![r] = None]
  /\ UNCHANGED <<binding, bodies, metas, starts>>

(* A refusal, another HTTP error, an interrupt, a crash.                     *)
Stop(r) ==
  /\ run[r] # None
  /\ run' = [run EXCEPT ![r] = None]
  /\ UNCHANGED <<binding, bodies, metas, results, starts>>

Next ==
  \E r \in Runs :
    \/ \E n \in 1 .. Len(Members) : Create(r, n) \/ Resume(r, n)
    \/ WriteBinding(r) \/ Request(r) \/ WriteMeta(r)
    \/ Finish(r) \/ WriteResult(r) \/ Stop(r)

Spec == Init /\ [][Next]_vars

-----------------------------------------------------------------------------
(* replay (verify_historical_security_identity): the members over the cache, *)
(* with the failures that the result recorded.                               *)
Replays(result) ==
  LET steps == [i \in DOMAIN result.results |-> Collect(Members[i], Reading(result.unavailable))]
      asked == UNION {steps[i].asked : i \in DOMAIN steps}
  IN /\ binding = Len(result.results)
     /\ \A i \in DOMAIN steps : steps[i].needs = None /\ steps[i].of = result.results[i]
     /\ Read(asked, result.unavailable) = result.used
     /\ asked \cap result.unavailable = result.unavailable
     /\ \A u \in result.used : metas[u] = "page" => u \in bodies

\* What a member is when every source answers.
Settled(m) ==
  Collect(m, [u \in Urls |-> IF u \in Oversized THEN "large" ELSE "page"]).of

(* Whatever was interrupted, deferred, resumed or run beside it: a result    *)
(* that was written replays from the directory for ever, and a failure of a  *)
(* source never gives a member another identity, only none for now.          *)
ResultsHold ==
  \A result \in results :
    /\ Replays(result)
    /\ \A i \in DOMAIN result.results :
         \/ result.results[i] = Settled(Members[i])
         \/ result.results[i].status = "source_temporarily_unavailable"
=============================================================================
