-------------------------- MODULE RefreshCheckpoint --------------------------
(* A forward cycle, from its sources to its forecasts: a resumable source     *)
(* checkpoint and the filing cache it shares (data/refresh.py                *)
(* refresh_authenticated_to_disk, forward/operations.py                      *)
(* seed_filing_documents and update_filing_cache), the dataset built from it *)
(* and the commands that load it, called in that order by                    *)
(* scripts/run_forward_cycle.py.  One process at a time works on the dated   *)
(* directory; it may die between any two file operations, and files may be   *)
(* damaged while none works.  Files are published by renaming a finished     *)
(* temporary file, so a file is never half written, but a file and its       *)
(* .sha256 sidecar are two files.                                            *)
EXTENDS Naturals

CONSTANTS
    Requests,       \* request contracts a command may be started with
    Early, Late,    \* sidecar'd assets fetched before and after the filings
    Docs,           \* filing records of the submissions
    Fetched,        \* bodies the provider serves for a filing
    Legacy,         \* bodies of an older cache, of unknown origin
    SizeOf,         \* the size of a body
    Absent,         \* no such file
    Torn,           \* a directory with litter but no request.json
    Damaged,        \* contents whose bits were changed
    Versions,       \* what else names a dataset: configuration, encoder, runtime
    MaxCycles, MaxDamage

Sources == Early \cup Late
Bodies == Fetched \cup Legacy \cup {Damaged}

ASSUME NamesAssumption ==
    /\ Absent \notin Bodies \cup Requests
    /\ Torn \notin Requests \cup {Absent}
    /\ Damaged \notin Fetched \cup Legacy \cup Requests
    /\ Fetched \cap Legacy = {} /\ Early \cap Late = {}
    /\ Absent \notin Docs \cup Sources

VARIABLES
    contract,       \* request.json: a request, Torn, or Absent for no directory
    receipt,        \* cache-seed.json: the request it is bound to, or Absent
    receiptSide,    \* its sidecar
    asset,          \* per source: [body, side]; a body is named by its request
    filing,         \* the checkpoint's filing documents: [body, side]
    index,          \* filing rows, written to filing-index.json after the last
    manifest,       \* manifest.json exists
    rotten,         \* a file the manifest hashes was damaged since
    cache,          \* the reusable filing cache
    previous,       \* filings of the latest earlier finalized checkpoint
    processed,      \* per version, the dataset of this checkpoint: [body, side],
                    \* its rows and the hashes of its manifest.json
    scored,         \* the rows that were forecast or settled
    pc, request, resume,    \* the running command
    pending,        \* what its current stage has not reached
    unsealed,       \* the file it renamed into place, before its sidecar
    refusal,        \* why the last command raised
    cycles, damage

checkpoint == <<contract, receipt, receiptSide, asset, filing, index, manifest>>
datasets == <<processed, scored>>
stores == <<rotten, cache, previous, datasets>>
command == <<pc, request, resume, pending, unsealed, refusal>>
bounds == <<cycles, damage>>
vars == <<checkpoint, stores, command, bounds>>

None == [body |-> Absent, side |-> Absent]

(* A mutant: a file's existence is taken for its integrity.                   *)
VerifiedByPresence(file) == file.body # Absent

(* _has_verified_sidecar: both files exist and the sidecar names the body.    *)
Verified(file) == file.body # Absent /\ file.side = file.body

Init ==
    /\ contract = Absent /\ receipt = Absent /\ receiptSide = Absent
    /\ asset = [s \in Sources |-> None]
    /\ filing = [d \in Docs |-> None]
    /\ index = [d \in Docs |-> "undecided"]
    /\ manifest = FALSE /\ rotten = FALSE
    /\ cache \in [Docs -> {None} \cup {[body |-> b, side |-> Absent] : b \in Legacy}]
    /\ previous = [d \in Docs |-> None]
    /\ processed = [v \in Versions |-> None] /\ scored = {}
    /\ pc = "down" /\ request \in Requests /\ resume = FALSE
    /\ pending = {} /\ unsealed = Absent /\ refusal = "none"
    /\ cycles = 1 /\ damage = 0

(* The command enters a stage with the items the stage works through.         *)
Enter(stage, items) ==
    /\ pc' = stage /\ pending' = items /\ unsealed' = Absent
    /\ UNCHANGED <<request, resume, refusal>>

(* The command raises; what it published stays.                               *)
Refuse(why) ==
    /\ pc' = "down" /\ refusal' = why /\ pending' = {} /\ unsealed' = Absent
    /\ UNCHANGED <<request, resume>>

Completed(item) ==
    /\ pending' = pending \ {item} /\ unsealed' = Absent
    /\ UNCHANGED <<pc, request, resume, refusal>>

-----------------------------------------------------------------------------
(* Starting: what is found on disk decides, before anything is fetched.       *)

StartRefusal(q, again) ==
    CASE manifest /\ ~again                     -> "finalized"
      [] manifest /\ again /\ rotten            -> "integrity"
      [] ~manifest /\ contract # Absent /\ ~again -> "interrupted"
      [] ~manifest /\ contract = Torn /\ again   -> "no_contract"
      [] again /\ contract \in Requests \ {q} /\ ~(manifest /\ rotten)
                                                -> "other_request"
      [] OTHER                                  -> "none"

StartRefused(q, again) ==
    /\ pc = "down"
    /\ StartRefusal(q, again) # "none" /\ refusal' = StartRefusal(q, again)
    /\ request' = q /\ resume' = again
    /\ UNCHANGED <<checkpoint, stores, pc, pending, unsealed, bounds>>

(* A mutant: a finalized checkpoint is refreshed when it is resumed.          *)
FirstStageAlways ==
    IF contract = Absent THEN "contracting" ELSE "receipt"

FirstStage ==
    CASE manifest                       -> "finalized"
      [] ~manifest /\ contract = Absent -> "contracting"
      [] OTHER                          -> "receipt"

Start(q, again) ==
    /\ pc = "down"
    /\ StartRefusal(q, again) = "none"
    /\ pc' = FirstStage
    /\ contract' = IF contract = Absent THEN Torn ELSE contract
    /\ request' = q /\ resume' = again /\ refusal' = "none"
    /\ UNCHANGED <<receipt, receiptSide, asset, filing, index, manifest,
                   stores, pending, unsealed, bounds>>

PublishRequest ==
    /\ pc = "contracting"
    /\ contract' = request
    /\ Enter("receipt", {})
    /\ UNCHANGED <<receipt, receiptSide, asset, filing, index, manifest, stores, bounds>>

-----------------------------------------------------------------------------
(* Merging trees of filings into another, file by file (_merge_tree): each    *)
(* body before its sidecar, the cache before the previous checkpoint.  A file *)
(* the target has at the same size is kept; at another size it raises.        *)

Tree(t) == CASE t = "cache" -> cache [] t = "previous" -> previous [] t = "filing" -> filing

FilesOf(t) == {f \in {t} \X Docs \X {"body", "side"} : Tree(t)[f[2]][f[3]] # Absent}

NextFile(f) ==
    /\ f \in pending
    /\ f[3] = "side" => <<f[1], f[2], "body">> \notin pending
    /\ f[1] = "previous" => \A g \in pending : g[1] # "cache"

(* Sidecars are 65 bytes, all of them.                                        *)
Conflicts(source, target, part) ==
    /\ part = "body" /\ target.body # Absent
    /\ SizeOf[target.body] # SizeOf[source.body]

(* A mutant: a merge seals the bodies it links with a sidecar of their own.   *)
LinkedSealed(source, target, part) ==
    IF target[part] = Absent THEN [body |-> source.body, side |-> source.body] ELSE target

Linked(source, target, part) ==
    IF target[part] = Absent THEN [target EXCEPT ![part] = source[part]] ELSE target

-----------------------------------------------------------------------------
(* Seeding from the cache and the previous checkpoint, once per checkpoint.   *)

(* A command without --filing-cache looks at no receipt and seeds nothing.    *)
NoSeeding ==
    /\ pc = "receipt"
    /\ Enter("early", Early)
    /\ UNCHANGED <<checkpoint, stores, bounds>>

ReceiptAccepted ==
    /\ pc = "receipt"
    /\ receipt # Absent /\ receiptSide = receipt /\ receipt = contract
    /\ Enter("early", Early)
    /\ UNCHANGED <<checkpoint, stores, bounds>>

ReceiptRefused ==
    /\ pc = "receipt"
    /\ receipt # Absent /\ ~(receiptSide = receipt /\ receipt = contract)
    /\ Refuse(IF receiptSide = receipt THEN "receipt_request" ELSE "receipt_unverified")
    /\ UNCHANGED <<checkpoint, stores, bounds>>

BeginSeed ==
    /\ pc = "receipt" /\ receipt = Absent
    /\ Enter("seeding", FilesOf("cache") \cup FilesOf("previous"))
    /\ UNCHANGED <<checkpoint, stores, bounds>>

SeedFile(f) ==
    /\ pc = "seeding" /\ NextFile(f)
    /\ ~Conflicts(Tree(f[1])[f[2]], filing[f[2]], f[3])
    /\ filing' = [filing EXCEPT ![f[2]] = Linked(Tree(f[1])[f[2]], @, f[3])]
    /\ Completed(f)
    /\ UNCHANGED <<contract, receipt, receiptSide, asset, index, manifest, stores, bounds>>

SeedConflict(f) ==
    /\ pc = "seeding" /\ NextFile(f)
    /\ Conflicts(Tree(f[1])[f[2]], filing[f[2]], f[3])
    /\ Refuse("conflict")
    /\ UNCHANGED <<checkpoint, stores, bounds>>

PublishReceipt ==
    /\ pc = "seeding" /\ pending = {}
    /\ receipt' = contract
    /\ Enter("sealing", {})
    /\ UNCHANGED <<contract, receiptSide, asset, filing, index, manifest, stores, bounds>>

SealReceipt ==
    /\ pc = "sealing"
    /\ receiptSide' = receipt
    /\ Enter("early", Early)
    /\ UNCHANGED <<contract, receipt, asset, filing, index, manifest, stores, bounds>>

-----------------------------------------------------------------------------
(* Fetching.  A file is reused only on --resume and only verified; otherwise  *)
(* its body is replaced and then its sidecar.                                 *)

Reusable(file) == resume /\ Verified(file)

InStage(stages, item) == pc \in stages /\ item \in pending /\ unsealed = Absent

ReuseSource(s) ==
    /\ InStage({"early", "late"}, s) /\ Reusable(asset[s])
    /\ Completed(s)
    /\ UNCHANGED <<checkpoint, stores, bounds>>

FetchSource(s) ==
    /\ InStage({"early", "late"}, s) /\ ~Reusable(asset[s])
    /\ asset' = [asset EXCEPT ![s].body = request]
    /\ unsealed' = s
    /\ UNCHANGED <<contract, receipt, receiptSide, filing, index, manifest,
                   stores, pc, request, resume, pending, refusal, bounds>>

SealSource(s) ==
    /\ pc \in {"early", "late"} /\ unsealed = s
    /\ asset' = [asset EXCEPT ![s].side = asset[s].body]
    /\ Completed(s)
    /\ UNCHANGED <<contract, receipt, receiptSide, filing, index, manifest, stores, bounds>>

SourceFails(s) ==
    /\ InStage({"early", "late"}, s) /\ ~Reusable(asset[s])
    /\ Refuse("provider")
    /\ UNCHANGED <<checkpoint, stores, bounds>>

BeginDocuments ==
    /\ pc = "early" /\ pending = {}
    /\ index' = [d \in Docs |-> "undecided"]
    /\ Enter("documents", Docs)
    /\ UNCHANGED <<contract, receipt, receiptSide, asset, filing, manifest, stores, bounds>>

Record(d, status) == index' = [index EXCEPT ![d] = status] /\ Completed(d)

ReuseDocument(d) ==
    /\ InStage({"documents"}, d) /\ Reusable(filing[d])
    /\ Record(d, "ok")
    /\ UNCHANGED <<contract, receipt, receiptSide, asset, filing, manifest, stores, bounds>>

FetchDocument(d) ==
    /\ InStage({"documents"}, d) /\ ~Reusable(filing[d])
    /\ \E b \in Fetched : filing' = [filing EXCEPT ![d].body = b]
    /\ unsealed' = d
    /\ UNCHANGED <<contract, receipt, receiptSide, asset, index, manifest,
                   stores, pc, request, resume, pending, refusal, bounds>>

SealDocument(d) ==
    /\ pc = "documents" /\ unsealed = d
    /\ filing' = [filing EXCEPT ![d].side = filing[d].body]
    /\ Record(d, "ok")
    /\ UNCHANGED <<contract, receipt, receiptSide, asset, manifest, stores, bounds>>

(* Any failure of one document, its sidecar's included, is attrition.         *)
DocumentFails(d) ==
    /\ pc = "documents" /\ d \in pending
    /\ unsealed = d \/ (unsealed = Absent /\ ~Reusable(filing[d]))
    /\ Record(d, "failed")
    /\ UNCHANGED <<contract, receipt, receiptSide, asset, filing, manifest, stores, bounds>>

BeginLate ==
    /\ pc = "documents" /\ pending = {}
    /\ Enter("late", Late)
    /\ UNCHANGED <<checkpoint, stores, bounds>>

(* Hash what is on disk, publish the manifest and verify it.                  *)
Finalize ==
    /\ pc = "late" /\ pending = {}
    /\ manifest' = TRUE
    /\ Enter("finalized", {})
    /\ UNCHANGED <<contract, receipt, receiptSide, asset, filing, index, stores, bounds>>

-----------------------------------------------------------------------------
(* Promotion into the cache, and the next dated directory.                    *)

(* refresh-data on its own is done; only a forward cycle, which always        *)
(* resumes, goes on to promote.                                               *)
Finished ==
    /\ pc = "finalized"
    /\ Enter("down", {})
    /\ UNCHANGED <<checkpoint, stores, bounds>>

BeginPromotion ==
    /\ pc = "finalized" /\ resume
    /\ Enter("promoting", FilesOf("filing"))
    /\ UNCHANGED <<checkpoint, stores, bounds>>

PromoteFile(f) ==
    /\ pc = "promoting" /\ NextFile(f)
    /\ ~Conflicts(filing[f[2]], cache[f[2]], f[3])
    /\ cache' = [cache EXCEPT ![f[2]] = Linked(filing[f[2]], @, f[3])]
    /\ Completed(f)
    /\ UNCHANGED <<checkpoint, rotten, previous, datasets, bounds>>

PromotionConflict(f) ==
    /\ pc = "promoting" /\ NextFile(f)
    /\ Conflicts(filing[f[2]], cache[f[2]], f[3])
    /\ Refuse("conflict")
    /\ UNCHANGED <<checkpoint, stores, bounds>>

Promoted ==
    /\ pc = "promoting" /\ pending = {}
    /\ Enter("promoted", {})
    /\ UNCHANGED <<checkpoint, stores, bounds>>

-----------------------------------------------------------------------------
(* The dataset of the checkpoint and the commands that load it.               *)

(* The bodies the rows of a dataset come from: a filing that is not "ok" is   *)
(* skipped.                                                                   *)
Evidenced == [d \in Docs |-> IF index[d] = "ok" THEN filing[d].body ELSE Absent]

(* verify_authenticated_bundle recomputes every hash of the checkpoint.       *)
Intact == manifest /\ ~rotten

(* save claims the directory first and writes its manifest.json last.         *)
BuildDataset(v) ==
    /\ pc = "promoted" /\ Intact /\ processed[v].body = Absent
    /\ processed' = [processed EXCEPT ![v].body = IF rotten THEN Damaged ELSE Evidenced]
    /\ Enter("saving", {v})
    /\ UNCHANGED <<checkpoint, rotten, cache, previous, scored, bounds>>

BuildRefused(v) ==
    /\ pc = "promoted" /\ ~(Intact /\ processed[v].body = Absent)
    /\ Refuse(IF Intact THEN "exists" ELSE "integrity")
    /\ UNCHANGED <<checkpoint, stores, bounds>>

SaveDataset(v) ==
    /\ pc = "saving" /\ v \in pending
    /\ processed' = [processed EXCEPT ![v].side = processed[v].body]
    /\ Enter("saved", {})
    /\ UNCHANGED <<checkpoint, rotten, cache, previous, scored, bounds>>

(* find_processed_dataset wants exactly one manifest.json that names this     *)
(* checkpoint; the commands that follow are given its directory.              *)
Saved == {v \in Versions : processed[v].side # Absent}

FindDataset(v) ==
    /\ pc = "saved" /\ Saved = {v}
    /\ Enter("found", {v})
    /\ UNCHANGED <<checkpoint, stores, bounds>>

FindRefused ==
    /\ pc = "saved" /\ \A v \in Versions : Saved # {v}
    /\ Refuse("datasets")
    /\ UNCHANGED <<checkpoint, stores, bounds>>

(* Each command loads the dataset again, against the hashes of its manifest.  *)
Load(v, stage, next) ==
    /\ pc = stage /\ v \in pending /\ Verified(processed[v])
    /\ scored' = scored \cup {processed[v].body}
    /\ Enter(next, pending)
    /\ UNCHANGED <<checkpoint, rotten, cache, previous, processed, bounds>>

Forecast(v) == Load(v, "found", "forecast")
Settle(v) == Load(v, "forecast", "settled")

LoadRefused(v) ==
    /\ pc \in {"found", "forecast"} /\ v \in pending /\ ~Verified(processed[v])
    /\ Refuse("dataset")
    /\ UNCHANGED <<checkpoint, stores, bounds>>

(* The cycle ends, after its reports or, with --prewarm-only, with a dataset. *)
Conclude ==
    /\ pc \in {"found", "settled"}
    /\ Enter("down", {})
    /\ UNCHANGED <<checkpoint, stores, bounds>>

(* A later cutoff, on a host that kept its raw tree or on a fresh runner; the *)
(* datasets of earlier cutoffs name other checkpoints, so that neither        *)
(* build-dataset nor find_processed_dataset meets them.                       *)
NextCycle ==
    /\ pc = "down" /\ cycles < MaxCycles
    /\ previous' \in {IF manifest THEN filing ELSE previous, [d \in Docs |-> None]}
    /\ contract' = Absent /\ receipt' = Absent /\ receiptSide' = Absent
    /\ asset' = [s \in Sources |-> None] /\ filing' = [d \in Docs |-> None]
    /\ index' = [d \in Docs |-> "undecided"]
    /\ manifest' = FALSE /\ rotten' = FALSE
    /\ processed' = [v \in Versions |-> None] /\ scored' = {}
    /\ refusal' = "none" /\ cycles' = cycles + 1
    /\ UNCHANGED <<cache, pc, request, resume, pending, unsealed, damage>>

-----------------------------------------------------------------------------
(* Faults: the process dies, or a command of the cycle exits with an error;   *)
(* while no command runs, one file changes or is lost.                        *)

Interrupt ==
    /\ pc # "down"
    /\ Refuse("interrupted_process")
    /\ UNCHANGED <<checkpoint, stores, bounds>>

Decayed(file) ==
    {[file EXCEPT !.body = Damaged], [file EXCEPT !.side = Absent], None}

DamageStored ==
    \/ /\ \E d \in Docs : \E x \in Decayed(cache[d]) :
              cache[d].body # Absent /\ cache' = [cache EXCEPT ![d] = x]
       /\ UNCHANGED <<checkpoint, rotten, previous, datasets>>
    \/ /\ \E d \in Docs : \E x \in Decayed(previous[d]) :
              previous[d].body # Absent /\ previous' = [previous EXCEPT ![d] = x]
       /\ UNCHANGED <<checkpoint, rotten, cache, datasets>>
    \/ /\ \E v \in Versions : \E x \in Decayed(processed[v]) :
              processed[v].body # Absent /\ processed' = [processed EXCEPT ![v] = x]
       /\ UNCHANGED <<checkpoint, rotten, cache, previous, scored>>

DamageCheckpoint ==
    \/ /\ manifest /\ rotten' = TRUE
       /\ UNCHANGED <<checkpoint, cache, previous, datasets>>
    \/ /\ ~manifest
       /\ \E d \in Docs : \E x \in Decayed(filing[d]) :
              filing[d].body # Absent /\ filing' = [filing EXCEPT ![d] = x]
       /\ UNCHANGED <<contract, receipt, receiptSide, asset, index, manifest, stores>>
    \/ /\ ~manifest
       /\ \E s \in Sources : \E x \in Decayed(asset[s]) :
              asset[s].body # Absent /\ asset' = [asset EXCEPT ![s] = x]
       /\ UNCHANGED <<contract, receipt, receiptSide, filing, index, manifest, stores>>
    \/ /\ ~manifest /\ receipt # Absent /\ receiptSide' = Absent
       /\ UNCHANGED <<contract, receipt, asset, filing, index, manifest, stores>>

Damage ==
    /\ pc \in {"down", "promoted", "found", "forecast"} /\ damage < MaxDamage
    /\ DamageStored \/ DamageCheckpoint
    /\ damage' = damage + 1
    /\ UNCHANGED <<command, cycles>>

-----------------------------------------------------------------------------
Seeding ==
    \/ NoSeeding \/ ReceiptAccepted \/ ReceiptRefused
    \/ BeginSeed \/ PublishReceipt \/ SealReceipt
    \/ \E f \in pending : SeedFile(f) \/ SeedConflict(f)

Fetching ==
    \/ BeginDocuments \/ BeginLate \/ Finalize
    \/ \E s \in Sources : ReuseSource(s) \/ FetchSource(s) \/ SealSource(s) \/ SourceFails(s)
    \/ \E d \in Docs : \/ ReuseDocument(d) \/ FetchDocument(d)
                       \/ SealDocument(d) \/ DocumentFails(d)

Promoting ==
    \/ Finished \/ BeginPromotion \/ Promoted
    \/ \E f \in pending : PromoteFile(f) \/ PromotionConflict(f)

Modelling ==
    \/ FindRefused \/ Conclude
    \/ \E v \in Versions : \/ BuildDataset(v) \/ BuildRefused(v) \/ SaveDataset(v)
                           \/ FindDataset(v) \/ Forecast(v) \/ Settle(v) \/ LoadRefused(v)

Next ==
    \/ \E q \in Requests, again \in BOOLEAN : Start(q, again) \/ StartRefused(q, again)
    \/ PublishRequest \/ Seeding \/ Fetching \/ Promoting \/ Modelling
    \/ NextCycle \/ Interrupt \/ Damage

Spec == Init /\ [][Next]_vars

-----------------------------------------------------------------------------
File(contents) == [body : contents \cup {Absent}, side : contents \cup {Absent}]

TypeOK ==
    /\ contract \in Requests \cup {Absent, Torn}
    /\ receipt \in Requests \cup {Absent}
    /\ receiptSide \in Requests \cup {Absent}
    /\ asset \in [Sources -> File(Requests \cup {Damaged})]
    /\ filing \in [Docs -> File(Bodies)]
    /\ cache \in [Docs -> File(Bodies)]
    /\ previous \in [Docs -> File(Bodies)]
    /\ processed \in [Versions -> File([Docs -> Bodies \cup {Absent}] \cup {Damaged})]
    /\ index \in [Docs -> {"undecided", "ok", "failed"}]
    /\ request \in Requests
    /\ unsealed \in Docs \cup Sources \cup {Absent}
    /\ cycles \in Nat /\ damage \in Nat

(* A verified file is genuine: in the checkpoint, in the cache and in the     *)
(* previous checkpoint, a body that matches its sidecar is one the provider   *)
(* served, however merges, interruptions and damage paired bodies with        *)
(* sidecars of other downloads (refresh.py:629-641, operations.py:115-134).   *)
VerifiedIsGenuine ==
    \A t \in {"cache", "previous", "filing"} : \A d \in Docs :
       Verified(Tree(t)[d]) => Tree(t)[d].body \in Fetched

(* No resume mixes two requests: every verified asset of the directory was    *)
(* fetched under the request the directory is bound to, and so was the        *)
(* seeding receipt (refresh.py:297-309, 314-333).                             *)
OneContract ==
    /\ \A s \in Sources : Verified(asset[s]) => asset[s].body = contract
    /\ receipt \in {Absent, contract}

(* What the manifest certifies was fetched under the directory's request and  *)
(* verified, and every document it counts as "ok" is a body the provider      *)
(* served; a legacy or damaged one is attrition, never evidence.  And what is *)
(* forecast or settled rests on those bodies and no others, however the cycle *)
(* was interrupted, rerun and damaged between its commands                    *)
(* (refresh.py:651-687, dataset.py:96-146, operations.py:79-99).              *)
Certified ==
    /\ manifest =>
          /\ contract \in Requests
          /\ \A s \in Sources : Verified(asset[s]) /\ asset[s].body = contract
          /\ \A d \in Docs : index[d] # "undecided"
          /\ \A d \in Docs :
                index[d] = "ok" => Verified(filing[d]) /\ filing[d].body \in Fetched
    /\ scored \subseteq {Evidenced} /\ (scored # {} => manifest)

(* "A finalized checkpoint is immutable, even on resume" (refresh.py:296):    *)
(* later commands, promotions and interruptions change none of its files.     *)
FinalIsImmutable ==
    [][manifest /\ cycles' = cycles => UNCHANGED checkpoint]_vars

(* A document's body changes only because the provider served another, or     *)
(* because seeding filled an empty place before it was recorded as complete;  *)
(* seeding never replays over what was refetched (docs/                       *)
(* issue-288-source-assessment.md:117-120).                                   *)
SeedsOnlyEmptyPlaces ==
    [][cycles' = cycles /\ damage' = damage =>
         \A d \in Docs : filing'[d].body # filing[d].body =>
            \/ filing'[d].body \in Fetched /\ pc = "documents"
            \/ filing[d].body = Absent /\ receipt = Absent]_vars

=============================================================================
